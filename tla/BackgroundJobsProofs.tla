------------------------ MODULE BackgroundJobsProofs ------------------------
(***************************************************************************)
(* What holds of the background tasks however many there are, however      *)
(* often they may be retried and however many workers die: their types,    *)
(* the images of a profile, the copies a task leaves behind, and the       *)
(* movements a statement lists.                                            *)
(***************************************************************************)
EXTENDS BackgroundJobs, TLAPS

Waiting == {"unsent", "listing", "queued"}

\* What an image slot may hold.
PhotoInv(i) ==
  \/ photo[i] \in {None, Given}
  \/ \E t \in Images : \E n \in 1..effects[t] : Kind[t] = i /\ photo[i] = <<t, n>>

\* What holds of each task.  One that waits to run has an effect less than it may have
\* had; a worker that died once for a task died.
TaskInv(t) ==
  /\ effects[t] <= 1 + retries[t] + lost[t]
  /\ at[t] \in Waiting => effects[t] <= retries[t] + lost[t]
  /\ lost[t] <= deaths
  /\ t \in Images => result[t] \in {None} \cup 0..effects[t]

\* A statement was sent with a balance read before its movements, and no movement is
\* ever taken back.
StatementInv(t) ==
  /\ statement[t].balance \subseteq posted
  /\ at[t] \notin {"unsent", "listing"} =>
       /\ statement[t].balance \cap Period[t] \subseteq statement[t].listed
       /\ statement[t].listed \subseteq Period[t]

Types ==
  /\ at \in [Tasks -> Steps]
  /\ retries \in [Tasks -> 0..max_retries]
  /\ lost \in [Tasks -> Nat] /\ deaths \in 0..MaxLosses
  /\ effects \in [Tasks -> Nat]
  /\ DOMAIN result = Images /\ result = [t \in Images |-> result[t]]
  /\ photo = [i \in Slots |-> photo[i]]
  /\ profile \in BOOLEAN /\ posted \in SUBSET Movements
  /\ statement \in [Of("statement") -> [balance : SUBSET Movements,
                                        listed : SUBSET Movements]]

IInv ==
  /\ Types
  /\ \A t \in Tasks : TaskInv(t)
  /\ \A i \in Slots : PhotoInv(i)
  /\ \A t \in Of("statement") : StatementInv(t)

---------------------------------------------------------------------------
\* The initial state

LEMMA InitInv == ASSUME Init PROVE IInv
  <1>1. Types
    <2>1. /\ at \in [Tasks -> Steps] /\ lost \in [Tasks -> Nat] /\ effects \in [Tasks -> Nat]
          /\ profile \in BOOLEAN
          /\ DOMAIN result = Images /\ result = [t \in Images |-> result[t]]
          /\ photo = [i \in Slots |-> photo[i]]
      BY DEF Init, Steps
    <2>2. /\ deaths \in 0..MaxLosses /\ posted \in SUBSET Movements
          /\ retries \in [Tasks -> 0..max_retries]
      BY JobsAssumption DEF Init
    <2>3. statement \in [Of("statement") -> [balance : SUBSET Movements,
                                             listed : SUBSET Movements]]
      BY DEF Init
    <2> QED
      BY <2>1, <2>2, <2>3 DEF Types
  <1>2. \A t \in Tasks : TaskInv(t)
    <2> SUFFICES ASSUME NEW t \in Tasks PROVE TaskInv(t)
      OBVIOUS
    <2>1. effects[t] = 0 /\ retries[t] = 0 /\ lost[t] = 0 /\ deaths = 0
      BY DEF Init
    <2>2. t \in Images => result[t] = None
      BY DEF Init
    <2> QED
      BY <2>1, <2>2 DEF TaskInv
  <1>3. \A i \in Slots : PhotoInv(i)
    BY DEF Init, PhotoInv
  <1>4. \A t \in Of("statement") : StatementInv(t)
    <2> SUFFICES ASSUME NEW t \in Of("statement") PROVE StatementInv(t)
      OBVIOUS
    <2>1. statement[t].balance = {} /\ statement[t].listed = {}
      BY DEF Init
    <2> QED
      BY <2>1 DEF StatementInv
  <1> QED
    BY <1>1, <1>2, <1>3, <1>4 DEF IInv

---------------------------------------------------------------------------
\* What a step leaves alone

\* A slot stays as it was and effects are never taken back.
LEMMA PhotoFrame ==
  ASSUME IInv, photo' = photo, effects' \in [Tasks -> Nat],
         \A t \in Tasks : effects[t] <= effects'[t]
  PROVE  \A i \in Slots : PhotoInv(i)'
  <1> SUFFICES ASSUME NEW i \in Slots, photo[i] \notin {None, Given}
               PROVE  PhotoInv(i)'
    BY DEF PhotoInv
  <1>1. PICK t \in Images : \E n \in 1..effects[t] : Kind[t] = i /\ photo[i] = <<t, n>>
    BY DEF IInv, PhotoInv
  <1>2. PICK n \in 1..effects[t] : Kind[t] = i /\ photo[i] = <<t, n>>
    BY <1>1
  <1>3. n \in 1..effects'[t]
    BY <1>2 DEF Images, IInv, Types
  <1> QED
    BY <1>2, <1>3 DEF PhotoInv

\* A step of a task, which is not about a statement being prepared.
LEMMA StatementFrame ==
  ASSUME IInv, statement' = statement, posted \subseteq posted', NEW u \in Tasks,
         \A t \in Tasks \ {u} : at'[t] = at[t],
         at'[u] = at[u] \/ at[u] \notin {"unsent", "listing"} \/ u \notin Of("statement")
  PROVE  \A t \in Of("statement") : StatementInv(t)'
  <1> SUFFICES ASSUME NEW t \in Of("statement") PROVE StatementInv(t)'
    OBVIOUS
  <1>1. t \in Tasks /\ StatementInv(t)
    BY DEF IInv, Of
  <1>2. statement[t].balance \subseteq posted'
    BY <1>1 DEF StatementInv
  <1>3. at'[t] \notin {"unsent", "listing"} => at[t] \notin {"unsent", "listing"}
    BY <1>1
  <1> QED
    BY <1>1, <1>2, <1>3 DEF StatementInv

\* The other tasks, which no step of a task touches.
LEMMA TaskFrame ==
  ASSUME IInv, NEW u \in Tasks, Types', deaths <= deaths',
         \A t \in Tasks \ {u} : /\ at'[t] = at[t] /\ effects'[t] = effects[t]
                                /\ retries'[t] = retries[t] /\ lost'[t] = lost[t],
         \A t \in Images \ {u} : result'[t] = result[t]
  PROVE  \A t \in Tasks \ {u} : TaskInv(t)'
  <1> SUFFICES ASSUME NEW t \in Tasks \ {u} PROVE TaskInv(t)'
    OBVIOUS
  <1>1. TaskInv(t) /\ lost[t] \in Nat /\ deaths \in Nat /\ deaths' \in Nat
    BY DEF IInv, Types
  <1>2. lost'[t] <= deaths'
    BY <1>1 DEF TaskInv
  <1> QED
    BY <1>1, <1>2 DEF TaskInv

\* The invariant from its parts.
LEMMA Parts ==
  ASSUME NEW u \in Tasks, Types', TaskInv(u)', \A t \in Tasks \ {u} : TaskInv(t)',
         \A i \in Slots : PhotoInv(i)', \A t \in Of("statement") : StatementInv(t)'
  PROVE  IInv'
  BY DEF IInv

---------------------------------------------------------------------------
\* The API

\* An image or an e-mail is sent.
LEMMA SendInv ==
  ASSUME IInv, NEW u \in Tasks, Upload(u) \/ SendMail(u)
  PROVE  IInv'
  <1>1. Types'
    BY DEF Upload, SendMail, Moves, losses, rows, Steps, IInv, Types
  <1>2. TaskInv(u)'
    BY DEF Upload, SendMail, Moves, losses, rows, Waiting, IInv, Types, TaskInv
  <1>3. \A t \in Tasks \ {u} : TaskInv(t)'
    BY <1>1, TaskFrame DEF Upload, SendMail, Moves, losses, rows, IInv, Types
  <1>4. \A i \in Slots : PhotoInv(i)'
    BY PhotoFrame DEF Upload, SendMail, rows, IInv, Types
  <1>5. u \notin Of("statement")
    BY DEF Upload, SendMail, Images, ImageTypes, Of
  <1>6. \A t \in Of("statement") : StatementInv(t)'
    BY <1>5, StatementFrame DEF Upload, SendMail, Moves, rows, IInv, Types
  <1> QED
    BY <1>1, <1>2, <1>3, <1>4, <1>6, Parts

\* The two reads of a statement.
LEMMA StatementReadsInv ==
  ASSUME IInv, NEW u \in Tasks, ReadBalance(u) \/ ListMovements(u)
  PROVE  IInv'
  <1>1. Types'
    <2>1. posted \in SUBSET Movements
      BY DEF IInv, Types
    <2>2. statement' \in [Of("statement") -> [balance : SUBSET Movements,
                                              listed : SUBSET Movements]]
      BY <2>1 DEF ReadBalance, ListMovements, IInv, Types
    <2>3. at' \in [Tasks -> Steps]
      BY DEF ReadBalance, ListMovements, Moves, Steps, IInv, Types
    <2> QED
      BY <2>2, <2>3 DEF ReadBalance, ListMovements, losses, rows, IInv, Types
  <1>2. TaskInv(u)'
    BY DEF ReadBalance, ListMovements, Moves, losses, rows, Waiting, IInv, Types, TaskInv
  <1>3. \A t \in Tasks \ {u} : TaskInv(t)'
    BY <1>1, TaskFrame DEF ReadBalance, ListMovements, Moves, losses, rows, IInv, Types
  <1>4. \A i \in Slots : PhotoInv(i)'
    BY PhotoFrame DEF ReadBalance, ListMovements, rows, IInv, Types
  <1>5. \A t \in Of("statement") : StatementInv(t)'
    <2> SUFFICES ASSUME NEW t \in Of("statement") PROVE StatementInv(t)'
      OBVIOUS
    <2>1. /\ t \in Tasks /\ StatementInv(t) /\ posted' = posted
          /\ statement[t] \in [balance : SUBSET Movements, listed : SUBSET Movements]
      BY DEF IInv, Types, Of, ReadBalance, ListMovements, rows
    <2>2. CASE t # u
      BY <2>1, <2>2 DEF ReadBalance, ListMovements, Moves, StatementInv, IInv, Types
    <2>3. CASE t = u /\ ReadBalance(u)
      <3>1. statement'[t].balance = posted /\ at'[t] = "listing"
        BY <2>1, <2>3 DEF ReadBalance, Moves, IInv, Types
      <3> QED
        BY <2>1, <3>1 DEF StatementInv
    <2>4. CASE t = u /\ ListMovements(u)
      <3>1. /\ statement'[t].balance = statement[t].balance
            /\ statement'[t].listed = posted \cap Period[t]
        BY <2>1, <2>4 DEF ListMovements, IInv, Types
      <3> QED
        BY <2>1, <3>1 DEF StatementInv
    <2> QED
      BY <2>2, <2>3, <2>4
  <1> QED
    BY <1>1, <1>2, <1>3, <1>4, <1>5, Parts

\* The profile and the movements, which are not a task's.
LEMMA RowsInv == ASSUME IInv, CreateProfile \/ Post PROVE IInv'
  <1>1. Types'
    <2>1. posted' \in SUBSET Movements
      BY DEF CreateProfile, Post, IInv, Types
    <2>2. photo' = [i \in Slots |-> photo'[i]] /\ profile' \in BOOLEAN
      BY DEF CreateProfile, Post, IInv, Types
    <2>3. UNCHANGED <<at, retries, lost, deaths, effects, result, statement>>
      BY DEF CreateProfile, Post, messages, losses
    <2> QED
      BY <2>1, <2>2, <2>3 DEF IInv, Types
  <1>2. \A t \in Tasks : TaskInv(t)'
    BY DEF CreateProfile, Post, messages, losses, IInv, TaskInv
  <1>3. \A i \in Slots : PhotoInv(i)'
    BY DEF CreateProfile, Post, IInv, PhotoInv
  <1>4. \A t \in Of("statement") : StatementInv(t)'
    <2> SUFFICES ASSUME NEW t \in Of("statement") PROVE StatementInv(t)'
      OBVIOUS
    <2>1. /\ StatementInv(t) /\ posted \subseteq posted'
          /\ at' = at /\ statement' = statement
      BY DEF IInv, Types, CreateProfile, Post, messages
    <2> QED
      BY <2>1 DEF StatementInv
  <1> QED
    BY <1>1, <1>2, <1>3, <1>4 DEF IInv

\* A poll puts the upload its task named into the slot of that image.
LEMMA PollInv == ASSUME IInv, NEW u \in Tasks, Poll(u) PROVE IInv'
  <1>1. Types'
    BY DEF Poll, messages, losses, IInv, Types
  <1>2. \A t \in Tasks : TaskInv(t)'
    BY DEF Poll, messages, losses, IInv, TaskInv
  <1>3. \A t \in Of("statement") : StatementInv(t)'
    BY DEF Poll, messages, IInv, StatementInv
  <1>4. \A i \in Slots : PhotoInv(i)'
    <2> SUFFICES ASSUME NEW i \in Slots PROVE PhotoInv(i)'
      OBVIOUS
    <2>1. u \in Images /\ effects' = effects /\ effects[u] \in Nat
      BY DEF Poll, IInv, Types, Images
    <2>2. CASE i # Kind[u]
      <3>1. photo'[i] = photo[i]
        BY <2>2 DEF Poll, IInv, Types
      <3> QED
        BY <2>1, <3>1 DEF PhotoInv, IInv
    <2>3. CASE i = Kind[u]
      <3>1. photo'[i] = <<u, result[u]>>
        BY <2>3 DEF Poll, IInv, Types
      <3>2. result[u] \in 1..effects[u]
        BY <2>1 DEF Poll, Failed, IInv, TaskInv
      <3> QED
        BY <2>1, <2>3, <3>1, <3>2 DEF PhotoInv
    <2> QED
      BY <2>2, <2>3
  <1> QED
    BY <1>1, <1>2, <1>3, <1>4 DEF IInv

---------------------------------------------------------------------------
\* The worker

\* What a task does outside.
LEMMA EffectInv == ASSUME IInv, NEW u \in Tasks, Effect(u) PROVE IInv'
  <1>1. Types'
    BY DEF Effect, Moves, losses, rows, Steps, IInv, Types
  <1>2. TaskInv(u)'
    <2>1. /\ effects'[u] = effects[u] + 1 /\ effects[u] \in Nat
          /\ retries[u] \in Nat /\ lost[u] \in Nat
          /\ at[u] = "queued" /\ at'[u] = "stored"
      BY DEF Effect, Moves, IInv, Types
    <2>2. effects[u] <= retries[u] + lost[u]
      BY <2>1 DEF Waiting, IInv, TaskInv
    <2>3. u \in Images => result'[u] \in {None} \cup 0..effects'[u]
      BY <2>1 DEF Effect, IInv, TaskInv
    <2> QED
      BY <2>1, <2>2, <2>3 DEF Effect, losses, Waiting, IInv, TaskInv
  <1>3. \A t \in Tasks \ {u} : TaskInv(t)'
    BY <1>1, TaskFrame DEF Effect, Moves, losses, rows, IInv, Types
  <1>4. \A i \in Slots : PhotoInv(i)'
    BY PhotoFrame DEF Effect, rows, IInv, Types
  <1>5. \A t \in Of("statement") : StatementInv(t)'
    BY StatementFrame DEF Effect, Moves, rows, IInv, Types
  <1> QED
    BY <1>1, <1>2, <1>3, <1>4, <1>5, Parts

\* An answer is stored for an image only, and is one of the uploads or a failure.
LEMMA AnswerFacts ==
  ASSUME IInv, NEW u \in Tasks, NEW n \in 0..effects[u], result' = Answer(u, n)
  PROVE  /\ DOMAIN result' = Images /\ result' = [t \in Images |-> result'[t]]
         /\ \A t \in Images \ {u} : result'[t] = result[t]
         /\ u \in Images => result'[u] \in {None} \cup 0..effects[u]
  BY DEF Answer, IInv, Types, TaskInv

\* A task ends, well or not.
LEMMA EndInv ==
  ASSUME IInv, NEW u \in Tasks,
         Return(u) \/ MailRefused(u) \/ Acknowledge(u)
  PROVE  IInv'
  <1>1. /\ DOMAIN result' = Images /\ result' = [t \in Images |-> result'[t]]
        /\ \A t \in Images \ {u} : result'[t] = result[t]
        /\ u \in Images => result'[u] \in {None} \cup 0..effects[u]
    <2>1. CASE result' = result
      BY <2>1 DEF IInv, Types, TaskInv
    <2>2. CASE result' = Answer(u, effects[u])
      <3>1. effects[u] \in 0..effects[u]
        BY DEF IInv, Types
      <3> QED
        BY <2>2, <3>1, AnswerFacts
    <2> QED
      BY <2>1, <2>2 DEF Return, MailRefused, Acknowledge
  <1>2. Types'
    BY <1>1 DEF Return, MailRefused, Acknowledge, Moves, losses, rows, Steps, IInv, Types
  <1>3. TaskInv(u)'
    <2>1. /\ effects' = effects /\ retries' = retries /\ lost' = lost /\ deaths' = deaths
          /\ at'[u] \notin Waiting
      BY DEF Return, MailRefused, Acknowledge, Moves, losses, Waiting, IInv, Types
    <2> QED
      BY <1>1, <2>1 DEF IInv, TaskInv
  <1>4. \A t \in Tasks \ {u} : TaskInv(t)'
    BY <1>1, <1>2, TaskFrame DEF Return, MailRefused, Acknowledge, Moves, losses, rows,
                                 IInv, Types
  <1>5. \A i \in Slots : PhotoInv(i)'
    BY PhotoFrame DEF Return, MailRefused, Acknowledge, rows, IInv, Types
  <1>6. \A t \in Of("statement") : StatementInv(t)'
    BY StatementFrame DEF Return, MailRefused, Acknowledge, Moves, rows, IInv, Types
  <1> QED
    BY <1>2, <1>3, <1>4, <1>5, <1>6, Parts

\* A task raises: it is sent again, or fails.
LEMMA FailInv == ASSUME IInv, NEW u \in Tasks, Fail(u) PROVE IInv'
  <1>0. /\ effects[u] \in Nat /\ retries[u] \in 0..max_retries /\ lost[u] \in Nat
        /\ max_retries \in Nat /\ at[u] \in {"queued", "stored"}
    BY JobsAssumption DEF Fail, IInv, Types
  <1>1. /\ DOMAIN result' = Images /\ result' = [t \in Images |-> result'[t]]
        /\ \A t \in Images \ {u} : result'[t] = result[t]
        /\ u \in Images => result'[u] \in {None} \cup 0..effects[u]
    <2>1. CASE result' = result
      BY <2>1 DEF IInv, Types, TaskInv
    <2>2. CASE result' = Answer(u, Failed)
      <3>1. Failed \in 0..effects[u]
        BY <1>0 DEF Failed
      <3> QED
        BY <2>2, <3>1, AnswerFacts
    <2> QED
      BY <2>1, <2>2 DEF Fail
  <1>2. /\ at' \in [Tasks -> Steps] /\ retries' \in [Tasks -> 0..max_retries]
        /\ \A t \in Tasks \ {u} : at'[t] = at[t] /\ retries'[t] = retries[t]
        /\ \/ at'[u] = "queued" /\ retries'[u] = retries[u] + 1
           \/ at'[u] = "failed" /\ retries'[u] = retries[u]
    <2>1. CASE retries[u] < max_retries
      BY <1>0, <2>1 DEF Fail, Steps, IInv, Types
    <2>2. CASE ~(retries[u] < max_retries)
      BY <2>2 DEF Fail, Steps, IInv, Types
    <2> QED
      BY <2>1, <2>2
  <1>3. Types'
    BY <1>1, <1>2 DEF Fail, losses, rows, IInv, Types
  <1>4. TaskInv(u)'
    <2>1. effects' = effects /\ lost' = lost /\ deaths' = deaths
      BY DEF Fail, losses
    <2> QED
      BY <1>0, <1>1, <1>2, <2>1 DEF Waiting, IInv, TaskInv
  <1>5. \A t \in Tasks \ {u} : TaskInv(t)'
    BY <1>1, <1>2, <1>3, TaskFrame DEF Fail, losses, rows, IInv, Types
  <1>6. \A i \in Slots : PhotoInv(i)'
    BY PhotoFrame DEF Fail, rows, IInv, Types
  <1>7. \A t \in Of("statement") : StatementInv(t)'
    BY <1>0, <1>2, StatementFrame DEF Fail, rows, IInv, Types
  <1> QED
    BY <1>3, <1>4, <1>5, <1>6, <1>7, Parts

\* A worker dies, and the message is delivered again.
LEMMA LoseInv == ASSUME IInv, NEW u \in Tasks, Lose(u) PROVE IInv'
  <1>0. /\ effects[u] \in Nat /\ retries[u] \in Nat /\ lost[u] \in Nat /\ deaths \in Nat
        /\ at[u] \in {"stored", "returned"} /\ at'[u] = "queued"
        /\ lost'[u] = lost[u] + 1 /\ deaths' = deaths + 1
    BY DEF Lose, IInv, Types
  <1>1. Types'
    BY JobsAssumption DEF Lose, rows, Steps, IInv, Types
  <1>2. TaskInv(u)'
    BY <1>0 DEF Lose, Waiting, IInv, TaskInv
  <1>3. \A t \in Tasks \ {u} : TaskInv(t)'
    BY <1>0, <1>1, TaskFrame DEF Lose, rows, IInv, Types
  <1>4. \A i \in Slots : PhotoInv(i)'
    BY PhotoFrame DEF Lose, rows, IInv, Types
  <1>5. \A t \in Of("statement") : StatementInv(t)'
    BY <1>0, StatementFrame DEF Lose, rows, IInv, Types
  <1> QED
    BY <1>1, <1>2, <1>3, <1>4, <1>5, Parts

\* A result expires.
LEMMA ExpiresInv ==
  ASSUME IInv, NEW u \in Tasks, ResultExpires(u) PROVE IInv'
  <1>1. Types'
    BY DEF ResultExpires, messages, losses, rows, IInv, Types
  <1>2. \A t \in Tasks : TaskInv(t)'
    BY DEF ResultExpires, messages, losses, IInv, Types, TaskInv
  <1>3. \A i \in Slots : PhotoInv(i)'
    BY DEF ResultExpires, rows, IInv, PhotoInv
  <1>4. \A t \in Of("statement") : StatementInv(t)'
    BY DEF ResultExpires, messages, rows, IInv, StatementInv
  <1> QED
    BY <1>1, <1>2, <1>3, <1>4 DEF IInv

---------------------------------------------------------------------------
\* Every step

LEMMA NextInv == ASSUME IInv, [Next]_vars PROVE IInv'
  <1>1. CASE UNCHANGED vars
    <2>1. Types' /\ \A t \in Tasks : TaskInv(t)'
      BY <1>1 DEF vars, messages, losses, rows, IInv, Types, TaskInv
    <2>2. \A i \in Slots : PhotoInv(i)'
      BY <1>1 DEF vars, messages, losses, rows, IInv, PhotoInv
    <2>3. \A t \in Of("statement") : StatementInv(t)'
      BY <1>1 DEF vars, messages, losses, rows, IInv, StatementInv
    <2> QED
      BY <2>1, <2>2, <2>3 DEF IInv
  <1>2. ASSUME NEW t \in Tasks,
               \/ Upload(t) \/ SendMail(t) \/ ReadBalance(t) \/ ListMovements(t) \/ Poll(t)
               \/ Work(t) \/ Lose(t) \/ ResultExpires(t)
        PROVE  IInv'
    <2>1. CASE Work(t)
      BY <2>1, EffectInv, EndInv, FailInv DEF Work, UploadImage, StorePdf, SendMessage
    <2> QED
      BY <1>2, <2>1, SendInv, StatementReadsInv, PollInv, LoseInv, ExpiresInv
  <1>3. CASE CreateProfile \/ Post
    BY <1>3, RowsInv
  <1> QED
    BY <1>1, <1>2, <1>3 DEF Next, Terminated

\* The inductive invariant holds of every reachable state.
THEOREM Invariance == Spec => []IInv
  <1>1. Init => IInv
    BY InitInv
  <1>2. IInv /\ [Next]_vars => IInv'
    BY NextInv
  <1> QED
    BY <1>1, <1>2, PTL DEF Spec

\* Every variable keeps its type: in particular no message is sent again more than
\* max_retries times, and no task is delivered again more often than workers died.
THEOREM TypesKept == Spec => []TypeOK
  <1>1. IInv => TypeOK
    <2> SUFFICES ASSUME IInv PROVE TypeOK
      OBVIOUS
    <2>1. lost \in [Tasks -> 0..MaxLosses]
      <3>1. \A t \in Tasks : lost[t] \in 0..MaxLosses
        <4> SUFFICES ASSUME NEW t \in Tasks PROVE lost[t] \in 0..MaxLosses
          OBVIOUS
        <4>1. lost[t] \in Nat /\ lost[t] <= deaths /\ deaths \in 0..MaxLosses
          BY DEF IInv, Types, TaskInv
        <4> QED
          BY <4>1, JobsAssumption
      <3> QED
        BY <3>1 DEF IInv, Types
    <2>2. result \in [Images -> {None} \cup Nat]
      <3>1. \A t \in Images : result[t] \in {None} \cup Nat
        <4> SUFFICES ASSUME NEW t \in Images PROVE result[t] \in {None} \cup Nat
          OBVIOUS
        <4>1. t \in Tasks /\ effects[t] \in Nat
          BY DEF IInv, Types, Images
        <4>2. result[t] \in {None} \cup 0..effects[t]
          BY <4>1 DEF IInv, TaskInv
        <4> QED
          BY <4>1, <4>2
      <3> QED
        BY <3>1 DEF IInv, Types
    <2>3. \A i \in Slots : photo[i] \in {None, Given} \cup (Images \X Nat)
      <3> SUFFICES ASSUME NEW i \in Slots, photo[i] \notin {None, Given}
                   PROVE  photo[i] \in Images \X Nat
        OBVIOUS
      <3>1. PICK t \in Images : \E n \in 1..effects[t] : Kind[t] = i /\ photo[i] = <<t, n>>
        BY DEF IInv, PhotoInv
      <3>2. PICK n \in 1..effects[t] : Kind[t] = i /\ photo[i] = <<t, n>>
        BY <3>1
      <3>3. n \in Nat
        BY <3>2 DEF IInv, Types, Images
      <3> QED
        BY <3>2, <3>3
    <2> QED
      BY <2>1, <2>2, <2>3 DEF IInv, Types, TypeOK
  <1> QED
    BY <1>1, Invariance, PTL

\* An image slot of the profile shows what came with the profile, or an upload that was
\* made for it, whatever is repeated, lost, polled twice or expired.
THEOREM SlotsShowUploads == Spec => []PhotoWasUploaded
  <1>1. IInv => PhotoWasUploaded
    BY DEF IInv, PhotoInv, PhotoWasUploaded
  <1> QED
    BY <1>1, Invariance, PTL

\* A task has done its work outside once, and once more for each retry and each worker
\* that died with its message, at most.
THEOREM RepeatsAreCounted == Spec => []EffectsBounded
  <1>1. IInv => EffectsBounded
    BY DEF IInv, TaskInv, EffectsBounded
  <1> QED
    BY <1>1, Invariance, PTL

\* A statement lists all the movements of its period that are in the balance it shows,
\* and none of another, whatever commits between the query for the one and the query for
\* the others, and whatever the dates it was asked for.
THEOREM StatementsListAll == Spec => []ListedCoversBalance
  <1>1. IInv => ListedCoversBalance
    BY DEF IInv, StatementInv, ListedCoversBalance
  <1> QED
    BY <1>1, Invariance, PTL
=============================================================================
