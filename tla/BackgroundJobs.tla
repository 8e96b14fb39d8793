--------------------------- MODULE BackgroundJobs ---------------------------
(***************************************************************************)
(* What the API leaves to Celery: profile images go to Cloudinary and      *)
(* their URL into the profile once somebody asks for the result,           *)
(* statements are put into Redis, e-mails are sent.  A message is          *)
(* acknowledged when its task has ended, so a worker that dies has it      *)
(* delivered again; a task that raises is sent again, with a delay, until  *)
(* max_retries; results and statements expire.                             *)
(***************************************************************************)
EXTENDS Integers

CONSTANTS
  Tasks, Kind,   \* the tasks the API may send, and what each is
  max_retries,
  Movements,     \* the movements of the account of the statements
  Period,        \* those created between the dates each statement was asked for
  Together,      \* bounds the model: the sets of tasks that are sent side by side
  MaxLosses,     \* bounds the model: workers that die
  None, Given    \* no URL, and one that came with the profile

ImageTypes == {"profile_photo", "id_photo", "signature_photo"}
Kinds      == ImageTypes \cup {"statement", "email"}

ASSUME JobsAssumption ==
  /\ Kind \in [Tasks -> Kinds]
  /\ max_retries \in Nat /\ MaxLosses \in Nat

Failed == 0

Images == {t \in Tasks : Kind[t] \in ImageTypes}
Slots  == {Kind[t] : t \in Images}
Of(kind) == {t \in Tasks : Kind[t] = kind}

\* The dates are the client's: any of the movements may be between them.
ASSUME PeriodAssumption == Period \in [Of("statement") -> SUBSET Movements]

VARIABLES
  at,        \* where each task is
  retries,   \* request.retries of its message
  effects,   \* how often it has uploaded, stored or sent something
  result,    \* the result of each image task: the upload it names, Failed, or None
  lost,      \* history: deliveries of each that ended with the worker
  deaths,    \* history: workers that died
  photo,     \* the URL in each image slot of the profile: task and upload, or Given
  profile,   \* there is a profile
  posted,    \* the movements that are completed: those in the balance
  statement  \* the movements in the balance of each statement, and those it lists

losses   == <<lost, deaths>>
messages == <<at, retries, losses>>
rows     == <<photo, profile, posted>>
vars     == <<messages, effects, result, rows, statement>>

Steps == {"unsent", "listing", "queued", "stored", "returned", "done", "failed"}

Init ==
  /\ at = [t \in Tasks |-> "unsent"]
  /\ retries = [t \in Tasks |-> 0] /\ lost = [t \in Tasks |-> 0] /\ deaths = 0
  /\ effects = [t \in Tasks |-> 0]
  /\ result = [t \in Images |-> None]
  /\ photo = [i \in Slots |-> None] /\ profile = FALSE
  /\ posted = {}
  /\ statement = [t \in Of("statement") |-> [balance |-> {}, listed |-> {}]]

Moves(t, from, to) ==
  /\ at[t] = from
  /\ at' = [at EXCEPT ![t] = to]

Unsent == {t \in Tasks : at[t] = "unsent"}
MaySend(t) == \E sent \in Together : (Tasks \ Unsent) \cup {t} \subseteq sent

---------------------------------------------------------------------------
\* The API

\* upload_profile_image, after it looked at the bytes of the image.
Upload(t) ==
  /\ t \in Images /\ MaySend(t)
  /\ Moves(t, "unsent", "queued")
  /\ UNCHANGED <<retries, losses, effects, result, rows, statement>>

\* EmailTemplate.send_email
SendMail(t) ==
  /\ t \in Of("email") /\ MaySend(t)
  /\ Moves(t, "unsent", "queued")
  /\ UNCHANGED <<retries, losses, effects, result, rows, statement>>

\* prepare_statement_data reads the accounts with their balances ...
ReadBalance(t) ==
  /\ t \in Of("statement") /\ MaySend(t)
  /\ Moves(t, "unsent", "listing")
  /\ statement' = [statement EXCEPT ![t].balance = posted]
  /\ UNCHANGED <<retries, losses, effects, result, rows>>

\* (mutant) The movements were read first, then the accounts with their balances.
ListMovementsFirst(t) ==
  /\ Moves(t, "listing", "queued")
  /\ statement' = [statement EXCEPT ![t] = [balance |-> posted,
                                           listed  |-> @.balance \cap Period[t]]]
  /\ UNCHANGED <<retries, losses, effects, result, rows>>

\* ... then, in a query of its own, the completed movements that were created between
\* the dates asked for; the task is sent.
ListMovements(t) ==
  /\ Moves(t, "listing", "queued")
  /\ statement' = [statement EXCEPT ![t].listed = posted \cap Period[t]]
  /\ UNCHANGED <<retries, losses, effects, result, rows>>

\* create_user_profile takes URLs from the client; update_user_profile skips them.
CreateProfile ==
  /\ ~profile /\ profile' = TRUE
  /\ \E url \in {None, Given} : photo' = [i \in Slots |-> url]
  /\ UNCHANGED <<messages, effects, result, posted, statement>>

\* (mutant) The slot comes with the question, not with the result of the task.
PollAnySlot(t) ==
  /\ t \in Images /\ profile
  /\ result[t] \notin {None, Failed}
  /\ \E i \in Slots : photo' = [photo EXCEPT ![i] = <<t, result[t]>>]
  /\ UNCHANGED <<messages, effects, result, profile, posted, statement>>

\* get_upload_status puts the URL of a successful upload into the profile, every
\* time it is asked; without a profile it fails.
Poll(t) ==
  /\ t \in Images /\ profile
  /\ result[t] \notin {None, Failed}
  /\ photo' = [photo EXCEPT ![Kind[t]] = <<t, result[t]>>]
  /\ UNCHANGED <<messages, effects, result, profile, posted, statement>>

\* A deposit, withdrawal or transfer commits the balance with the movement, which stays
\* completed.  It was created at that time, or days before: a transfer may be held.
Post ==
  /\ \E m \in Movements \ posted : posted' = posted \cup {m}
  /\ UNCHANGED <<messages, effects, result, photo, profile, statement>>

---------------------------------------------------------------------------
\* The worker

\* A worker takes the message and the task does what it is for.
Effect(t) ==
  /\ Moves(t, "queued", "stored")
  /\ effects' = [effects EXCEPT ![t] = @ + 1]
  /\ UNCHANGED <<retries, losses, result, rows, statement>>

\* The image is uploaded, each time under an id of its own.
UploadImage(t) == t \in Images /\ Effect(t)

\* The PDF is stored in Redis for an hour, each time under the id of the statement.
StorePdf(t) == t \in Of("statement") /\ Effect(t)

\* The mail server accepts the e-mail.
SendMessage(t) == t \in Of("email") /\ Effect(t)

\* The result backend keeps what a task returned, and the first success for good;
\* only the result of an image is read.
Answer(t, upload) ==
  IF t \in Images /\ result[t] \in {None, Failed} THEN [result EXCEPT ![t] = upload]
  ELSE result

\* The result is stored before the message is acknowledged.
Return(t) ==
  /\ Moves(t, "stored", "returned")
  /\ result' = Answer(t, effects[t])
  /\ UNCHANGED <<retries, losses, effects, rows, statement>>

\* send_email_task catches its exception and returns False: Celery sees a success
\* and does not retry.
MailRefused(t) ==
  /\ t \in Of("email")
  /\ Moves(t, "queued", "returned")
  /\ UNCHANGED <<retries, losses, effects, result, rows, statement>>

Acknowledge(t) ==
  /\ Moves(t, "returned", "done")
  /\ UNCHANGED <<retries, losses, effects, result, rows, statement>>

\* (mutant) One retry more than max_retries.
FailOnceMore(t) ==
  /\ t \notin Of("email") /\ at[t] \in {"queued", "stored"}
  /\ IF retries[t] <= max_retries
     THEN /\ at' = [at EXCEPT ![t] = "queued"]
          /\ retries' = [retries EXCEPT ![t] = @ + 1]
          /\ UNCHANGED result
     ELSE /\ at' = [at EXCEPT ![t] = "failed"]
          /\ result' = Answer(t, Failed)
          /\ UNCHANGED retries
  /\ UNCHANGED <<losses, effects, rows, statement>>

\* (mutant) The message that is sent again does not count the attempt.
FailUncounted(t) ==
  /\ t \notin Of("email") /\ at[t] \in {"queued", "stored"}
  /\ at' = [at EXCEPT ![t] = "queued"]
  /\ UNCHANGED <<retries, result, losses, effects, rows, statement>>

\* (mutant) A message that was sent again max_retries times counts anew.
FailForever(t) ==
  /\ t \notin Of("email") /\ at[t] \in {"queued", "stored"}
  /\ at' = [at EXCEPT ![t] = "queued"]
  /\ retries' = [retries EXCEPT ![t] = IF @ < max_retries THEN @ + 1 ELSE 0]
  /\ UNCHANGED <<losses, effects, result, rows, statement>>

\* The task raises, before or after it stored something, and is sent again; that
\* goes for a content type that is not allowed too, which autoretry_for retries
\* though the task means it to fail.
Fail(t) ==
  /\ t \notin Of("email") /\ at[t] \in {"queued", "stored"}
  /\ IF retries[t] < max_retries
     THEN /\ at' = [at EXCEPT ![t] = "queued"]
          /\ retries' = [retries EXCEPT ![t] = @ + 1]
          /\ UNCHANGED result
     ELSE /\ at' = [at EXCEPT ![t] = "failed"]
          /\ result' = Answer(t, Failed)
          /\ UNCHANGED retries
  /\ UNCHANGED <<losses, effects, rows, statement>>

\* The worker dies before it acknowledged the message: it is delivered again.  If it
\* had done nothing yet, nothing changes.
Lose(t) ==
  /\ at[t] \in {"stored", "returned"}
  /\ deaths < MaxLosses /\ deaths' = deaths + 1
  /\ at' = [at EXCEPT ![t] = "queued"]
  /\ lost' = [lost EXCEPT ![t] = @ + 1]
  /\ UNCHANGED <<retries, effects, result, rows, statement>>

\* After an hour the result is gone, and its status is pending again.
ResultExpires(t) ==
  /\ t \in Images /\ result[t] # None
  /\ result' = [result EXCEPT ![t] = None]
  /\ UNCHANGED <<messages, effects, rows, statement>>

---------------------------------------------------------------------------

Work(t) ==
  \/ UploadImage(t) \/ StorePdf(t) \/ SendMessage(t)
  \/ Return(t) \/ MailRefused(t) \/ Fail(t)
  \/ Acknowledge(t)

\* Every task that was sent has ended, and nothing more is sent.
Terminated ==
  /\ \A t \in Tasks \ Unsent : at[t] \in {"done", "failed"}
  /\ \A t \in Unsent : ~MaySend(t)
  /\ UNCHANGED vars

Next ==
  \/ \E t \in Tasks :
       \/ Upload(t) \/ SendMail(t) \/ ReadBalance(t) \/ ListMovements(t) \/ Poll(t)
       \/ Work(t) \/ Lose(t) \/ ResultExpires(t)
  \/ CreateProfile
  \/ Post
  \/ Terminated

\* Workers are started again, and go on with a task until it has ended.
Fairness == \A t \in Tasks : WF_vars(Work(t))

Spec == Init /\ [][Next]_vars /\ Fairness

---------------------------------------------------------------------------
\* Properties

TypeOK ==
  /\ at \in [Tasks -> Steps]
  /\ retries \in [Tasks -> 0..max_retries]
  /\ lost \in [Tasks -> 0..MaxLosses] /\ deaths \in 0..MaxLosses
  /\ effects \in [Tasks -> Nat]
  /\ result \in [Images -> {None} \cup Nat]
  /\ \A i \in Slots : photo[i] \in {None, Given} \cup (Images \X Nat)
  /\ profile \in BOOLEAN /\ posted \in SUBSET Movements
  /\ statement \in [Of("statement") -> [balance : SUBSET Movements, listed : SUBSET Movements]]

\* A slot of the profile holds what came with the profile, or the URL of an image that
\* was uploaded for it, though uploads are repeated and polled in any order.
PhotoWasUploaded ==
  \A i \in Slots : photo[i] \notin {None, Given} =>
    /\ Kind[photo[i][1]] = i
    /\ photo[i][2] \in 1..effects[photo[i][1]]

\* A task uploads, stores or sends once more than it was retried and redelivered,
\* at most: the copies left in Cloudinary, or in a mailbox, are no more than that.
EffectsBounded == \A t \in Tasks : effects[t] <= 1 + retries[t] + lost[t]

\* A statement lists every movement of its period that is in the balance it shows, for
\* the balance is read first: one that commits between the two queries is listed and
\* not yet in the balance.  The balance has those before and after the period too, and
\* none of them is listed.
ListedCoversBalance ==
  \A t \in Of("statement") : at[t] \notin {"unsent", "listing"} =>
    /\ statement[t].balance \cap Period[t] \subseteq statement[t].listed
    /\ statement[t].listed \subseteq Period[t]

\* Every task that was sent ends, however it fails, for workers die finitely often.
Ends == <>[](\A t \in Tasks : at[t] \notin {"queued", "stored", "returned"})
=============================================================================
