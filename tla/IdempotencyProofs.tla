------------------------- MODULE IdempotencyProofs -------------------------
(***************************************************************************)
(* What the unique constraint and the lookup guarantee for every set of    *)
(* requests, keys, users and endpoints, whatever their interleaving.       *)
(***************************************************************************)
EXTENDS Idempotency, TLAPS

\* The initial state satisfies the invariant.
LEMMA InitInv == Init => IInv
  BY DEF Init, IInv, TypeOK, UniqueKeys, RowsInv, StepInv, OkIsStored, ReplaysAreGenuine,
         Steps, WaitInv, RetriesAreReplayed

\* A step of one request, which was not answered yet, keeps retries waiting; and
\* it keeps retries replayed if it is a lookup that finds a row, or leaves the
\* table alone, or is the store of a request whose retries still wait.
LEMMA StepKeepsRetries ==
  ASSUME IInv, NEW r \in Reqs, ~Ended(r),
         step[r] = "idle" => \A q \in Prior[r] : Ended(q),
         step' \in [Reqs -> Steps], step'[r] # "idle",
         \A q \in Reqs \ {r} : step'[q] = step[q],
         \A row \in rows : row \in rows',
         step[r] = "idle" => step'[r] = "replayed" \/ Hit(r) = {}
  PROVE  WaitInv' /\ RetriesAreReplayed'
  <1>1. \A q \in Reqs : Ended(q) => Ended(q)' /\ q # r
    BY DEF Ended
  <1>2. \A q \in Prior[r] : q \in Reqs /\ Ended(q)
    BY PriorAssumption DEF IInv, WaitInv
  <1>3. WaitInv'
    BY <1>1, <1>2, PriorAssumption DEF IInv, WaitInv
  <1>4. ASSUME NEW p \in Reqs, NEW q \in Prior[p], SameOperation(q, p), step'[q] = "ok",
               \A row \in rows' : row.by = q => row.live
        PROVE  step'[p] \in {"idle", "replayed"}
    <2>1. q \in Reqs
      BY PriorAssumption
    <2>2. CASE q = r
      BY <1>1, <1>2, <1>4, <2>1, <2>2 DEF IInv, WaitInv
    <2>3. CASE q # r /\ p # r
      BY <1>4, <2>1, <2>3 DEF IInv, RetriesAreReplayed
    <2>4. CASE q # r /\ p = r
      <3>1. step[q] = "ok" /\ step[r] \in {"idle", "replayed"}
        BY <1>4, <2>1, <2>4 DEF IInv, RetriesAreReplayed
      <3>2. PICK row \in rows : row.by = q
        BY <2>1, <3>1 DEF IInv, OkIsStored
      <3>3. Matches(r, row)
        BY <1>4, <2>4, <3>2 DEF IInv, RowsInv, SameOperation, Matches
      <3> QED
        BY <2>4, <3>1, <3>2, <3>3 DEF Hit, Ended
    <2> QED
      BY <2>2, <2>3, <2>4
  <1>5. RetriesAreReplayed'
    BY <1>4 DEF RetriesAreReplayed, SameOperation
  <1> QED
    BY <1>3, <1>5

\* get_cached_idempotent_response: a replay is genuine because its row is.
LEMMA ReplayInv ==
  ASSUME IInv, NEW r \in Reqs, Replay(r) PROVE IInv'
  <1> USE DEF Replay
  <1>1. PICK row \in Hit(r) : reply' = [reply EXCEPT ![r] = row.by]
    OBVIOUS
  <1>2. row \in rows /\ Matches(r, row) /\ row.by \in Reqs
    BY <1>1 DEF Hit, IInv, TypeOK, Row
  <1>3. TypeOK'
    BY <1>1, <1>2 DEF IInv, TypeOK, Steps
  <1>4. (UniqueKeys /\ RowsInv /\ StepInv /\ OkIsStored)'
    BY DEF IInv, TypeOK, UniqueKeys, RowsInv, StepInv, OkIsStored
  <1>5. ReplaysAreGenuine'
    BY <1>1, <1>2 DEF IInv, TypeOK, RowsInv, Matches, ReplaysAreGenuine
  <1>6. WaitInv' /\ RetriesAreReplayed'
    <2>1. step' \in [Reqs -> Steps] /\ step'[r] = "replayed"
          /\ \A q \in Reqs \ {r} : step'[q] = step[q]
      BY DEF IInv, TypeOK, Steps
    <2> QED
      BY <2>1, StepKeepsRetries DEF Ended
  <1> QED
    BY <1>3, <1>4, <1>5, <1>6 DEF IInv

\* store_idempotent_response: the constraint keeps keys unique.
LEMMA StoreInv ==
  ASSUME IInv, NEW r \in Reqs, Store(r) PROVE IInv'
  <1> USE DEF Store
  <1> DEFINE new == [key |-> KeyOf[r], path |-> PathOf[r], user |-> UserOf[r],
                     by |-> r, live |-> TRUE]
  <1>1. new \in Row
    BY PathAssumption DEF Row
  <1>2. TypeOK'
    <2>1. rows' = rows \cup {new} /\ executed' = executed /\ reply' = reply
      OBVIOUS
    <2>2. step' = [step EXCEPT ![r] = "ok"] /\ "ok" \in Steps
      BY DEF Steps
    <2> HIDE DEF new, Store
    <2> QED
      BY <1>1, <2>1, <2>2 DEF IInv, TypeOK
  <1>3. \A row \in rows : row.key # new.key
    BY DEF Taken
  <1>4. UniqueKeys'
    <2>1. rows' = rows \cup {new}
      OBVIOUS
    <2> HIDE DEF new
    <2> QED
      BY <1>3, <2>1 DEF IInv, UniqueKeys
  <1>5. /\ new.by = r /\ new.key = KeyOf[r] /\ new.path = PathOf[r]
        /\ new.user = UserOf[r] /\ rows' = rows \cup {new}
    OBVIOUS
  <1>6. StepInv' /\ ReplaysAreGenuine'
    BY DEF IInv, TypeOK, StepInv, ReplaysAreGenuine
  <1> HIDE DEF new
  <1>7. RowsInv' /\ OkIsStored'
    BY <1>5 DEF IInv, TypeOK, RowsInv, StepInv, OkIsStored
  <1>8. WaitInv' /\ RetriesAreReplayed'
    <2>1. step' \in [Reqs -> Steps] /\ step'[r] = "ok" /\ step[r] = "store"
          /\ \A q \in Reqs \ {r} : step'[q] = step[q]
      BY DEF IInv, TypeOK, Steps
    <2> QED
      BY <1>5, <2>1, StepKeepsRetries DEF Ended
  <1> QED
    BY <1>2, <1>4, <1>6, <1>7, <1>8 DEF IInv

\* Expiry keeps what a row says of the request that stored it.
LEMMA ExpireInv ==
  ASSUME IInv, Expire PROVE IInv'
  <1> USE DEF Expire
  <1>1. PICK row \in rows : rows' = (rows \ {row}) \cup {[row EXCEPT !.live = FALSE]}
    OBVIOUS
  <1> DEFINE old == [row EXCEPT !.live = FALSE]
  <1>2. /\ old \in Row /\ old.key = row.key /\ old.path = row.path
        /\ old.user = row.user /\ old.by = row.by
    BY DEF IInv, TypeOK, Row
  <1> HIDE DEF old
  <1>3. rows' = (rows \ {row}) \cup {old}
    BY <1>1 DEF old
  <1>4. TypeOK' /\ UniqueKeys' /\ RowsInv'
    BY <1>2, <1>3 DEF IInv, TypeOK, UniqueKeys, RowsInv
  <1>5. OkIsStored' /\ StepInv' /\ ReplaysAreGenuine'
    BY <1>2, <1>3 DEF IInv, OkIsStored, StepInv, ReplaysAreGenuine
  <1>6. WaitInv'
    BY DEF IInv, WaitInv, Ended
  <1>7. ~old.live
    BY DEF old, IInv, TypeOK, Row
  <1>8. RetriesAreReplayed'
    BY <1>2, <1>3, <1>7 DEF IInv, RetriesAreReplayed, SameOperation
  <1> QED
    BY <1>4, <1>5, <1>6, <1>8 DEF IInv

\* The other steps of a request store nothing.
LEMMA OtherInv ==
  ASSUME IInv, NEW r \in Reqs,
         Miss(r) \/ Execute(r) \/ RefuseOperation(r) \/ StoreFails(r) \/ Lose(r)
  PROVE  IInv'
  <1> USE DEF Miss, Execute, RefuseOperation, StoreFails, Lose
  <1>1. TypeOK' /\ UniqueKeys'
    BY DEF IInv, TypeOK, UniqueKeys, Steps
  <1>2. step[r] \in {"idle", "execute", "store"} /\ step'[r] \notin {"ok", "replayed"}
    BY DEF IInv, TypeOK
  <1>3. /\ \A q \in Reqs \ {r} : step'[q] = step[q]
        /\ rows' = rows /\ reply' = reply /\ executed \subseteq executed'
        /\ executed' \subseteq executed \cup {r}
    BY DEF IInv, TypeOK
  <1>4. RowsInv'
    BY <1>2, <1>3 DEF IInv, TypeOK, RowsInv, Row
  <1>5. OkIsStored' /\ ReplaysAreGenuine'
    BY <1>2, <1>3 DEF IInv, OkIsStored, ReplaysAreGenuine
  <1>6. StepInv'
    BY DEF IInv, TypeOK, StepInv
  <1>7. WaitInv' /\ RetriesAreReplayed'
    <2>1. step' \in [Reqs -> Steps] /\ step'[r] # "idle" /\ ~Ended(r)
      BY <1>1, <1>2 DEF TypeOK, Ended
    <2>2. step[r] = "idle" => Hit(r) = {} /\ \A q \in Prior[r] : Ended(q)
      OBVIOUS
    <2> QED
      BY <1>3, <2>1, <2>2, StepKeepsRetries
  <1> QED
    BY <1>1, <1>4, <1>5, <1>6, <1>7 DEF IInv

\* IInv is inductive.
LEMMA NextInv == IInv /\ [Next]_vars => IInv'
  <1> SUFFICES ASSUME IInv, [Next]_vars PROVE IInv'
    OBVIOUS
  <1>1. ASSUME NEW r \in Reqs, Next!1!(r) PROVE IInv'
    BY <1>1, ReplayInv, StoreInv, OtherInv
  <1>2. CASE Expire
    BY <1>2, ExpireInv
  <1>3. CASE UNCHANGED vars
    BY <1>3 DEF vars, IInv, TypeOK, UniqueKeys, RowsInv, StepInv, OkIsStored,
                ReplaysAreGenuine, WaitInv, RetriesAreReplayed, Ended, SameOperation
  <1> QED
    BY <1>1, <1>2, <1>3 DEF Next, Terminated

\* Every reachable state satisfies the invariant.
THEOREM Invariance == Spec => []IInv
  BY InitInv, NextInv, PTL DEF Spec

\* At most one request per key is told that its own operation succeeded, for
\* every workload (utils.py:43-44, models.py:93).
THEOREM OneSuccessPerKey == Spec => []OneSuccess
  <1>1. IInv => OneSuccess
    BY DEF IInv, UniqueKeys, RowsInv, OkIsStored, OneSuccess
  <1> QED
    BY <1>1, Invariance, PTL

\* Replays return the response of an operation that took effect, for the same
\* key and endpoint (utils.py:34-56).
THEOREM GenuineReplays == Spec => []ReplaysAreGenuine
  <1>1. IInv => ReplaysAreGenuine
    BY DEF IInv
  <1> QED
    BY <1>1, Invariance, PTL

\* While the response of a success is stored and has not expired, a retry is
\* answered with it and executes nothing (utils.py:34-56).
THEOREM RetriesReplayed == Spec => []RetriesAreReplayed
  <1>1. IInv => RetriesAreReplayed
    BY DEF IInv
  <1> QED
    BY <1>1, Invariance, PTL
=============================================================================
