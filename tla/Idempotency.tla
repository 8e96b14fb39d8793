---------------------------- MODULE Idempotency ----------------------------
(***************************************************************************)
(* The Idempotency-Key protocol around the endpoints that move money:      *)
(* a request looks its key up, executes the operation if the key is new,   *)
(* and stores its response under the key.  Each of the three is a          *)
(* transaction of its own, so requests with the same key interleave and a  *)
(* worker may be lost between any two of them.  The operation itself is    *)
(* abstract: it takes effect in one commit (module Ledger) or is refused.  *)
(***************************************************************************)
EXTENDS Naturals, FiniteSets

CONSTANTS
  Reqs,      \* the requests that will arrive (bounds the model)
  KeyOf,     \* the key in the header of each request
  UserOf,    \* the user who sends it
  PathOf,    \* the endpoint it is sent to
  Prior,     \* the requests its client has seen end before it sends this one
  Fragile,   \* requests whose worker or connection may be lost
  Lifetimes  \* whether stored keys may expire: a subset of {"short"}

Paths == {"/withdraw", "/transfer/initiate", "/virtual-card/top-up"}

ASSUME PathAssumption  == PathOf \in [Reqs -> Paths]
ASSUME PriorAssumption == Prior \in [Reqs -> SUBSET Reqs]

VARIABLES
  rows,      \* the idempotencykey table
  executed,  \* requests whose operation took effect
  step,      \* where each request is, or how it was answered
  reply      \* the request whose response each request was answered with

vars == <<rows, executed, step, reply>>

Steps == {"idle", "execute", "store", "ok", "replayed", "refused", "error"}
Ended(r) == step[r] \in {"ok", "replayed", "refused", "error"}

Row == [key : {KeyOf[r] : r \in Reqs}, path : Paths, user : {UserOf[r] : r \in Reqs},
        by : Reqs, live : BOOLEAN]

\* (mutant) The lookup goes by the key alone.
MatchesKey(r, row) == row.live /\ row.key = KeyOf[r]

\* The live row that get_cached_idempotent_response finds for r.  The lookup of
\* a withdrawal does not name the user.
Matches(r, row) ==
  /\ row.live
  /\ row.key = KeyOf[r] /\ row.path = PathOf[r]
  /\ PathOf[r] # "/withdraw" => row.user = UserOf[r]

Hit(r) == {row \in rows : Matches(r, row)}

\* (mutant) Each endpoint has its own name space for keys.
TakenHere(r) == \E row \in rows : row.key = KeyOf[r] /\ row.path = PathOf[r]

\* The unique constraint on the key, whatever the endpoint and the expiry.
Taken(r) == \E row \in rows : row.key = KeyOf[r]

-----------------------------------------------------------------------------
Init ==
  /\ rows = {} /\ executed = {}
  /\ step = [r \in Reqs |-> "idle"]
  /\ reply = [r \in Reqs |-> r]

\* A live row under the key answers the request.
Replay(r) ==
  /\ step[r] = "idle"
  /\ \A q \in Prior[r] : Ended(q)
  /\ \E row \in Hit(r) : reply' = [reply EXCEPT ![r] = row.by]
  /\ step' = [step EXCEPT ![r] = "replayed"]
  /\ UNCHANGED <<rows, executed>>

\* No live row: the operation proceeds.
Miss(r) ==
  /\ step[r] = "idle"
  /\ \A q \in Prior[r] : Ended(q)
  /\ Hit(r) = {}
  /\ step' = [step EXCEPT ![r] = "execute"]
  /\ UNCHANGED <<rows, executed, reply>>

\* The operation commits ...
Execute(r) ==
  /\ step[r] = "execute"
  /\ executed' = executed \cup {r}
  /\ step' = [step EXCEPT ![r] = "store"]
  /\ UNCHANGED <<rows, reply>>

\* ... or is refused (validation, funds, a flagged score).
RefuseOperation(r) ==
  /\ step[r] = "execute"
  /\ step' = [step EXCEPT ![r] = "refused"]
  /\ UNCHANGED <<rows, executed, reply>>

\* (mutant) Only the transfer endpoint stores its response.
StoreTransfers(r) ==
  /\ step[r] = "store"
  /\ rows' = IF PathOf[r] = "/transfer/initiate"
             THEN rows \cup {[key |-> KeyOf[r], path |-> PathOf[r], user |-> UserOf[r],
                              by |-> r, live |-> TRUE]}
             ELSE rows
  /\ step' = [step EXCEPT ![r] = "ok"]
  /\ UNCHANGED <<executed, reply>>

\* store_idempotent_response inserts the row.
Store(r) ==
  /\ step[r] = "store" /\ ~Taken(r)
  /\ rows' = rows \cup {[key |-> KeyOf[r], path |-> PathOf[r], user |-> UserOf[r],
                         by |-> r, live |-> TRUE]}
  /\ step' = [step EXCEPT ![r] = "ok"]
  /\ UNCHANGED <<executed, reply>>

\* ... or violates the unique constraint: the request ends with an error,
\* although its operation took effect.
StoreFails(r) ==
  /\ step[r] = "store" /\ Taken(r)
  /\ step' = [step EXCEPT ![r] = "error"]
  /\ UNCHANGED <<rows, executed, reply>>

\* The worker or the connection is lost between two transactions.
Lose(r) ==
  /\ r \in Fragile
  /\ step[r] \in {"execute", "store"}
  /\ step' = [step EXCEPT ![r] = "error"]
  /\ UNCHANGED <<rows, executed, reply>>

\* expires_at passes.  Nothing deletes the row.
Expire ==
  /\ "short" \in Lifetimes
  /\ \E row \in rows :
       /\ row.live
       /\ rows' = (rows \ {row}) \cup {[row EXCEPT !.live = FALSE]}
  /\ UNCHANGED <<executed, step, reply>>

Terminated ==
  /\ \A r \in Reqs : Ended(r)
  /\ UNCHANGED vars

Next ==
  \/ \E r \in Reqs :
       \/ Replay(r) \/ Miss(r) \/ Execute(r) \/ RefuseOperation(r)
       \/ Store(r) \/ StoreFails(r) \/ Lose(r)
  \/ Expire
  \/ Terminated

Spec == Init /\ [][Next]_vars

-----------------------------------------------------------------------------
\* Properties

\* Every variable has its type.
TypeOK ==
  /\ rows \subseteq Row
  /\ executed \subseteq Reqs
  /\ step \in [Reqs -> Steps]
  /\ reply \in [Reqs -> Reqs]

\* A key has at most one row, whatever endpoint or user it was used for.
UniqueKeys == \A x, y \in rows : x.key = y.key => x = y

\* What a row says was executed, and answered as it says.
RowsInv ==
  \A row \in rows :
    /\ row.by \in executed /\ step[row.by] = "ok"
    /\ row.key = KeyOf[row.by] /\ row.path = PathOf[row.by] /\ row.user = UserOf[row.by]

\* A request that was answered executed its operation exactly if it says so.
StepInv ==
  \A r \in Reqs :
    /\ step[r] \in {"store", "ok"} => r \in executed
    /\ step[r] \in {"idle", "execute", "replayed", "refused"} => r \notin executed

\* A success that is not a replay can be replayed for as long as its row lives.
OkIsStored ==
  \A r \in Reqs : step[r] = "ok" => \E row \in rows : row.by = r

\* At most one request per key is told that its own operation succeeded,
\* however requests interleave, are lost or expire: the others are answered
\* with its response or with an error (utils.py:43-44, models.py:93).
OneSuccess ==
  \A q, r \in Reqs :
    step[q] = "ok" /\ step[r] = "ok" /\ KeyOf[q] = KeyOf[r] => q = r

\* A replay answers with the response of an operation that took effect, for the
\* same key and endpoint, and for the same user except at /withdraw, whose
\* lookup does not name one (withdrawal.py:32-34).
ReplaysAreGenuine ==
  \A r \in Reqs : step[r] = "replayed" =>
    /\ reply[r] \in executed
    /\ KeyOf[reply[r]] = KeyOf[r] /\ PathOf[reply[r]] = PathOf[r]
    /\ PathOf[r] # "/withdraw" => UserOf[reply[r]] = UserOf[r]

SameOperation(q, r) ==
  KeyOf[q] = KeyOf[r] /\ PathOf[q] = PathOf[r] /\ UserOf[q] = UserOf[r]

\* Nobody sends a retry before the answer it follows.
WaitInv == \A r \in Reqs : step[r] # "idle" => \A q \in Prior[r] : Ended(q)

\* A retry that is sent after the success it repeats is answered with that
\* success and executes nothing, for as long as the stored response has not
\* expired and whatever other requests use the key ("replays return the cached
\* response", README.md:24-25).
RetriesAreReplayed ==
  \A r \in Reqs : \A q \in Prior[r] :
    /\ SameOperation(q, r) /\ step[q] = "ok"
    /\ \A row \in rows : row.by = q => row.live
    => step[r] \in {"idle", "replayed"}

\* The inductive invariant behind the theorems.
IInv == TypeOK /\ UniqueKeys /\ RowsInv /\ StepInv /\ OkIsStored /\ ReplaysAreGenuine
        /\ WaitInv /\ RetriesAreReplayed
=============================================================================
