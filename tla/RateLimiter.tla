----------------------------- MODULE RateLimiter -----------------------------
(***************************************************************************)
(* The rate-limiting middleware and the Redis key of one bucket (endpoint, *)
(* address, user).  GET, TTL and the write are three commands; the API     *)
(* workers run them for their requests in any order, and the key may       *)
(* expire between any two of them.                                         *)
(***************************************************************************)
EXTENDS Integers, FiniteSets

CONSTANTS
  Slots,         \* the requests of the bucket that may be under way at once
  max_requests,
  MaxRequests    \* bounds the model: requests ever admitted between two expiries

ASSUME SlotsAssumption == IsFiniteSet(Slots) /\ Slots # {}
ASSUME LimitAssumption == max_requests \in Nat \ {0} /\ MaxRequests \in Nat

VARIABLES
  count,      \* the value of the key; 0: there is no key
  expires,    \* the key has an expiry
  step,       \* where the request in each slot is
  seen,       \* the count it read
  admitted,   \* history: requests counted since the key last expired
  restarts,   \* history: ... those that set the key to one
  torn        \* history: a key was created by INCR

key     == <<count, expires>>
history == <<admitted, restarts, torn>>
vars    == <<key, step, seen, history>>

Steps == {"idle", "ttl", "setex", "incr", "limited", "handler", "again"}

Init ==
  /\ count = 0 /\ expires = FALSE
  /\ step = [s \in Slots |-> "idle"]
  /\ seen = [s \in Slots |-> 0]
  /\ admitted = 0 /\ restarts = 0
  /\ torn = FALSE

Moves(s, from, to) ==
  /\ step[s] = from
  /\ step' = [step EXCEPT ![s] = to]

---------------------------------------------------------------------------
\* _check_rate_limit

Get(s) ==
  /\ admitted < MaxRequests
  /\ Moves(s, "idle", "ttl")
  /\ seen' = [seen EXCEPT ![s] = count]
  /\ UNCHANGED <<key, history>>

\* (mutant) The request that reaches the limit is let through.
TtlLoosely(s) ==
  /\ Moves(s, "ttl", IF seen[s] > max_requests THEN "limited"
                     ELSE IF count = 0 THEN "setex" ELSE "incr")
  /\ UNCHANGED <<key, seen, history>>

\* TTL (-2: no key), and the decision on the count read before it.
Ttl(s) ==
  /\ Moves(s, "ttl", IF seen[s] >= max_requests THEN "limited"
                     ELSE IF count = 0 THEN "setex" ELSE "incr")
  /\ UNCHANGED <<key, seen, history>>

\* (mutant) The key is set without its window.
SetWithoutWindow(s) ==
  /\ Moves(s, "setex", "handler")
  /\ count' = 1 /\ expires' = FALSE
  /\ admitted' = admitted + 1 /\ restarts' = restarts + 1
  /\ UNCHANGED <<seen, torn>>

Setex(s) ==
  /\ Moves(s, "setex", "handler")
  /\ count' = 1 /\ expires' = TRUE
  /\ admitted' = admitted + 1 /\ restarts' = restarts + 1
  /\ UNCHANGED <<seen, torn>>

\* (mutant) The key is set to the count that was read, plus one.
SetToSeen(s) ==
  /\ Moves(s, "incr", "handler")
  /\ count' = seen[s] + 1
  /\ torn' = (torn \/ count = 0)
  /\ admitted' = admitted + 1
  /\ UNCHANGED <<expires, seen, restarts>>

\* INCR on no key creates one that never expires.
Incr(s) ==
  /\ Moves(s, "incr", "handler")
  /\ count' = count + 1
  /\ torn' = (torn \/ count = 0)
  /\ admitted' = admitted + 1
  /\ UNCHANGED <<expires, seen, restarts>>

\* Redis does not answer: the request passes without being counted.
FailOpen(s) ==
  /\ step[s] \in {"ttl", "setex", "incr"}
  /\ Moves(s, step[s], "handler")
  /\ UNCHANGED <<key, seen, history>>

---------------------------------------------------------------------------
\* dispatch

\* The violation is logged and the request refused.
Refuse(s) == Moves(s, "limited", "idle") /\ UNCHANGED <<key, seen, history>>

\* The violation cannot be logged: the handler of last resort lets it pass.
PassUnlogged(s) == Moves(s, "limited", "again") /\ UNCHANGED <<key, seen, history>>

Respond(s) ==
  /\ step[s] \in {"handler", "again"}
  /\ Moves(s, step[s], "idle")
  /\ UNCHANGED <<key, seen, history>>

\* The endpoint raises: the middleware calls it once more.
CallAgain(s) == Moves(s, "handler", "again") /\ UNCHANGED <<key, seen, history>>

Expire ==
  /\ count > 0 /\ expires
  /\ count' = 0 /\ expires' = FALSE
  /\ admitted' = 0 /\ restarts' = 0
  /\ UNCHANGED <<step, seen, torn>>

Next ==
  \/ \E s \in Slots :
       \/ Get(s) \/ Ttl(s) \/ Setex(s) \/ Incr(s) \/ FailOpen(s)
       \/ Refuse(s) \/ PassUnlogged(s) \/ Respond(s) \/ CallAgain(s)
  \/ Expire

Spec == Init /\ [][Next]_vars

---------------------------------------------------------------------------
TypeOK ==
  /\ count \in Nat /\ expires \in BOOLEAN
  /\ step \in [Slots -> Steps]
  /\ seen \in [Slots -> Nat]
  /\ admitted \in Nat /\ restarts \in Nat /\ torn \in BOOLEAN

Others == Cardinality(Slots) - 1

\* Requests that will still be counted, whatever the counter says by then.
Underway ==
  {s \in Slots : step[s] \in {"setex", "incr"} \/ (step[s] = "ttl" /\ seen[s] < max_requests)}

\* Requests that read the counter together exceed the limit, but by no more
\* than one each, as every request past the limit was under way when it was
\* reached (middleware.py:81-102).
PastLimit == count >= max_requests => count - max_requests + Cardinality(Underway) <= Others

\* A key always has its window, unless it expired between TTL and INCR
\* (middleware.py:82, 98-100).
WindowUnlessTorn == ~torn => (count > 0 <=> expires)

\* A window is restarted at one only by requests that looked before it began:
\* no more than one each, and between two expiries each restart admits at most
\* a full window more (middleware.py:97-98).
AdmittedBound ==
  ~torn => restarts <= Others + 1 /\ admitted <= restarts * (max_requests + Others)
=============================================================================
