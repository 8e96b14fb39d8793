-------------------------- MODULE RateLimiterProofs --------------------------
(***************************************************************************)
(* What holds of one bucket for every limit and any number of requests at  *)
(* once.                                                                   *)
(***************************************************************************)
EXTENDS RateLimiter, FiniteSetTheorems, TLAPS

\* The most a counter can reach.
Most == max_requests + Others

Setting == {s \in Slots : step[s] = "setex"}

\* While no key was torn: each window begins at a restart, and who may still
\* restart it looked before it began.
WindowInv ==
  ~torn =>
    /\ count = 0 => restarts = 0 /\ admitted = 0
    /\ count > 0 => /\ restarts > 0
                    /\ restarts + Cardinality(Setting) <= Others + 1
                    /\ admitted <= (restarts - 1) * Most + count

IInv == TypeOK /\ PastLimit /\ WindowUnlessTorn /\ WindowInv

LEMMA OthersType == Others \in Nat /\ Most \in Nat /\ Cardinality(Slots) = Others + 1
  BY SlotsAssumption, LimitAssumption, FS_CardinalityType, FS_EmptySet DEF Others, Most

\* The sizes of sets of requests.
LEMMA Sizes ==
  ASSUME NEW A \in SUBSET Slots, NEW B \in SUBSET Slots
  PROVE  /\ Cardinality(A) \in Nat /\ Cardinality(B) \in Nat
         /\ Cardinality(B) <= Others + 1
         /\ B \subseteq A => Cardinality(B) <= Cardinality(A)
         /\ \A s \in A : B \subseteq A \ {s} =>
              Cardinality(B) <= Cardinality(A) - 1 /\ Cardinality(B) <= Others
  <1>1. /\ IsFiniteSet(A) /\ Cardinality(A) \in Nat
        /\ Cardinality(A) <= Cardinality(Slots)
        /\ Cardinality(B) \in Nat /\ Cardinality(B) <= Cardinality(Slots)
    BY SlotsAssumption, FS_Subset, FS_CardinalityType
  <1>2. B \subseteq A => Cardinality(B) <= Cardinality(A)
    BY <1>1, FS_Subset
  <1>3. ASSUME NEW s \in A, B \subseteq A \ {s}
        PROVE  Cardinality(B) <= Cardinality(A) - 1
    <2>1. IsFiniteSet(A \ {s}) /\ Cardinality(A \ {s}) = Cardinality(A) - 1
      BY <1>1, FS_RemoveElement
    <2> QED
      BY <1>3, <2>1, FS_Subset
  <1> QED
    BY <1>1, <1>2, <1>3, OthersType

-----------------------------------------------------------------------------
\* A step that leaves the key and the history alone, and that neither lets a
\* request past the limit nor decides to set a key there is.
LEMMA QuietInv ==
  ASSUME IInv, NEW s \in Slots, NEW to \in Steps,
         step' = [step EXCEPT ![s] = to], UNCHANGED <<key, history>>,
         seen' = seen \/ seen' = [seen EXCEPT ![s] = count],
         to \in {"setex", "incr"} => s \in Underway,
         to = "ttl" => seen'[s] = count,
         to = "setex" => step[s] = "setex" \/ count = 0
  PROVE  IInv'
  <1> USE DEF IInv, key, history
  <1>1. TypeOK'
    BY DEF TypeOK
  <1>2. WindowUnlessTorn'
    BY DEF WindowUnlessTorn
  <1>3. PastLimit'
    <2> SUFFICES ASSUME count >= max_requests
                 PROVE  count - max_requests + Cardinality(Underway') <= Others
      BY DEF PastLimit, Others
    <2>1. Underway \in SUBSET Slots /\ Underway' \in SUBSET Slots
      BY DEF Underway
    <2>2. Underway' \subseteq Underway
      BY LimitAssumption DEF TypeOK, Underway, Steps
    <2>3. Cardinality(Underway') <= Cardinality(Underway)
      BY <2>1, <2>2, Sizes
    <2>4. Cardinality(Underway') \in Nat /\ Cardinality(Underway) \in Nat
      BY <2>1, Sizes
    <2>5. count - max_requests + Cardinality(Underway) <= Others
      BY DEF PastLimit
    <2> QED
      BY <2>3, <2>4, <2>5, OthersType, LimitAssumption DEF TypeOK
  <1>4. WindowInv'
    <2> SUFFICES ASSUME ~torn, count > 0
                 PROVE  restarts + Cardinality(Setting') <= Others + 1
      BY DEF WindowInv, TypeOK, Others, Most
    <2>1. Setting \in SUBSET Slots /\ Setting' \in SUBSET Slots
      BY DEF Setting
    <2>2. Setting' \subseteq Setting
      BY DEF TypeOK, Setting
    <2>3. Cardinality(Setting') <= Cardinality(Setting)
      BY <2>1, <2>2, Sizes
    <2>4. Cardinality(Setting') \in Nat /\ Cardinality(Setting) \in Nat
      BY <2>1, Sizes
    <2> QED
      BY <2>3, <2>4, OthersType DEF WindowInv, TypeOK
  <1> QED
    BY <1>1, <1>2, <1>3, <1>4

\* SETEX begins a window again.
LEMMA SetexInv == ASSUME IInv, NEW s \in Slots, Setex(s) PROVE IInv'
  <1> USE DEF IInv, Setex, Moves
  <1>1. TypeOK'
    BY DEF TypeOK, Steps
  <1>2. WindowUnlessTorn'
    BY DEF WindowUnlessTorn
  <1>3. PastLimit'
    <2>1. Underway \in SUBSET Slots /\ Underway' \in SUBSET Slots
      BY DEF Underway
    <2>2. s \in Underway /\ Underway' \subseteq Underway \ {s}
      BY DEF TypeOK, Underway
    <2>3. Cardinality(Underway') <= Others /\ Cardinality(Underway') \in Nat
      BY <2>1, <2>2, Sizes
    <2> QED
      BY <2>3, OthersType, LimitAssumption DEF PastLimit, Others
  <1>4. WindowInv'
    <2> SUFFICES ASSUME ~torn
                 PROVE  /\ restarts' > 0
                        /\ restarts' + Cardinality(Setting') <= Others + 1
                        /\ admitted' <= (restarts' - 1) * Most + 1
      BY DEF WindowInv, Others, Most
    <2>1. Setting \in SUBSET Slots /\ Setting' \in SUBSET Slots
      BY DEF Setting
    <2>2. s \in Setting /\ Setting' \subseteq Setting \ {s}
      BY DEF TypeOK, Setting
    <2>3. /\ Cardinality(Setting') <= Cardinality(Setting) - 1
          /\ Cardinality(Setting') <= Others
          /\ Cardinality(Setting) \in Nat /\ Cardinality(Setting') \in Nat
      BY <2>1, <2>2, Sizes
    <2>4. restarts + Cardinality(Setting') <= Others
      BY <2>3, OthersType DEF WindowInv, TypeOK
    <2>5. admitted <= restarts * Most
      <3>1. CASE count = 0
        BY <3>1, OthersType DEF WindowInv
      <3>2. CASE count > 0
        <4>1. count <= Most
          <5>1. Underway \in SUBSET Slots
            BY DEF Underway
          <5>2. Cardinality(Underway) \in Nat
            BY <5>1, Sizes
          <5> QED
            BY <5>2, OthersType, LimitAssumption DEF PastLimit, TypeOK, Most
        <4>2. restarts * Most = (restarts - 1) * Most + Most
          BY OthersType DEF TypeOK
        <4>3. (restarts - 1) * Most \in Int
          BY OthersType DEF TypeOK
        <4>4. admitted <= (restarts - 1) * Most + count
          BY <3>2 DEF WindowInv
        <4> QED
          BY <4>1, <4>2, <4>3, <4>4, OthersType DEF TypeOK
      <3> QED
        BY <3>1, <3>2 DEF TypeOK
    <2>6. restarts' - 1 = restarts /\ restarts \in Nat /\ restarts * Most \in Int
      BY OthersType DEF TypeOK
    <2>7. admitted' <= restarts * Most + 1
      BY <2>5, <2>6 DEF TypeOK
    <2>8. (restarts' - 1) * Most = restarts * Most
      BY <2>6
    <2> QED
      BY <2>3, <2>4, <2>6, <2>7, <2>8, OthersType
  <1> QED
    BY <1>1, <1>2, <1>3, <1>4

\* INCR counts one of the requests under way.
LEMMA IncrInv == ASSUME IInv, NEW s \in Slots, Incr(s) PROVE IInv'
  <1> USE DEF IInv, Incr, Moves
  <1>1. TypeOK'
    BY DEF TypeOK, Steps
  <1>2. WindowUnlessTorn'
    <2>1. count' > 0 /\ (count # 0 => count > 0)
      BY DEF TypeOK
    <2>2. ~torn' => ~torn /\ count # 0
      OBVIOUS
    <2>3. expires' = expires
      OBVIOUS
    <2>4. ~torn => (count > 0 <=> expires)
      BY Zenon DEF WindowUnlessTorn
    <2> HIDE DEF IInv, Incr, Moves
    <2> QED
      BY <2>1, <2>2, <2>3, <2>4, Zenon DEF WindowUnlessTorn
  <1>3. PastLimit'
    <2>1. Underway \in SUBSET Slots /\ Underway' \in SUBSET Slots
      BY DEF Underway
    <2>2. s \in Underway /\ Underway' \subseteq Underway \ {s}
      BY DEF TypeOK, Underway
    <2>3. /\ Cardinality(Underway') <= Cardinality(Underway) - 1
          /\ Cardinality(Underway') <= Others
          /\ Cardinality(Underway) \in Nat /\ Cardinality(Underway') \in Nat
      BY <2>1, <2>2, Sizes
    <2>4. count' = count + 1 /\ count \in Nat
      BY DEF TypeOK
    <2>5. count >= max_requests => count - max_requests + Cardinality(Underway) <= Others
      BY DEF PastLimit
    <2>6. count' >= max_requests =>
            count' - max_requests + Cardinality(Underway') <= Others
      BY <2>3, <2>4, <2>5, OthersType, LimitAssumption
    <2> QED
      BY <2>6 DEF PastLimit, Others
  <1>4. WindowInv'
    <2>1. count' = count + 1 /\ admitted' = admitted + 1 /\ restarts' = restarts
      OBVIOUS
    <2>2. ~torn' => ~torn /\ count # 0
      OBVIOUS
    <2>3. (count # 0 => count > 0) /\ ~(count' = 0)
      BY DEF TypeOK
    <2> SUFFICES ASSUME ~torn, count > 0
                 PROVE  /\ restarts' > 0
                        /\ restarts' + Cardinality(Setting') <= Others + 1
                        /\ admitted' <= (restarts' - 1) * Most + count'
      BY <2>2, <2>3, Zenon DEF WindowInv, Others, Most
    <2>4. Setting \in SUBSET Slots /\ Setting' \in SUBSET Slots
      BY DEF Setting
    <2>5. Setting' \subseteq Setting
      BY DEF TypeOK, Setting
    <2>6. Cardinality(Setting') <= Cardinality(Setting)
      BY <2>4, <2>5, Sizes
    <2>7. Cardinality(Setting') \in Nat /\ Cardinality(Setting) \in Nat
      BY <2>4, Sizes
    <2>8. (restarts - 1) * Most \in Int
      BY OthersType DEF TypeOK
    <2>9. /\ restarts > 0 /\ restarts + Cardinality(Setting) <= Others + 1
          /\ admitted <= (restarts - 1) * Most + count
      BY DEF WindowInv
    <2> QED
      BY <2>1, <2>6, <2>7, <2>8, <2>9, OthersType DEF TypeOK
  <1> QED
    BY <1>1, <1>2, <1>3, <1>4

\* The key expires.
LEMMA ExpireInv == ASSUME IInv, Expire PROVE IInv'
  <1> USE DEF IInv, Expire
  <1>1. TypeOK'
    BY DEF TypeOK
  <1>2. WindowUnlessTorn'
    <2>1. ~(count' > 0)
      OBVIOUS
    <2>2. ~expires'
      OBVIOUS
    <2> QED
      BY <2>1, <2>2, Zenon DEF WindowUnlessTorn
  <1>3. PastLimit' /\ WindowInv'
    BY LimitAssumption DEF PastLimit, WindowInv
  <1> QED
    BY <1>1, <1>2, <1>3

\* The initial state satisfies the invariant.
LEMMA InitInv == Init => IInv
  <1> SUFFICES ASSUME Init PROVE IInv
    OBVIOUS
  <1> USE DEF Init
  <1>1. TypeOK
    BY DEF TypeOK, Steps
  <1>2. WindowUnlessTorn
    <2>1. ~(count > 0)
      OBVIOUS
    <2>2. ~expires
      OBVIOUS
    <2> QED
      BY <2>1, <2>2, Zenon DEF WindowUnlessTorn
  <1>3. PastLimit /\ WindowInv
    BY LimitAssumption DEF PastLimit, WindowInv
  <1> QED
    BY <1>1, <1>2, <1>3 DEF IInv

\* Every step preserves the invariant.
LEMMA NextInv == IInv /\ [Next]_vars => IInv'
  <1> SUFFICES ASSUME IInv, [Next]_vars PROVE IInv'
    OBVIOUS
  <1>1. ASSUME NEW s \in Slots, Get(s) PROVE IInv'
    <2>1. seen'[s] = count
      BY <1>1 DEF Get, IInv, TypeOK
    <2> QED
      BY <1>1, <2>1, QuietInv DEF Get, Moves, Steps
  <1>2. ASSUME NEW s \in Slots, Ttl(s) PROVE IInv'
    <2> DEFINE to == IF seen[s] >= max_requests THEN "limited"
                     ELSE IF count = 0 THEN "setex" ELSE "incr"
    <2>1. to \in Steps /\ step' = [step EXCEPT ![s] = to]
      BY <1>2 DEF Ttl, Moves, Steps
    <2>2. to \in {"setex", "incr"} => s \in Underway
      BY <1>2, LimitAssumption DEF Ttl, Moves, Underway, IInv, TypeOK
    <2>3. (to = "setex" => count = 0) /\ to # "ttl"
      OBVIOUS
    <2>4. seen' = seen /\ UNCHANGED <<key, history>>
      BY <1>2 DEF Ttl
    <2> HIDE DEF to
    <2> QED
      BY <2>1, <2>2, <2>3, <2>4, QuietInv
  <1>3. ASSUME NEW s \in Slots, FailOpen(s) \/ Respond(s) \/ CallAgain(s) PROVE IInv'
    BY <1>3, QuietInv DEF FailOpen, Respond, CallAgain, Moves, Steps
  <1>4. ASSUME NEW s \in Slots, Refuse(s) \/ PassUnlogged(s) PROVE IInv'
    BY <1>4, QuietInv DEF Refuse, PassUnlogged, Moves, Steps
  <1>5. CASE UNCHANGED vars
    BY <1>5 DEF vars, key, history, IInv, TypeOK, PastLimit, Underway, WindowUnlessTorn,
                WindowInv, Setting, Others, Most
  <1> QED
    BY <1>1, <1>2, <1>3, <1>4, <1>5, SetexInv, IncrInv, ExpireInv DEF Next

-----------------------------------------------------------------------------
\* Types, the bound on the counter with the requests it does not know yet, and
\* the shape of a window.
THEOREM Invariance == Spec => []IInv
  BY InitInv, NextInv, PTL DEF Spec

\* A request past the limit was under way when it was reached, so a counter exceeds
\* it by less than the number of requests at once (middleware.py:81-102).
THEOREM LimitHolds == Spec => []PastLimit
  <1>1. IInv => PastLimit
    BY DEF IInv
  <1> QED
    BY <1>1, Invariance, PTL

\* A key has its window, unless one expired between TTL and INCR
\* (middleware.py:82, 98-100).
THEOREM WindowKept == Spec => []WindowUnlessTorn
  <1>1. IInv => WindowUnlessTorn
    BY DEF IInv
  <1> QED
    BY <1>1, Invariance, PTL

\* Between two expiries the window is restarted once per request at once at most,
\* and each restart admits no more than a full counter (middleware.py:97-98).
THEOREM AdmissionBounded == Spec => []AdmittedBound
  <1>1. IInv => AdmittedBound
    <2> SUFFICES ASSUME IInv, ~torn
                 PROVE  restarts <= Others + 1 /\ admitted <= restarts * Most
      BY DEF AdmittedBound, Most
    <2> USE DEF IInv
    <2>1. CASE count = 0
      BY <2>1, OthersType DEF WindowInv
    <2>2. CASE count > 0
      <3>1. Underway \in SUBSET Slots /\ Setting \in SUBSET Slots
        BY DEF Underway, Setting
      <3>2. Cardinality(Underway) \in Nat /\ Cardinality(Setting) \in Nat
        BY <3>1, Sizes
      <3>3. count <= Most
        BY <3>2, OthersType, LimitAssumption DEF PastLimit, TypeOK, Most
      <3>4. restarts * Most = (restarts - 1) * Most + Most /\ (restarts - 1) * Most \in Int
        BY OthersType DEF TypeOK
      <3>5. /\ restarts + Cardinality(Setting) <= Others + 1
            /\ admitted <= (restarts - 1) * Most + count
        BY <2>2 DEF WindowInv
      <3> QED
        BY <3>2, <3>3, <3>4, <3>5, OthersType DEF TypeOK
    <2> QED
      BY <2>1, <2>2 DEF TypeOK
  <1> QED
    BY <1>1, Invariance, PTL
=============================================================================
