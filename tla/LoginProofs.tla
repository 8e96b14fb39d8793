----------------------------- MODULE LoginProofs -----------------------------
(***************************************************************************)
(* What holds of the row of one user for every limit of failed attempts    *)
(* and any number of requests under way.                                   *)
(***************************************************************************)
EXTENDS Login, FiniteSetTheorems, TLAPS

\* The steps after which a request that is alone has an unlocked row.
Unlocked == {"issue", "activated", "enable", "transferCode"}

Existing == {"activate", "activated", "enable", "newPassword"}

\* What CountedWhenAlone says of a row r after n failures.
Counted(r, n) ==
  /\ r.attempts = n
  /\ r.status = "locked" <=> n >= LOGIN_ATTEMPTS
  /\ r.status = "locked" => r.otp = NoCode

-----------------------------------------------------------------------------
\* The columns after each kind of write.
LEMMA VacantRow == Vacant \in Row /\ Vacant.status = "none" /\ Vacant.attempts = 0
                     /\ Vacant.otp = NoCode /\ ~Vacant.active
  BY DEF Vacant, Row, Statuses

LEMMA LoadedRow ==
  ASSUME NEW r \in Row
  PROVE  LET c == Loaded(r)
         IN /\ c \in Row
            /\ c.status = r.status /\ c.active = r.active
            /\ c.attempts = r.attempts /\ c.otp = r.otp
  BY DEF Loaded, Row

LEMMA WithoutCodeRow ==
  ASSUME NEW r \in Row, NEW c \in Row
  PROVE  LET w == WithoutCode(r, c)
         IN /\ w \in Row
            /\ w.status = r.status /\ w.active = r.active /\ w.attempts = r.attempts
            /\ w.otp = IF c.otp # NoCode THEN NoCode ELSE r.otp
            /\ r = Vacant => w = Vacant
  <1> DEFINE w == WithoutCode(r, c)
  <1>1. w \in Row
    BY DEF WithoutCode, Row
  <1>2. /\ w.status = r.status /\ w.active = r.active /\ w.attempts = r.attempts
        /\ w.lastFailed = r.lastFailed
        /\ w.otp = IF c.otp # NoCode THEN NoCode ELSE r.otp
        /\ w.expiry = IF c.expiry # "none" THEN "none" ELSE r.expiry
    BY DEF WithoutCode, Row
  <1>3. r = Vacant => w = Vacant
    <2>1. \A u \in Row : /\ u.status = r.status /\ u.active = r.active
                        /\ u.attempts = r.attempts /\ u.lastFailed = r.lastFailed
                        /\ u.otp = r.otp /\ u.expiry = r.expiry
                        => u = r
      BY DEF Row
    <2>2. r = Vacant => w.otp = r.otp /\ w.expiry = r.expiry
      BY <1>2 DEF Vacant
    <2> HIDE DEF w
    <2> QED
      BY <1>1, <1>2, <2>1, <2>2
  <1> QED
    BY <1>1, <1>2, <1>3

LEMMA ResetRow ==
  ASSUME NEW r \in Row, NEW c \in Row, NEW w, \E b \in BOOLEAN : w = Reset(r, c, b)
  PROVE  /\ w \in Row
         /\ w.status = IF c.status = "locked" THEN "active" ELSE r.status
         /\ w.active = r.active
         /\ w.attempts = IF c.attempts # 0 THEN 0 ELSE r.attempts
         /\ w.otp \in {r.otp, NoCode}
  <1> DEFINE u == [r EXCEPT !.attempts = IF c.attempts # 0 THEN 0 ELSE @,
                            !.lastFailed = IF c.lastFailed # "never" THEN "never" ELSE @,
                            !.status = IF c.status = "locked" THEN "active" ELSE @]
  <1>1. u \in Row
    BY DEF Row, Statuses
  <1>2. /\ u.status = IF c.status = "locked" THEN "active" ELSE r.status
        /\ u.active = r.active
        /\ u.attempts = IF c.attempts # 0 THEN 0 ELSE r.attempts
        /\ u.otp = r.otp
    BY DEF Row
  <1>3. w = WithoutCode(u, c) \/ w = u
    BY DEF Reset
  <1> HIDE DEF u
  <1> QED
    BY <1>1, <1>2, <1>3, WithoutCodeRow

LEMMA FailedRow ==
  ASSUME NEW r \in Row, NEW c \in Row
  PROVE  LET w == Failed(r, c)
             limit == c.attempts + 1 >= LOGIN_ATTEMPTS
         IN /\ w \in Row
            /\ w.status = IF limit /\ c.status # "locked" THEN "locked" ELSE r.status
            /\ w.active = r.active
            /\ w.attempts = c.attempts + 1
            /\ w.otp = IF limit /\ c.otp # NoCode THEN NoCode ELSE r.otp
  <1> DEFINE u == [r EXCEPT !.attempts = c.attempts + 1, !.lastFailed = "recent"]
             v == [u EXCEPT !.status = IF c.status # "locked" THEN "locked" ELSE @]
  <1>1. c.attempts + 1 \in Nat
    BY DEF Row
  <1>2. /\ u \in Row /\ u.status = r.status /\ u.active = r.active
        /\ u.attempts = c.attempts + 1 /\ u.otp = r.otp
    BY <1>1 DEF Row
  <1> HIDE DEF u
  <1>3. /\ v \in Row /\ v.status = (IF c.status # "locked" THEN "locked" ELSE r.status)
        /\ v.active = r.active /\ v.attempts = c.attempts + 1 /\ v.otp = r.otp
    BY <1>2 DEF Row, Statuses
  <1>4. Failed(r, c) = IF c.attempts + 1 >= LOGIN_ATTEMPTS THEN WithoutCode(v, c) ELSE u
    BY DEF Failed, u
  <1> HIDE DEF v
  <1> QED
    BY <1>2, <1>3, <1>4, WithoutCodeRow

-----------------------------------------------------------------------------
\* Slot s goes to step next and keeps copy c; it is the only one under way if
\* requests still do not overlap.
Goes(s, next, c) ==
  /\ step' = [step EXCEPT ![s] = next]
  /\ copy' = [copy EXCEPT ![s] = c]
  /\ ~overlapped' => ~overlapped /\ \A q \in Slots \ {s} : step[q] = "idle"

\* A step preserves the invariant if the row it writes, the histories and what its
\* slot relies on next obey it.
LEMMA StepInv ==
  ASSUME IInv, NEW s \in Slots, NEW next \in Steps, NEW c \in Row, Goes(s, next, c),
         TypeOK',
         wrong' >= wrong, proved => proved', row.active => row'.active,
         row'.otp # NoCode \/ loggedIn' \/ next \in AfterPassword => proved',
         row'.attempts <= wrong' /\ c.attempts <= wrong',
         row'.status = "locked" => wrong' >= LOGIN_ATTEMPTS,
         row'.status = "none" => row' = Vacant /\ row.status = "none",
         ~row'.active => row'.status \in {"none", "pending"} /\ row'.otp = NoCode,
         next \in NeedActive \/ c.status = "locked" => row'.active,
         next \in Existing => row'.status # "none",
         ~overlapped' =>
           /\ next \in Holding => c = Loaded(row')
           /\ next \in Unlocked => row'.status # "locked"
           /\ Counted(row', streak')
  PROVE  IInv'
  <1> USE DEF IInv
  <1>1. /\ step'[s] = next /\ copy'[s] = c
        /\ \A q \in Slots \ {s} : step'[q] = step[q] /\ copy'[q] = copy[q]
    BY DEF Goes, TypeOK
  <1>2. CodesAreEarned'
    BY <1>1 DEF CodesAreEarned
  <1>3. CountersAreFounded'
    <2>1. wrong \in Nat /\ wrong' \in Nat
      BY DEF TypeOK
    <2>2. \A q \in Slots : copy[q].attempts \in Nat /\ copy[q].attempts <= wrong
      BY DEF TypeOK, CountersAreFounded, Row
    <2> QED
      BY <1>1, <2>1, <2>2 DEF CountersAreFounded
  <1>4. InactiveIsBlank'
    BY <1>1 DEF InactiveIsBlank, Existing
  <1>5. Undisturbed'
    <2> SUFFICES ASSUME ~overlapped' PROVE Undisturbed'
      BY DEF Undisturbed
    <2>1. \A q \in Slots \ {s} : step'[q] = "idle"
      BY <1>1 DEF Goes
    <2>2. "idle" \notin Holding /\ "idle" \notin Unlocked
      BY DEF Holding, Unlocked
    <2> QED
      BY <1>1, <2>1, <2>2 DEF Undisturbed, Unlocked
  <1>6. CountedWhenAlone'
    BY DEF CountedWhenAlone, Counted
  <1> QED
    BY <1>2, <1>3, <1>4, <1>5, <1>6

-----------------------------------------------------------------------------
\* The first queries of a request.
LEMMA BeginInv ==
  ASSUME IInv, NEW s \in Slots, NEW next \in Steps, NEW kept, BeginWith(s, next, kept),
         right' \in [Slots -> BOOLEAN],
         kept = Loaded(row) \/ kept = Vacant,
         next \in AfterPassword => proved,
         next \in NeedActive => row.active,
         next \in Existing => row.status # "none",
         next \in Holding => kept = Loaded(row),
         next \in Unlocked => row.status # "locked"
  PROVE  IInv'
  <1> USE DEF IInv, BeginWith, history
  <1>1. row \in Row
    BY DEF TypeOK
  <1>2. kept \in Row /\ kept.attempts <= wrong /\ (kept.status = "locked" => row.active)
    BY <1>1, LoadedRow, VacantRow DEF CountersAreFounded, InactiveIsBlank, TypeOK
  <1>3. TypeOK'
    <2>1. overlapped' \in BOOLEAN
      BY DEF TypeOK
    <2> QED
      BY <1>2, <2>1 DEF TypeOK
  <1>4. Goes(s, next, kept)
    BY DEF Goes
  <1>5. row' = row /\ wrong' = wrong /\ proved' = proved /\ loggedIn' = loggedIn
        /\ streak' = streak
    OBVIOUS
  <1>6. row.otp # NoCode \/ loggedIn => proved
    BY DEF CodesAreEarned
  <1>7. ~overlapped' => Counted(row, streak)
    BY <1>4 DEF Goes, CountedWhenAlone, Counted
  <1>8. /\ row.attempts <= wrong
        /\ row.status = "locked" => wrong >= LOGIN_ATTEMPTS
        /\ row.status = "none" => row = Vacant
        /\ ~row.active => row.status \in {"none", "pending"} /\ row.otp = NoCode
    BY DEF CountersAreFounded, InactiveIsBlank
  <1>9. wrong \in Nat
    BY DEF TypeOK
  <1> HIDE DEF IInv, BeginWith
  <1> QED
    BY <1>2, <1>3, <1>4, <1>5, <1>6, <1>7, <1>8, <1>9, StepInv

\* A request that goes on has been alone if it is alone.
LEMMA Onward ==
  ASSUME IInv, NEW s \in Slots, step[s] # "idle", NEW next, NEW c,
         step' = [step EXCEPT ![s] = next], copy' = [copy EXCEPT ![s] = c],
         UNCHANGED overlapped
  PROVE  Goes(s, next, c)
  BY DEF Goes, IInv, Undisturbed

\* A request that goes on without touching the row but to clear the code.
LEMMA OnwardInv ==
  ASSUME IInv, NEW s \in Slots, step[s] # "idle", NEW next \in Steps, NEW c \in Row,
         step' = [step EXCEPT ![s] = next], copy' = [copy EXCEPT ![s] = c],
         UNCHANGED <<overlapped, wrong, streak, proved, loggedIn>>,
         row' = row \/ row' = WithoutCode(row, copy[s]),
         right' \in [Slots -> BOOLEAN], uses' \in [Codes -> Nat],
         c = Loaded(row') \/ c = Vacant,
         next \in AfterPassword => step[s] \in AfterPassword,
         next \in NeedActive => step[s] \in NeedActive,
         next \in Existing => step[s] \in Existing,
         next \in Holding => c = Loaded(row'),
         next \in Unlocked => step[s] \in Unlocked
  PROVE  IInv'
  <1> USE DEF IInv
  <1>1. row \in Row /\ copy[s] \in Row
    BY DEF TypeOK
  <1>2. /\ row' \in Row
        /\ row'.status = row.status /\ row'.active = row.active
        /\ row'.attempts = row.attempts
        /\ row'.otp \in {row.otp, NoCode}
        /\ row = Vacant => row' = Vacant
    BY <1>1, WithoutCodeRow
  <1>3. c.attempts <= wrong /\ (c.status = "locked" => row.active)
    BY <1>2, LoadedRow, VacantRow DEF CountersAreFounded, InactiveIsBlank, TypeOK
  <1>4. TypeOK'
    BY <1>2 DEF TypeOK
  <1>5. Goes(s, next, c)
    BY Onward
  <1>6. row.otp # NoCode \/ loggedIn \/ next \in AfterPassword => proved
    BY DEF CodesAreEarned
  <1>7. ~overlapped' => (next \in Unlocked => row.status # "locked") /\ Counted(row', streak)
    BY <1>2, <1>5 DEF Goes, CountedWhenAlone, Counted, Undisturbed, Unlocked
  <1>8. /\ row.attempts <= wrong
        /\ row.status = "locked" => wrong >= LOGIN_ATTEMPTS
        /\ row.status = "none" => row = Vacant
        /\ ~row.active => row.status \in {"none", "pending"} /\ row.otp = NoCode
        /\ next \in NeedActive => row.active
        /\ next \in Existing => row.status # "none"
    BY DEF CountersAreFounded, InactiveIsBlank, Existing
  <1>9. wrong \in Nat
    BY DEF TypeOK
  <1> HIDE DEF IInv
  <1> QED
    BY <1>2, <1>3, <1>4, <1>5, <1>6, <1>7, <1>8, <1>9, StepInv

\* A request that resets the user's state.
LEMMA ResetInv ==
  ASSUME IInv, NEW s \in Slots,
         step[s] \in {"activate", "newPassword", "unlock", "clear", "accept", "consume"},
         NEW next \in {"activated", "unlocked", "issue", "accepted", "idle"},
         NEW c \in {copy[s], Vacant}, NEW b \in BOOLEAN,
         step' = [step EXCEPT ![s] = next], copy' = [copy EXCEPT ![s] = c],
         row' = Reset(row, copy[s], b), streak' = 0,
         UNCHANGED <<overlapped, wrong>>,
         right' \in [Slots -> BOOLEAN], uses' \in [Codes -> Nat],
         proved' \in BOOLEAN, loggedIn' \in BOOLEAN,
         proved => proved',
         next \in AfterPassword \/ loggedIn' => proved',
         next \in NeedActive => step[s] \in NeedActive,
         next \in Existing => step[s] \in Existing
  PROVE  IInv'
  <1> USE DEF IInv
  <1>1. row \in Row /\ copy[s] \in Row /\ c \in Row /\ wrong \in Nat /\ LOGIN_ATTEMPTS \in Nat
        /\ LOGIN_ATTEMPTS > 0
    BY VacantRow, LimitAssumption DEF TypeOK
  <1>2. /\ row' \in Row
        /\ row'.status = IF copy[s].status = "locked" THEN "active" ELSE row.status
        /\ row'.active = row.active
        /\ row'.attempts = IF copy[s].attempts # 0 THEN 0 ELSE row.attempts
        /\ row'.otp \in {row.otp, NoCode}
    <2>1. \E d \in BOOLEAN : row' = Reset(row, copy[s], d)
      OBVIOUS
    <2> QED
      BY ONLY <1>1, <2>1, ResetRow, Zenon
  <1>3. next \in Steps /\ next \notin Holding
    BY DEF Steps, Holding
  <1>4. TypeOK'
    BY <1>1, <1>2, <1>3 DEF TypeOK
  <1>5. Goes(s, next, c)
    BY Onward
  <1>6. row.otp # NoCode => proved
    BY DEF CodesAreEarned
  <1>7. row.status # "none" /\ (copy[s].status = "locked" => row.active)
    BY VacantRow DEF InactiveIsBlank, NeedActive
  <1>8. row'.status # "none" /\ (~row.active => row'.status = "pending" /\ row.otp = NoCode)
    BY <1>2, <1>7 DEF InactiveIsBlank
  <1>9. /\ row.attempts <= wrong /\ copy[s].attempts <= wrong
        /\ row'.status = "locked" => wrong >= LOGIN_ATTEMPTS
        /\ row'.attempts <= wrong
    BY <1>1, <1>2 DEF CountersAreFounded
  <1>10. /\ next \in NeedActive => row.active
         /\ next \in Existing => row.status # "none"
         /\ c.attempts <= wrong
         /\ c.status = "locked" => row.active
    BY <1>1, <1>7, <1>9, VacantRow DEF InactiveIsBlank, Existing
  <1>11. ~overlapped' => row'.status # "locked" /\ Counted(row', streak')
    <2> SUFFICES ASSUME ~overlapped' PROVE row'.status # "locked" /\ Counted(row', 0)
      OBVIOUS
    <2>1. copy[s] = Loaded(row)
      BY <1>5 DEF Undisturbed, Holding, Goes
    <2>2. row'.status # "locked" /\ row'.attempts = 0
      BY <1>1, <1>2, <2>1, LoadedRow
    <2>3. ~(0 >= LOGIN_ATTEMPTS)
      BY <1>1
    <2> QED
      BY <2>2, <2>3, Zenon DEF Counted
  <1> HIDE DEF IInv
  <1> QED
    BY <1>1, <1>2, <1>3, <1>4, <1>5, <1>6, <1>8, <1>9, <1>10, <1>11, StepInv

\* A code is written for a request that may have one.
LEMMA IssuesInv ==
  ASSUME IInv, NEW s \in Slots, step[s] \in {"issue", "transferCode"}, Issues(s),
         NEW next \in {"issued", "idle"}, NEW c \in {copy[s], Vacant},
         step' = [step EXCEPT ![s] = next], copy' = [copy EXCEPT ![s] = c],
         UNCHANGED overlapped, right' \in [Slots -> BOOLEAN]
  PROVE  IInv'
  <1> USE DEF IInv
  <1>1. PICK code \in Codes : /\ row' = [row EXCEPT !.otp = code, !.expiry = "ahead"]
                              /\ uses' = [uses EXCEPT ![code] = 0]
                              /\ UNCHANGED <<wrong, streak, proved, loggedIn>>
    BY DEF Issues
  <1>2. row \in Row /\ copy[s] \in Row /\ c \in Row /\ wrong \in Nat
    BY VacantRow DEF TypeOK
  <1>3. /\ row' \in Row /\ row'.status = row.status /\ row'.active = row.active
        /\ row'.attempts = row.attempts
    BY <1>1, <1>2 DEF Row
  <1>4. /\ next \in Steps /\ next \notin Holding /\ next \notin Unlocked
        /\ next \notin AfterPassword /\ next \notin NeedActive /\ next \notin Existing
    BY DEF Steps, Holding, Unlocked, AfterPassword, NeedActive, Existing
  <1>5. TypeOK'
    BY <1>1, <1>2, <1>3, <1>4 DEF TypeOK
  <1>6. Goes(s, next, c)
    BY Onward
  <1>7. proved /\ row.active
    BY DEF CodesAreEarned, AfterPassword, InactiveIsBlank, NeedActive
  <1>8. row.status # "none"
    BY <1>7, VacantRow DEF InactiveIsBlank
  <1>9. /\ row.attempts <= wrong /\ c.attempts <= wrong
        /\ row.status = "locked" => wrong >= LOGIN_ATTEMPTS
    BY <1>2, VacantRow DEF CountersAreFounded
  <1>10. ~overlapped' => Counted(row', streak')
    BY <1>1, <1>3, <1>6 DEF Goes, CountedWhenAlone, Counted, Undisturbed
  <1> HIDE DEF IInv
  <1> QED
    BY <1>1, <1>2, <1>3, <1>4, <1>5, <1>6, <1>7, <1>8, <1>9, <1>10, StepInv

\* A failed attempt is counted.
LEMMA FailInv == ASSUME IInv, NEW s \in Slots, Fail(s) PROVE IInv'
  <1> USE DEF IInv
  <1>1. /\ step[s] = "fail" /\ step' = [step EXCEPT ![s] = "idle"]
        /\ copy' = [copy EXCEPT ![s] = Vacant] /\ right' = [right EXCEPT ![s] = FALSE]
        /\ row' = Failed(row, copy[s]) /\ wrong' = wrong + 1 /\ streak' = streak + 1
        /\ UNCHANGED <<overlapped, uses, proved, loggedIn>>
    BY DEF Fail, Ends
  <1>2. row \in Row /\ copy[s] \in Row /\ wrong \in Nat /\ streak \in Nat
        /\ LOGIN_ATTEMPTS \in Nat /\ copy[s].attempts \in Nat
    BY LimitAssumption DEF TypeOK, Row
  <1> DEFINE limit == copy[s].attempts + 1 >= LOGIN_ATTEMPTS
  <1>3. /\ row' \in Row
        /\ row'.status = IF limit /\ copy[s].status # "locked" THEN "locked" ELSE row.status
        /\ row'.active = row.active
        /\ row'.attempts = copy[s].attempts + 1
        /\ row'.otp = IF limit /\ copy[s].otp # NoCode THEN NoCode ELSE row.otp
    <2> DEFINE w == Failed(row, copy[s])
    <2>1. /\ w \in Row
          /\ w.status = IF limit /\ copy[s].status # "locked" THEN "locked" ELSE row.status
          /\ w.active = row.active
          /\ w.attempts = copy[s].attempts + 1
          /\ w.otp = IF limit /\ copy[s].otp # NoCode THEN NoCode ELSE row.otp
      BY <1>2, FailedRow
    <2>2. row' = w
      BY <1>1
    <2> HIDE DEF w, IInv, limit
    <2> QED
      BY <2>1, <2>2
  <1>4. /\ "idle" \in Steps /\ "idle" \notin Holding /\ "idle" \notin Unlocked
        /\ "idle" \notin AfterPassword /\ "idle" \notin NeedActive /\ "idle" \notin Existing
    BY DEF Steps, Holding, Unlocked, AfterPassword, NeedActive, Existing
  <1>5. TypeOK'
    BY <1>1, <1>2, <1>3, <1>4, VacantRow DEF TypeOK
  <1>6. Goes(s, "idle", Vacant)
    BY <1>1, Onward
  <1>7. row.active /\ (row.otp # NoCode \/ loggedIn => proved)
    BY <1>1 DEF CodesAreEarned, InactiveIsBlank, NeedActive
  <1>8. row.status # "none" /\ row'.status # "none"
    BY <1>3, <1>7, VacantRow DEF InactiveIsBlank
  <1>9. /\ row'.attempts <= wrong' /\ Vacant.attempts <= wrong
        /\ row'.status = "locked" => wrong' >= LOGIN_ATTEMPTS
    BY <1>1, <1>2, <1>3, VacantRow DEF CountersAreFounded
  <1>10. ~overlapped' => Counted(row', streak')
    <2> SUFFICES ASSUME ~overlapped' PROVE Counted(row', streak + 1)
      BY <1>1
    <2>1. copy[s] = Loaded(row) /\ ~overlapped
      BY <1>1, <1>6 DEF Undisturbed, Holding, Goes
    <2>2. /\ copy[s].attempts = row.attempts /\ copy[s].status = row.status
          /\ copy[s].otp = row.otp
      BY <1>2, <2>1, LoadedRow
    <2>3. /\ row.attempts = streak
          /\ row.status = "locked" => streak >= LOGIN_ATTEMPTS
      BY <2>1 DEF CountedWhenAlone
    <2>4. row'.attempts = streak + 1
      BY <1>3, <2>2, <2>3
    <2>5. CASE streak + 1 >= LOGIN_ATTEMPTS
      <3>1. limit
        BY <2>2, <2>3, <2>5
      <3>2. row'.status = "locked"
        BY <1>3, <2>2, <3>1
      <3>3. row'.otp = NoCode
        BY <1>3, <2>2, <3>1
      <3> QED
        BY <2>4, <2>5, <3>2, <3>3, Zenon DEF Counted
    <2>6. CASE ~(streak + 1 >= LOGIN_ATTEMPTS)
      <3>1. ~limit /\ row.status # "locked"
        BY <1>2, <2>2, <2>3, <2>6
      <3>2. row'.status # "locked"
        BY <1>3, <3>1
      <3> QED
        BY <2>4, <2>6, <3>2, Zenon DEF Counted
    <2> QED
      BY <2>5, <2>6
  <1> HIDE DEF IInv, limit
  <1>11. wrong' >= wrong /\ wrong' \in Nat
    BY <1>1, <1>2
  <1> QED
    BY <1>1, <1>3, <1>4, <1>5, <1>6, <1>7, <1>8, <1>9, <1>10, <1>11, VacantRow, StepInv

\* The user's row is inserted.
LEMMA InsertInv == ASSUME IInv, NEW s \in Slots, Insert(s) PROVE IInv'
  <1> USE DEF IInv
  <1>1. /\ step[s] = "insert" /\ step' = [step EXCEPT ![s] = "idle"]
        /\ copy' = [copy EXCEPT ![s] = Vacant] /\ right' = [right EXCEPT ![s] = FALSE]
        /\ row' = IF row.status = "none" THEN [Vacant EXCEPT !.status = "pending"] ELSE row
        /\ UNCHANGED <<overlapped, uses, wrong, streak, proved, loggedIn>>
    BY DEF Insert, Ends, history
  <1>2. row \in Row /\ wrong \in Nat
    BY DEF TypeOK
  <1>3. /\ row' \in Row /\ row'.active = row.active /\ row'.otp = row.otp
        /\ row'.attempts = row.attempts
        /\ row'.status = IF row.status = "none" THEN "pending" ELSE row.status
    BY <1>1, <1>2 DEF Vacant, Row, Statuses, InactiveIsBlank
  <1>4. /\ "idle" \in Steps /\ "idle" \notin Holding /\ "idle" \notin Unlocked
        /\ "idle" \notin AfterPassword /\ "idle" \notin NeedActive /\ "idle" \notin Existing
    BY DEF Steps, Holding, Unlocked, AfterPassword, NeedActive, Existing
  <1>5. TypeOK'
    BY <1>1, <1>2, <1>3, <1>4, VacantRow DEF TypeOK
  <1>6. Goes(s, "idle", Vacant)
    BY <1>1, Onward
  <1>7. row.otp # NoCode \/ loggedIn => proved
    BY DEF CodesAreEarned
  <1>8. /\ row.attempts <= wrong /\ Vacant.attempts <= wrong
        /\ row'.status = "locked" => wrong >= LOGIN_ATTEMPTS
        /\ ~row.active => row'.status \in {"none", "pending"} /\ row.otp = NoCode
        /\ row'.status # "none"
    BY <1>2, <1>3, VacantRow DEF CountersAreFounded, InactiveIsBlank
  <1>9. ~overlapped' => Counted(row', streak')
    BY <1>1, <1>3, <1>6 DEF Goes, CountedWhenAlone, Counted
  <1> HIDE DEF IInv
  <1> QED
    BY <1>1, <1>2, <1>3, <1>4, <1>5, <1>6, <1>7, <1>8, <1>9, VacantRow, StepInv

\* The activation enables the row.
LEMMA EnableInv == ASSUME IInv, NEW s \in Slots, Enable(s) PROVE IInv'
  <1> USE DEF IInv
  <1>1. /\ step[s] = "enable" /\ step' = [step EXCEPT ![s] = "idle"]
        /\ copy' = [copy EXCEPT ![s] = Vacant] /\ right' = [right EXCEPT ![s] = FALSE]
        /\ row' = [row EXCEPT !.active = TRUE,
                              !.status = IF copy[s].status # "active" THEN "active" ELSE @]
        /\ UNCHANGED <<overlapped, uses, wrong, streak, proved, loggedIn>>
    BY DEF Enable, Ends, history
  <1>2. row \in Row /\ wrong \in Nat
    BY DEF TypeOK
  <1>3. /\ row' \in Row /\ row'.active /\ row'.otp = row.otp /\ row'.attempts = row.attempts
        /\ row'.status \in {"active", row.status}
    BY <1>1, <1>2 DEF Row, Statuses
  <1>4. /\ "idle" \in Steps /\ "idle" \notin Holding /\ "idle" \notin Unlocked
        /\ "idle" \notin AfterPassword /\ "idle" \notin NeedActive /\ "idle" \notin Existing
    BY DEF Steps, Holding, Unlocked, AfterPassword, NeedActive, Existing
  <1>5. TypeOK'
    BY <1>1, <1>2, <1>3, <1>4, VacantRow DEF TypeOK
  <1>6. Goes(s, "idle", Vacant)
    BY <1>1, Onward
  <1>7. row.otp # NoCode \/ loggedIn => proved
    BY DEF CodesAreEarned
  <1>8. /\ row.attempts <= wrong /\ Vacant.attempts <= wrong
        /\ row'.status = "locked" => wrong >= LOGIN_ATTEMPTS
        /\ row'.status # "none"
    BY <1>1, <1>2, <1>3, VacantRow DEF CountersAreFounded, InactiveIsBlank
  <1>9. ~overlapped' => Counted(row', streak')
    <2> SUFFICES ASSUME ~overlapped' PROVE Counted(row', streak)
      BY <1>1
    <2>1. row.status # "locked" /\ ~overlapped
      BY <1>1, <1>6 DEF Undisturbed, Goes
    <2>2. row'.status # "locked" /\ row'.attempts = streak /\ ~(streak >= LOGIN_ATTEMPTS)
      BY <1>3, <2>1 DEF CountedWhenAlone
    <2> QED
      BY <2>2, Zenon DEF Counted
  <1> HIDE DEF IInv
  <1> QED
    BY <1>1, <1>2, <1>3, <1>4, <1>5, <1>6, <1>7, <1>8, <1>9, VacantRow, StepInv

\* Time alone changes nothing that counts.
LEMMA TimeInv == ASSUME IInv, LockoutElapses \/ CodeExpires PROVE IInv'
  <1> USE DEF IInv
  <1>1. /\ UNCHANGED <<step, copy, right, uses, wrong, streak, proved, loggedIn, overlapped>>
        /\ \/ row.lastFailed = "recent" /\ row' = [row EXCEPT !.lastFailed = "past"]
           \/ row.expiry = "ahead" /\ row' = [row EXCEPT !.expiry = "past"]
    BY DEF LockoutElapses, CodeExpires, history
  <1>2. row \in Row
    BY DEF TypeOK
  <1>3. /\ row' \in Row /\ row'.active = row.active /\ row'.otp = row.otp
        /\ row'.attempts = row.attempts /\ row'.status = row.status
    BY <1>1, <1>2 DEF Row
  <1>4. Loaded(row') = Loaded(row)
    BY <1>1, <1>2 DEF Row, Loaded
  <1>5. row # Vacant
    BY <1>1 DEF Vacant
  <1>6. TypeOK' /\ CodesAreEarned' /\ CountersAreFounded' /\ InactiveIsBlank'
    BY <1>1, <1>3, <1>5 DEF TypeOK, CodesAreEarned, CountersAreFounded, InactiveIsBlank
  <1>7. Undisturbed'
    BY <1>1, <1>3, <1>4 DEF Undisturbed
  <1>8. CountedWhenAlone'
    BY <1>1, <1>3 DEF CountedWhenAlone
  <1> QED
    BY <1>6, <1>7, <1>8

-----------------------------------------------------------------------------
\* The initial state satisfies the invariant.
LEMMA InitInv == Init => IInv
  <1> SUFFICES ASSUME Init PROVE IInv
    OBVIOUS
  <1> USE DEF Init
  <1>1. /\ "idle" \in Steps /\ "idle" \notin Holding /\ "idle" \notin Unlocked
        /\ "idle" \notin AfterPassword /\ "idle" \notin NeedActive /\ "idle" \notin Existing
    BY DEF Steps, Holding, Unlocked, AfterPassword, NeedActive, Existing
  <1>2. TypeOK
    BY <1>1, VacantRow DEF TypeOK
  <1>3. CodesAreEarned /\ CountersAreFounded /\ InactiveIsBlank
    BY <1>1, VacantRow DEF CodesAreEarned, CountersAreFounded, InactiveIsBlank, Existing
  <1>4. Undisturbed
    BY <1>1, VacantRow DEF Undisturbed, Unlocked
  <1>5. CountedWhenAlone
    <2>1. row.attempts = streak /\ row.status # "locked" /\ ~(streak >= LOGIN_ATTEMPTS)
      BY VacantRow, LimitAssumption
    <2> HIDE DEF Init
    <2> QED
      BY <2>1, Zenon DEF CountedWhenAlone
  <1> QED
    BY <1>2, <1>3, <1>4, <1>5 DEF IInv

\* Registration, activation and password reset.
LEMMA OnboardsInv == ASSUME IInv, NEW s \in Slots, Onboards(s) PROVE IInv'
  <1>1. right \in [Slots -> BOOLEAN] /\ uses \in [Codes -> Nat] /\ proved \in BOOLEAN
        /\ loggedIn \in BOOLEAN /\ copy[s] \in Row /\ (loggedIn => proved)
    BY DEF IInv, TypeOK, CodesAreEarned
  <1>2. CASE Register(s)
    <2>1. /\ "insert" \in Steps /\ "insert" \notin Holding /\ "insert" \notin Unlocked
          /\ "insert" \notin AfterPassword /\ "insert" \notin NeedActive
          /\ "insert" \notin Existing
      BY DEF Steps, Holding, Unlocked, AfterPassword, NeedActive, Existing
    <2> QED
      BY <1>1, <1>2, <2>1, BeginInv DEF Register
  <1>3. CASE BeginActivation(s) \/ BeginPasswordReset(s)
    <2>1. ASSUME NEW next \in {"activate", "newPassword"}
          PROVE  /\ next \in Steps /\ next \notin Unlocked
                 /\ next \notin AfterPassword /\ next \notin NeedActive
      BY DEF Steps, Unlocked, AfterPassword, NeedActive
    <2> QED
      BY <1>1, <1>3, <2>1, BeginInv DEF BeginActivation, BeginPasswordReset, Begin
  <1>4. CASE Activate(s)
    <2>1. copy' = [copy EXCEPT ![s] = copy[s]]
      BY <1>4 DEF Activate, IInv, TypeOK
    <2>2. "activated" \notin AfterPassword /\ "activated" \notin NeedActive
          /\ "activate" \in Existing
      BY DEF AfterPassword, NeedActive, Existing
    <2> QED
      BY <1>1, <1>4, <2>1, <2>2, ResetInv DEF Activate, Moves
  <1>5. CASE NewPassword(s)
    <2>1. "idle" \notin AfterPassword /\ "idle" \notin NeedActive /\ "idle" \notin Existing
      BY DEF AfterPassword, NeedActive, Existing
    <2>2. right' \in [Slots -> BOOLEAN]
      BY <1>1, <1>5 DEF NewPassword, Ends
    <2> QED
      BY <1>1, <1>5, <2>1, <2>2, ResetInv DEF NewPassword, Ends
  <1>6. CASE RefreshActivated(s)
    <2>1. /\ "enable" \in Steps /\ "enable" \notin Holding /\ "activated" \in Unlocked
          /\ "activated" \in Existing /\ "enable" \notin AfterPassword
          /\ "enable" \notin NeedActive
      BY DEF Steps, Holding, Unlocked, Existing, AfterPassword, NeedActive
    <2>2. Loaded(row) \in Row
      BY LoadedRow DEF IInv, TypeOK
    <2> QED
      BY <1>1, <1>6, <2>1, <2>2, OnwardInv DEF RefreshActivated, Refreshes, Moves, history
  <1> QED
    BY <1>2, <1>3, <1>4, <1>5, <1>6, InsertInv, EnableInv DEF Onboards

\* The first step of a login.
LEMMA AsksInv == ASSUME IInv, NEW s \in Slots, Asks(s) PROVE IInv'
  <1>1. right \in [Slots -> BOOLEAN] /\ uses \in [Codes -> Nat] /\ proved \in BOOLEAN
        /\ loggedIn \in BOOLEAN /\ copy[s] \in Row /\ row \in Row /\ (loggedIn => proved)
    BY DEF IInv, TypeOK, CodesAreEarned
  <1>2. /\ Loaded(row) \in Row
        /\ \A next \in {"clear", "fail", "unlock"} :
             /\ next \in Steps /\ next \in NeedActive /\ next \notin AfterPassword
             /\ next \notin Existing /\ next \notin Unlocked
    BY <1>1, LoadedRow DEF Steps, NeedActive, AfterPassword, Existing, Unlocked
  <1>3. ASSUME NEW p \in BOOLEAN, RequestOtp(s, p) PROVE IInv'
    <2> DEFINE next == IF row.status = "locked" /\ row.lastFailed = "past" THEN "unlock"
                       ELSE IF p THEN "clear" ELSE "fail"
    <2>1. BeginWith(s, next, Loaded(row)) /\ row.active /\ right' \in [Slots -> BOOLEAN]
      BY <1>1, <1>3 DEF RequestOtp, Begin
    <2>2. next \in {"clear", "fail", "unlock"}
      OBVIOUS
    <2> HIDE DEF next
    <2> QED
      BY <1>2, <2>1, <2>2, BeginInv
  <1>4. CASE Unlock(s)
    <2>1. copy' = [copy EXCEPT ![s] = copy[s]]
      BY <1>4 DEF Unlock, IInv, TypeOK
    <2>2. "unlocked" \notin AfterPassword /\ "unlock" \in NeedActive
          /\ "unlocked" \notin Existing
      BY DEF AfterPassword, NeedActive, Existing
    <2> QED
      BY <1>1, <1>4, <2>1, <2>2, ResetInv DEF Unlock, Moves
  <1>5. CASE Clear(s)
    <2>1. "clear" \in NeedActive /\ "issue" \notin Existing
      BY DEF NeedActive, Existing
    <2> QED
      BY <1>1, <1>5, <2>1, ResetInv DEF Clear, Moves
  <1>6. CASE RefreshUnlocked(s)
    <2> DEFINE next == IF right[s] THEN "clear" ELSE "fail"
    <2>1. /\ step[s] = "unlocked" /\ step' = [step EXCEPT ![s] = next]
          /\ copy' = [copy EXCEPT ![s] = Loaded(row)]
          /\ UNCHANGED <<row, right, overlapped, uses, wrong, streak, proved, loggedIn>>
      BY <1>6 DEF RefreshUnlocked, Refreshes, Moves, history
    <2>2. next \in {"clear", "fail"} /\ "unlocked" \in NeedActive
      BY DEF NeedActive
    <2> HIDE DEF next
    <2> QED
      BY <1>1, <1>2, <2>1, <2>2, OnwardInv
  <1>7. CASE Issue(s)
    <2>1. copy' = [copy EXCEPT ![s] = copy[s]]
      BY <1>7 DEF Issue, IInv, TypeOK
    <2> QED
      BY <1>1, <1>7, <2>1, IssuesInv DEF Issue, Moves
  <1>8. ASSUME NEW next \in {"mail", "idle"}
        PROVE  /\ next \in Steps /\ next \notin NeedActive /\ next \notin AfterPassword
               /\ next \notin Existing /\ next \notin Unlocked /\ next \notin Holding
    BY DEF Steps, NeedActive, AfterPassword, Existing, Unlocked, Holding
  <1>9. CASE RefreshIssued(s)
    BY <1>1, <1>2, <1>8, <1>9, OnwardInv DEF RefreshIssued, Refreshes, Moves, history
  <1>10. CASE MailSent(s) \/ MailFailed(s)
    <2>1. right' \in [Slots -> BOOLEAN]
      BY <1>1, <1>10 DEF MailSent, MailFailed, Ends
    <2> QED
      BY <1>1, <1>8, <1>10, <2>1, VacantRow, OnwardInv DEF MailSent, MailFailed, Ends, history
  <1> QED
    BY <1>3, <1>4, <1>5, <1>6, <1>7, <1>9, <1>10, FailInv DEF Asks

\* A use of a code is counted.
LEMMA UseType ==
  ASSUME uses \in [Codes -> Nat], NEW code, uses' = [uses EXCEPT ![code] = @ + 1]
  PROVE  uses' \in [Codes -> Nat]
  <1>1. CASE code \in Codes
    <2>1. uses[code] + 1 \in Nat
      BY <1>1
    <2> QED
      BY <2>1
  <1>2. CASE code \notin Codes
    <2>1. uses' = uses
      BY <1>2
    <2> QED
      BY <2>1
  <1> QED
    BY <1>1, <1>2

\* The second step of a login.
LEMMA VerifiesInv == ASSUME IInv, NEW s \in Slots, Verifies(s) PROVE IInv'
  <1>1. right \in [Slots -> BOOLEAN] /\ uses \in [Codes -> Nat] /\ proved \in BOOLEAN
        /\ loggedIn \in BOOLEAN /\ copy[s] \in Row /\ row \in Row /\ (loggedIn => proved)
    BY DEF IInv, TypeOK, CodesAreEarned
  <1>2. ASSUME NEW p \in BOOLEAN, VerifyOtp(s, p) PROVE IInv'
    <2> DEFINE next == IF p THEN "accept" ELSE "fail"
    <2>1. /\ BeginWith(s, next, Loaded(row)) /\ row.active /\ right' \in [Slots -> BOOLEAN]
          /\ p => row.otp # NoCode
      BY <1>1, <1>2 DEF VerifyOtp, Begin
    <2>2. /\ next \in Steps /\ next \notin Existing /\ next \notin Unlocked
          /\ next \in AfterPassword => p
      BY DEF Steps, Existing, Unlocked, AfterPassword
    <2>3. p => proved
      BY <2>1 DEF IInv, CodesAreEarned
    <2> HIDE DEF next
    <2> QED
      BY <2>1, <2>2, <2>3, BeginInv
  <1>3. CASE Accept(s)
    <2>1. copy' = [copy EXCEPT ![s] = copy[s]] /\ uses' \in [Codes -> Nat]
      <3>1. copy' = [copy EXCEPT ![s] = copy[s]]
        BY <1>3 DEF Accept, IInv, TypeOK
      <3>2. uses' \in [Codes -> Nat]
        BY <1>1, <1>3, UseType DEF Accept
      <3> QED
        BY <3>1, <3>2
    <2>2. "accept" \in AfterPassword /\ "accept" \in NeedActive
          /\ "accepted" \notin Existing
      BY DEF AfterPassword, NeedActive, Existing
    <2>3. proved
      BY <1>3, <2>2 DEF Accept, Moves, IInv, CodesAreEarned
    <2> QED
      BY <1>1, <1>3, <2>1, <2>2, <2>3, ResetInv DEF Accept, Moves
  <1>4. CASE RefreshAccepted(s)
    <2>1. /\ "consume" \in Steps /\ "consume" \notin Unlocked /\ "accepted" \in AfterPassword
          /\ "accepted" \in NeedActive /\ "consume" \notin Existing
      BY DEF Steps, Unlocked, AfterPassword, NeedActive, Existing
    <2>2. Loaded(row) \in Row
      BY <1>1, LoadedRow
    <2> QED
      BY <1>1, <1>4, <2>1, <2>2, OnwardInv DEF RefreshAccepted, Refreshes, Moves, history
  <1>5. CASE Consume(s)
    <2>1. "consume" \in AfterPassword /\ "idle" \notin NeedActive /\ "idle" \notin Existing
      BY DEF AfterPassword, NeedActive, Existing
    <2>2. proved
      BY <1>5, <2>1 DEF Consume, Ends, IInv, CodesAreEarned
    <2>3. right' \in [Slots -> BOOLEAN]
      BY <1>1, <1>5 DEF Consume, Ends
    <2> QED
      BY <1>1, <1>5, <2>1, <2>2, <2>3, ResetInv DEF Consume, Ends
  <1> QED
    BY <1>2, <1>3, <1>4, <1>5 DEF Verifies

\* Transfers use the column of the code.
LEMMA TransfersInv == ASSUME IInv, NEW s \in Slots, Transfers(s) PROVE IInv'
  <1>1. right \in [Slots -> BOOLEAN] /\ uses \in [Codes -> Nat] /\ copy[s] \in Row
        /\ row \in Row /\ (loggedIn => proved)
    BY DEF IInv, TypeOK, CodesAreEarned
  <1>2. CASE InitiateTransfer(s)
    <2>1. /\ "transferCode" \in Steps /\ "transferCode" \notin Existing
          /\ "transferCode" \notin Holding
      BY DEF Steps, Existing, Holding
    <2> QED
      BY <1>1, <1>2, <2>1, BeginInv DEF InitiateTransfer, Authenticated
  <1>3. CASE CompleteTransfer(s)
    <2>1. /\ "transferDone" \in Steps /\ "transferDone" \notin Existing
          /\ "transferDone" \notin Unlocked /\ "transferDone" \notin AfterPassword
          /\ "transferDone" \notin NeedActive
      BY DEF Steps, Existing, Unlocked, AfterPassword, NeedActive
    <2> QED
      BY <1>1, <1>3, <2>1, BeginInv DEF CompleteTransfer, Begin
  <1>4. CASE SaveTransferCode(s)
    <2>1. right' \in [Slots -> BOOLEAN]
      BY <1>1, <1>4 DEF SaveTransferCode, Ends
    <2> QED
      BY <1>4, <2>1, IssuesInv DEF SaveTransferCode, Ends
  <1>5. CASE FinishTransfer(s)
    <2>1. right' \in [Slots -> BOOLEAN] /\ uses' \in [Codes -> Nat]
      <3>1. right' \in [Slots -> BOOLEAN]
        BY <1>1, <1>5 DEF FinishTransfer, Ends
      <3>2. uses' \in [Codes -> Nat]
        BY <1>1, <1>5, UseType DEF FinishTransfer
      <3> QED
        BY <3>1, <3>2
    <2>2. /\ "idle" \in Steps /\ "idle" \notin Existing /\ "idle" \notin Unlocked
          /\ "idle" \notin AfterPassword /\ "idle" \notin NeedActive /\ "idle" \notin Holding
      BY DEF Steps, Existing, Unlocked, AfterPassword, NeedActive, Holding
    <2> QED
      BY <1>5, <2>1, <2>2, VacantRow, OnwardInv DEF FinishTransfer, Ends
  <1> QED
    BY <1>2, <1>3, <1>4, <1>5 DEF Transfers

\* Every step preserves the invariant.
LEMMA NextInv == IInv /\ [Next]_vars => IInv'
  <1> SUFFICES ASSUME IInv, [Next]_vars PROVE IInv'
    OBVIOUS
  <1>1. CASE Next
    BY <1>1, OnboardsInv, AsksInv, VerifiesInv, TransfersInv, TimeInv DEF Next
  <1>2. CASE UNCHANGED vars
    BY <1>2 DEF vars, history, IInv, TypeOK, CodesAreEarned, CountersAreFounded,
                InactiveIsBlank, Undisturbed, CountedWhenAlone
  <1> QED
    BY <1>1, <1>2

-----------------------------------------------------------------------------
\* Types, what a code and a counter are founded on, and what a request that is
\* alone relies on.
THEOREM Invariance == Spec => []IInv
  BY InitInv, NextInv, PTL DEF Spec

\* However many requests overlap, no session is opened before the right password
\* was presented (routes/login.py:32, service.py:308).
THEOREM SessionsAreEarned == Spec => []NoSessionWithoutPassword
  <1>1. IInv => NoSessionWithoutPassword
    BY DEF IInv, CodesAreEarned, NoSessionWithoutPassword
  <1> QED
    BY <1>1, Invariance, PTL

\* However many failures are lost or written late, the account is never locked by
\* fewer than LOGIN_ATTEMPTS of them (service.py:369-375).
THEOREM LockoutsAreJust == Spec => []NoUnjustLockout
  <1>1. IInv => NoUnjustLockout
    BY DEF IInv, CountersAreFounded, NoUnjustLockout
  <1> QED
    BY <1>1, Invariance, PTL

\* Without overlaps the counter is exact, the lockout begins at the limit and no
\* code outlives its beginning (service.py:364-377).
THEOREM CounterIsExact == Spec => []CountedWhenAlone
  <1>1. IInv => CountedWhenAlone
    BY DEF IInv
  <1> QED
    BY <1>1, Invariance, PTL

-----------------------------------------------------------------------------
\* What a code is used for.

\* The requests that will use code c, and those that used it and will clear it.
Spending(c) == {s \in Slots : step[s] \in {"accept", "transferDone"} /\ copy[s].otp = c}
Spent(c)    == {s \in Slots : step[s] \in {"accepted", "consume"} /\ copy[s].otp = c}

Room == IF overlapped THEN Cardinality(Slots) ELSE 1

\* As long as c is in the row, whoever used it is still about to clear it; once it is
\* gone, only those use it that already hold it.
UseInv(c) ==
  IF row.otp = c THEN uses[c] <= Cardinality(Spent(c))
  ELSE uses[c] + Cardinality(Spending(c)) <= Room

UsesInv == IInv /\ \A c \in Codes : UseInv(c)

LEMMA Finiteness ==
  ASSUME NEW c
  PROVE  /\ IsFiniteSet(Spending(c)) /\ IsFiniteSet(Spent(c))
         /\ Cardinality(Spending(c)) \in Nat /\ Cardinality(Spent(c)) \in Nat
         /\ Cardinality(Slots) \in Nat /\ 1 <= Cardinality(Slots)
  <1>1. IsFiniteSet(Slots) /\ Slots # {}
    BY SlotsAssumption
  <1>2. Spending(c) \subseteq Slots /\ Spent(c) \subseteq Slots
    BY DEF Spending, Spent
  <1>3. IsFiniteSet(Spending(c)) /\ IsFiniteSet(Spent(c))
    BY <1>1, <1>2, FS_Subset
  <1>4. Cardinality(Slots) \in Nat /\ Cardinality(Slots) # 0
    BY <1>1, FS_CardinalityType, FS_EmptySet
  <1>5. 1 <= Cardinality(Slots)
    BY <1>4
  <1> QED
    BY <1>3, <1>4, <1>5, FS_CardinalityType

\* Nobody is in both, and alone there is but one request.
LEMMA SpendersFit ==
  ASSUME IInv, NEW c \in Codes
  PROVE  Cardinality(Spent(c)) + Cardinality(Spending(c)) <= Room
  <1> DEFINE both == Spent(c) \cup Spending(c)
  <1>1. /\ IsFiniteSet(both)
        /\ Cardinality(both) = Cardinality(Spent(c)) + Cardinality(Spending(c))
    <2>1. Spent(c) \cap Spending(c) = {}
      BY DEF Spent, Spending
    <2>2. IsFiniteSet(Spent(c)) /\ IsFiniteSet(Spending(c))
      BY Finiteness
    <2>3. /\ IsFiniteSet(both)
          /\ Cardinality(both) = Cardinality(Spent(c)) + Cardinality(Spending(c))
                                   - Cardinality(Spent(c) \cap Spending(c))
      BY <2>2, FS_Union
    <2>4. Cardinality(Spent(c) \cap Spending(c)) = 0
      BY <2>1, FS_EmptySet
    <2>5. Cardinality(Spent(c)) \in Nat /\ Cardinality(Spending(c)) \in Nat
      BY Finiteness
    <2> HIDE DEF both
    <2> QED
      BY <2>3, <2>4, <2>5
  <1>2. CASE overlapped
    <2>1. both \subseteq Slots
      BY DEF Spent, Spending
    <2>2. Cardinality(both) <= Cardinality(Slots)
      BY <2>1, SlotsAssumption, FS_Subset
    <2> QED
      BY <1>1, <1>2, <2>2 DEF Room
  <1>3. CASE ~overlapped
    <2>1. \A s, q \in both : s = q
      BY <1>3 DEF Spent, Spending, IInv, Undisturbed
    <2>2. Cardinality(both) \in {0, 1}
      <3>1. CASE both = {}
        BY <3>1, FS_EmptySet
      <3>2. CASE both # {}
        <4>1. PICK s : both = {s}
          BY <2>1, <3>2
        <4> HIDE DEF both
        <4> QED
          BY <4>1, FS_Singleton
      <3> QED
        BY <3>1, <3>2
    <2> HIDE DEF both
    <2> QED
      BY <1>1, <1>3, <2>2 DEF Room
  <1> QED
    BY <1>2, <1>3

\* There is room for whoever is about to use a code.
LEMMA RoomLeft ==
  ASSUME UsesInv, NEW c \in Codes
  PROVE  uses[c] + Cardinality(Spending(c)) <= Room
  <1>1. UseInv(c) /\ uses[c] \in Nat
    BY DEF UsesInv, IInv, TypeOK
  <1>2. /\ Cardinality(Spent(c)) \in Nat /\ Cardinality(Spending(c)) \in Nat
        /\ Cardinality(Spent(c)) + Cardinality(Spending(c)) <= Room
    BY Finiteness, SpendersFit DEF UsesInv
  <1>3. Room \in Nat
    BY Finiteness DEF Room
  <1> HIDE DEF Room
  <1> QED
    BY <1>1, <1>2, <1>3 DEF UseInv

\* A step that uses no code c: it does not come into the row, nobody gets hold of it
\* who could not before, and who is to clear it still is while it is there.
LEMMA Unused ==
  ASSUME UsesInv, IInv', NEW c \in Codes, uses'[c] = uses[c], overlapped => overlapped',
         row'.otp = c => row.otp = c /\ Spent(c) \subseteq Spent(c)',
         row'.otp # c => Spending(c)' \subseteq Spending(c)
  PROVE  UseInv(c)'
  <1>1. uses[c] \in Nat /\ UseInv(c)
    BY DEF UsesInv, IInv, TypeOK
  <1>2. /\ Cardinality(Spent(c)) \in Nat /\ Cardinality(Spending(c)) \in Nat
        /\ IsFiniteSet(Spending(c)) /\ Cardinality(Slots) \in Nat /\ 1 <= Cardinality(Slots)
    BY Finiteness
  <1>3. /\ Cardinality(Spent(c)') \in Nat /\ Cardinality(Spending(c)') \in Nat
        /\ IsFiniteSet(Spent(c)')
    <2>1. Spent(c)' \subseteq Slots /\ Spending(c)' \subseteq Slots
      BY DEF Spent, Spending
    <2>2. IsFiniteSet(Spent(c)') /\ IsFiniteSet(Spending(c)')
      BY <2>1, SlotsAssumption, FS_Subset
    <2> QED
      BY <2>2, FS_CardinalityType
  <1>4. CASE row'.otp = c
    <2>1. Cardinality(Spent(c)) <= Cardinality(Spent(c)')
      BY <1>3, <1>4, FS_Subset
    <2> QED
      BY <1>1, <1>2, <1>3, <1>4, <2>1 DEF UseInv
  <1>5. CASE row'.otp # c
    <2>1. Cardinality(Spending(c)') <= Cardinality(Spending(c))
      BY <1>2, <1>5, FS_Subset
    <2>2. uses[c] + Cardinality(Spending(c)) <= Room
      BY RoomLeft
    <2>3. Room <= Room' /\ Room \in Nat /\ Room' \in Nat
      BY <1>2 DEF Room
    <2>4. uses'[c] + Cardinality(Spending(c)') <= Room'
      <3> HIDE DEF Room
      <3> QED
        BY <1>1, <1>2, <1>3, <2>1, <2>2, <2>3
    <2> QED
      BY <1>5, <2>4 DEF UseInv
  <1> QED
    BY <1>4, <1>5

\* A request moves, and the others stay where they are.
Only(s) == \A q \in Slots \ {s} : step'[q] = step[q] /\ copy'[q] = copy[q]

\* A request that uses no code: it clears the row's or leaves it, and clears it if it
\* used it before.
LEMMA QuietUse ==
  ASSUME UsesInv, IInv', NEW s \in Slots, Only(s), uses' = uses, overlapped => overlapped',
         row'.otp \in {row.otp, NoCode},
         step'[s] \in {"accept", "transferDone"} => copy'[s].otp = row'.otp,
         step[s] \in {"accepted", "consume"} =>
           \/ step'[s] \in {"accepted", "consume"} /\ copy'[s].otp = row'.otp
           \/ copy[s].otp # NoCode => row'.otp = NoCode
  PROVE  \A c \in Codes : UseInv(c)'
  <1> SUFFICES ASSUME NEW c \in Codes PROVE UseInv(c)'
    OBVIOUS
  <1>1. c # NoCode
    BY NoCodeAssumption
  <1>2. CASE row'.otp = c
    <2>1. row.otp = c
      BY <1>1, <1>2
    <2>2. Spent(c) \subseteq Spent(c)'
      BY <1>1, <1>2 DEF Only, Spent
    <2> QED
      BY <1>2, <2>1, <2>2, Unused
  <1>3. CASE row'.otp # c
    <2>1. Spending(c)' \subseteq Spending(c)
      BY <1>3 DEF Only, Spending
    <2> QED
      BY <1>3, <2>1, Unused
  <1> QED
    BY <1>2, <1>3

\* A new code was never used, and replaces an old one.
LEMMA IssuesUse ==
  ASSUME UsesInv, IInv', NEW s \in Slots, Only(s), Issues(s), overlapped => overlapped',
         step'[s] \notin {"accept", "transferDone"}
  PROVE  \A c \in Codes : UseInv(c)'
  <1> SUFFICES ASSUME NEW c \in Codes PROVE UseInv(c)'
    OBVIOUS
  <1>1. PICK d \in Codes : /\ row' = [row EXCEPT !.otp = d, !.expiry = "ahead"]
                           /\ uses' = [uses EXCEPT ![d] = 0]
    BY DEF Issues
  <1>2. row'.otp = d /\ uses \in [Codes -> Nat]
    BY <1>1 DEF UsesInv, IInv, TypeOK, Row
  <1>3. CASE c = d
    <2>1. uses'[c] = 0
      BY <1>1, <1>2, <1>3
    <2>2. Cardinality(Spent(c)') \in Nat
      <3>1. Spent(c)' \subseteq Slots
        BY DEF Spent
      <3> QED
        BY <3>1, SlotsAssumption, FS_Subset, FS_CardinalityType
    <2> QED
      BY <1>2, <1>3, <2>1, <2>2 DEF UseInv
  <1>4. CASE c # d
    <2>1. uses'[c] = uses[c]
      BY <1>1, <1>2, <1>4
    <2>2. Spending(c)' \subseteq Spending(c)
      BY DEF Only, Spending
    <2> QED
      BY <1>2, <1>4, <2>1, <2>2, Unused
  <1> QED
    BY <1>3, <1>4

\* A code is used by a request that was about to.  It is not in the row afterwards, or
\* the request is to clear it.
LEMMA SpendsUse ==
  ASSUME UsesInv, IInv', NEW s \in Slots, Only(s), UNCHANGED overlapped,
         step[s] \in {"accept", "transferDone"},
         step'[s] \notin {"accept", "transferDone"},
         uses' = [uses EXCEPT ![copy[s].otp] = @ + 1],
         row'.otp \in {row.otp, NoCode},
         \/ copy[s].otp # NoCode => row'.otp = NoCode
         \/ step'[s] \in {"accepted", "consume"} /\ copy'[s].otp = copy[s].otp
  PROVE  \A c \in Codes : UseInv(c)'
  <1> SUFFICES ASSUME NEW c \in Codes PROVE UseInv(c)'
    OBVIOUS
  <1>1. uses \in [Codes -> Nat] /\ c # NoCode
    BY NoCodeAssumption DEF UsesInv, IInv, TypeOK
  <1>2. s \notin Spent(c)
    BY DEF Spent
  <1>3. CASE copy[s].otp # c
    <2>1. uses'[c] = uses[c]
      BY <1>1, <1>3
    <2>2. Spending(c)' \subseteq Spending(c) /\ Spent(c) \subseteq Spent(c)'
      BY <1>2 DEF Only, Spending, Spent
    <2> QED
      BY <1>1, <2>1, <2>2, Unused
  <1>4. CASE copy[s].otp = c
    <2>1. uses'[c] = uses[c] + 1 /\ uses[c] \in Nat
      BY <1>1, <1>4
    <2>2. CASE row'.otp = c
      <3>1. Spent(c)' = Spent(c) \cup {s}
        BY <1>1, <1>2, <1>4, <2>2 DEF Only, Spent
      <3>2. IsFiniteSet(Spent(c)) /\ Cardinality(Spent(c)) \in Nat
        BY Finiteness
      <3>3. Cardinality(Spent(c) \cup {s}) = Cardinality(Spent(c)) + 1
        BY <1>2, <3>2, FS_AddElement
      <3>4. uses[c] <= Cardinality(Spent(c))
        BY <1>1, <2>2 DEF UsesInv, UseInv
      <3>5. uses'[c] <= Cardinality(Spent(c)')
        BY <2>1, <3>1, <3>2, <3>3, <3>4
      <3> QED
        BY <2>2, <3>5 DEF UseInv
    <2>3. CASE row'.otp # c
      <3>1. s \in Spending(c) /\ Spending(c)' = Spending(c) \ {s}
        BY <1>4 DEF Only, Spending
      <3>2. IsFiniteSet(Spending(c)) /\ Cardinality(Spending(c)) \in Nat
        BY Finiteness
      <3>3. Cardinality(Spending(c) \ {s}) = Cardinality(Spending(c)) - 1
        BY <3>1, <3>2, FS_RemoveElement
      <3>4. uses[c] + Cardinality(Spending(c)) <= Room
        BY RoomLeft
      <3>5. Room' = Room /\ Room \in Nat
        BY Finiteness DEF Room
      <3>6. uses'[c] + Cardinality(Spending(c)') <= Room'
        <4> HIDE DEF Room
        <4> QED
          BY <2>1, <3>1, <3>2, <3>3, <3>4, <3>5
      <3> QED
        BY <2>3, <3>6 DEF UseInv
    <2> QED
      BY <2>2, <2>3
  <1> QED
    BY <1>3, <1>4

\* Every action of a request moves it alone.
LEMMA OnlyMoves ==
  ASSUME IInv, NEW s \in Slots, Onboards(s) \/ Asks(s) \/ Verifies(s) \/ Transfers(s)
  PROVE  Only(s) /\ (overlapped => overlapped')
  <1> USE DEF IInv, TypeOK, Only
  <1>1. ASSUME NEW next, NEW kept, BeginWith(s, next, kept)
        PROVE  Only(s) /\ (overlapped => overlapped')
    BY <1>1 DEF BeginWith
  <1>2. ASSUME NEW from, NEW to, Moves(s, from, to),
               copy' = copy \/ \E c : copy' = [copy EXCEPT ![s] = c]
        PROVE  Only(s) /\ (overlapped => overlapped')
    BY <1>2 DEF Moves
  <1>3. ASSUME NEW from, Ends(s, from)
        PROVE  Only(s) /\ (overlapped => overlapped')
    BY <1>3 DEF Ends
  <1> HIDE DEF IInv, TypeOK, Only
  <1>4. CASE Onboards(s)
    BY <1>1, <1>2, <1>3, <1>4 DEF Onboards, Register, Insert, BeginActivation, Begin,
         Activate, RefreshActivated, Refreshes, Enable, BeginPasswordReset, NewPassword
  <1>5. CASE Asks(s)
    BY <1>1, <1>2, <1>3, <1>5 DEF Asks, RequestOtp, Begin, Unlock, RefreshUnlocked,
         Refreshes, Fail, Clear, Issue, RefreshIssued, MailSent, MailFailed
  <1>6. CASE Verifies(s)
    BY <1>1, <1>2, <1>3, <1>6 DEF Verifies, VerifyOtp, Begin, Accept, RefreshAccepted,
         Refreshes, Consume
  <1>7. CASE Transfers(s)
    BY <1>1, <1>2, <1>3, <1>7 DEF Transfers, InitiateTransfer, SaveTransferCode,
         CompleteTransfer, Begin, FinishTransfer
  <1> QED
    BY <1>4, <1>5, <1>6, <1>7

\* What the writes do to the code.
LEMMA CodeWrites ==
  ASSUME IInv, NEW s \in Slots
  PROVE  /\ row.otp \in Codes \cup {NoCode} /\ Loaded(row).otp = row.otp
         /\ Vacant.otp = NoCode
         /\ Reset(row, copy[s], FALSE).otp = row.otp
         /\ \A w \in {Reset(row, copy[s], TRUE), WithoutCode(row, copy[s])} :
              w.otp = IF copy[s].otp # NoCode THEN NoCode ELSE row.otp
         /\ Failed(row, copy[s]).otp \in {row.otp, NoCode}
  <1>1. row \in Row /\ copy[s] \in Row
    BY DEF IInv, TypeOK
  <1> DEFINE c == copy[s]
             u == [row EXCEPT !.attempts = IF c.attempts # 0 THEN 0 ELSE @,
                              !.lastFailed = IF c.lastFailed # "never" THEN "never" ELSE @,
                              !.status = IF c.status = "locked" THEN "active" ELSE @]
  <1>2. u \in Row /\ u.otp = row.otp
    BY <1>1 DEF Row, Statuses
  <1>3. Reset(row, c, FALSE) = u /\ Reset(row, c, TRUE) = WithoutCode(u, c)
    BY DEF Reset
  <1> HIDE DEF u
  <1>4. row.otp \in Codes \cup {NoCode} /\ Loaded(row).otp = row.otp /\ Vacant.otp = NoCode
    BY <1>1, LoadedRow, VacantRow DEF Row
  <1>5. /\ WithoutCode(u, c).otp = IF c.otp # NoCode THEN NoCode ELSE u.otp
        /\ WithoutCode(row, c).otp = IF c.otp # NoCode THEN NoCode ELSE row.otp
    BY <1>1, <1>2, WithoutCodeRow
  <1>6. Failed(row, c).otp \in {row.otp, NoCode}
    BY <1>1, FailedRow
  <1> QED
    BY <1>2, <1>3, <1>4, <1>5, <1>6

\* A request is taken in: it holds the code of the row, or none.
LEMMA BeginUse ==
  ASSUME UsesInv, IInv', NEW s \in Slots, NEW next, NEW kept, BeginWith(s, next, kept),
         kept = Loaded(row) \/ (kept = Vacant /\ next \notin {"accept", "transferDone"}),
         Only(s), overlapped => overlapped'
  PROVE  \A c \in Codes : UseInv(c)'
  <1>1. /\ row' = row /\ uses' = uses /\ step[s] = "idle"
        /\ step'[s] = next /\ copy'[s] = kept
    BY DEF BeginWith, history, UsesInv, IInv, TypeOK
  <1>2. Loaded(row).otp = row.otp
    BY CodeWrites DEF UsesInv
  <1> QED
    BY <1>1, <1>2, QuietUse

\* A request goes on, or ends, without using a code.
LEMMA GoesOnUse ==
  ASSUME UsesInv, IInv', NEW s \in Slots,
         step[s] \notin {"accepted", "consume"}, step'[s] \notin {"accept", "transferDone"},
         uses' = uses, row'.otp \in {row.otp, NoCode},
         Only(s), overlapped => overlapped'
  PROVE  \A c \in Codes : UseInv(c)'
  BY QuietUse

LEMMA OnboardsUse ==
  ASSUME UsesInv, IInv', NEW s \in Slots, Onboards(s)
  PROVE  \A c \in Codes : UseInv(c)'
  <1>1. Only(s) /\ (overlapped => overlapped')
    BY OnlyMoves DEF UsesInv
  <1>2. /\ row \in Row /\ step \in [Slots -> Steps] /\ Vacant.otp = NoCode
        /\ Reset(row, copy[s], TRUE).otp \in {row.otp, NoCode}
    BY CodeWrites DEF UsesInv, IInv, TypeOK
  <1>3. CASE Register(s) \/ BeginActivation(s) \/ BeginPasswordReset(s)
    BY <1>1, <1>3, BeginUse DEF Register, BeginActivation, BeginPasswordReset, Begin
  <1>4. CASE Insert(s)
    <2>1. row'.otp \in {row.otp, NoCode}
      BY <1>2, <1>4 DEF Insert, Vacant
    <2>2. step[s] = "insert" /\ step'[s] = "idle" /\ uses' = uses
      BY <1>2, <1>4 DEF Insert, Ends, history
    <2> QED
      BY <1>1, <2>1, <2>2, GoesOnUse
  <1>5. CASE Activate(s) \/ NewPassword(s)
    <2>1. /\ step[s] \in {"activate", "newPassword"} /\ step'[s] \in {"activated", "idle"}
          /\ uses' = uses /\ row' = Reset(row, copy[s], TRUE)
      BY <1>2, <1>5 DEF Activate, NewPassword, Moves, Ends
    <2> QED
      BY <1>1, <1>2, <2>1, GoesOnUse
  <1>6. CASE RefreshActivated(s)
    <2>1. /\ step[s] = "activated" /\ step'[s] = "enable"
          /\ uses' = uses /\ row' = row
      BY <1>2, <1>6 DEF RefreshActivated, Refreshes, Moves, history
    <2> QED
      BY <1>1, <2>1, GoesOnUse
  <1>7. CASE Enable(s)
    <2>1. row'.otp = row.otp
      BY <1>2, <1>7 DEF Enable, Row
    <2>2. step[s] = "enable" /\ step'[s] = "idle" /\ uses' = uses
      BY <1>2, <1>7 DEF Enable, Ends, history
    <2> QED
      BY <1>1, <2>1, <2>2, GoesOnUse
  <1> QED
    BY <1>3, <1>4, <1>5, <1>6, <1>7 DEF Onboards

LEMMA AsksUse ==
  ASSUME UsesInv, IInv', NEW s \in Slots, Asks(s)
  PROVE  \A c \in Codes : UseInv(c)'
  <1>1. Only(s) /\ (overlapped => overlapped')
    BY OnlyMoves DEF UsesInv
  <1>2. /\ Reset(row, copy[s], TRUE).otp \in {row.otp, NoCode}
        /\ Reset(row, copy[s], FALSE).otp \in {row.otp, NoCode}
        /\ WithoutCode(row, copy[s]).otp \in {row.otp, NoCode}
        /\ Failed(row, copy[s]).otp \in {row.otp, NoCode}
        /\ step \in [Slots -> Steps]
    BY CodeWrites DEF UsesInv, IInv, TypeOK
  <1>3. CASE \E p \in BOOLEAN : RequestOtp(s, p)
    BY <1>1, <1>3, BeginUse DEF RequestOtp, Begin
  <1>4. CASE Unlock(s) \/ Fail(s) \/ Clear(s) \/ MailFailed(s)
    <2>1. /\ step[s] \in {"unlock", "fail", "clear", "mail"}
          /\ step'[s] \in {"unlocked", "idle", "issue"}
          /\ uses' = uses
          /\ row' \in {Reset(row, copy[s], FALSE), Failed(row, copy[s]),
                      Reset(row, copy[s], TRUE), WithoutCode(row, copy[s])}
      BY <1>2, <1>4 DEF Unlock, Fail, Clear, MailFailed, Moves, Ends, history
    <2>2. row'.otp \in {row.otp, NoCode}
      BY <1>2, <2>1
    <2> QED
      BY <1>1, <2>1, <2>2, GoesOnUse
  <1>5. CASE RefreshUnlocked(s) \/ RefreshIssued(s) \/ MailSent(s)
    <2>1. /\ step[s] \in {"unlocked", "issued", "mail"}
          /\ step'[s] \in {"clear", "fail", "mail", "idle"}
          /\ uses' = uses /\ row' = row
      BY <1>2, <1>5 DEF RefreshUnlocked, RefreshIssued, MailSent, Refreshes, Moves, Ends,
                        history
    <2> QED
      BY <1>1, <2>1, GoesOnUse
  <1>6. CASE Issue(s)
    <2>1. step'[s] = "issued"
      BY <1>6 DEF Issue, Moves, UsesInv, IInv, TypeOK
    <2> QED
      BY <1>1, <1>6, <2>1, IssuesUse DEF Issue
  <1> QED
    BY <1>3, <1>4, <1>5, <1>6 DEF Asks

LEMMA VerifiesUse ==
  ASSUME UsesInv, IInv', NEW s \in Slots, Verifies(s)
  PROVE  \A c \in Codes : UseInv(c)'
  <1>1. Only(s) /\ (overlapped => overlapped')
    BY OnlyMoves DEF UsesInv
  <1>2. step \in [Slots -> Steps] /\ copy \in [Slots -> Row]
    BY DEF UsesInv, IInv, TypeOK
  <1>3. CASE \E p \in BOOLEAN : VerifyOtp(s, p)
    <2>1. PICK next \in {"accept", "fail"} : BeginWith(s, next, Loaded(row))
      BY <1>3 DEF VerifyOtp, Begin
    <2> QED
      BY <1>1, <2>1, BeginUse
  <1>4. CASE Accept(s)
    <2>1. row'.otp = row.otp
      BY <1>4, CodeWrites DEF Accept, UsesInv
    <2>2. step[s] = "accept" /\ step'[s] = "accepted" /\ copy' = copy
      BY <1>2, <1>4 DEF Accept, Moves
    <2> QED
      BY <1>1, <1>4, <2>1, <2>2, SpendsUse DEF Accept, Moves
  <1>5. CASE RefreshAccepted(s)
    <2>1. Loaded(row).otp = row.otp
      BY CodeWrites DEF UsesInv
    <2>2. /\ step'[s] = "consume" /\ copy'[s] = Loaded(row)
          /\ row' = row /\ uses' = uses
      BY <1>2, <1>5 DEF RefreshAccepted, Refreshes, Moves, history
    <2> QED
      BY <1>1, <2>1, <2>2, QuietUse
  <1>6. CASE Consume(s)
    <2>1. row'.otp = IF copy[s].otp # NoCode THEN NoCode ELSE row.otp
      BY <1>6, CodeWrites DEF Consume, UsesInv
    <2>2. step'[s] = "idle" /\ uses' = uses
      BY <1>2, <1>6 DEF Consume, Ends
    <2> QED
      BY <1>1, <2>1, <2>2, QuietUse
  <1> QED
    BY <1>3, <1>4, <1>5, <1>6 DEF Verifies

LEMMA TransfersUse ==
  ASSUME UsesInv, IInv', NEW s \in Slots, Transfers(s)
  PROVE  \A c \in Codes : UseInv(c)'
  <1>1. Only(s) /\ (overlapped => overlapped')
    BY OnlyMoves DEF UsesInv
  <1>2. step \in [Slots -> Steps]
    BY DEF UsesInv, IInv, TypeOK
  <1>3. CASE InitiateTransfer(s) \/ CompleteTransfer(s)
    <2>1. \/ BeginWith(s, "transferCode", Vacant)
          \/ BeginWith(s, "transferDone", Loaded(row))
      BY <1>3 DEF InitiateTransfer, CompleteTransfer, Begin
    <2> QED
      BY <1>1, <2>1, BeginUse
  <1>4. CASE SaveTransferCode(s)
    <2>1. step'[s] = "idle"
      BY <1>2, <1>4 DEF SaveTransferCode, Ends
    <2> QED
      BY <1>1, <1>4, <2>1, IssuesUse DEF SaveTransferCode
  <1>5. CASE FinishTransfer(s)
    <2>1. row'.otp = IF copy[s].otp # NoCode THEN NoCode ELSE row.otp
      BY <1>5, CodeWrites DEF FinishTransfer, UsesInv
    <2>2. step[s] = "transferDone" /\ step'[s] = "idle"
      BY <1>2, <1>5 DEF FinishTransfer, Ends
    <2> QED
      BY <1>1, <1>5, <2>1, <2>2, SpendsUse DEF FinishTransfer, Ends
  <1> QED
    BY <1>3, <1>4, <1>5 DEF Transfers

\* Whatever of the row a clock changes, the code stays.
LEMMA TimeUse ==
  ASSUME UsesInv, IInv', LockoutElapses \/ CodeExpires \/ UNCHANGED vars
  PROVE  \A c \in Codes : UseInv(c)'
  <1>1. row'.otp = row.otp
    BY DEF LockoutElapses, CodeExpires, vars, UsesInv, IInv, TypeOK, Row
  <1>2. UNCHANGED <<step, copy, uses, overlapped>>
    BY DEF LockoutElapses, CodeExpires, vars, history
  <1> QED
    BY <1>1, <1>2 DEF UsesInv, UseInv, Spent, Spending, Room

LEMMA InitUse == Init => UsesInv
  <1> SUFFICES ASSUME Init PROVE UsesInv
    OBVIOUS
  <1>1. IInv
    BY InitInv
  <1>2. ASSUME NEW c \in Codes PROVE UseInv(c)
    <2>1. row.otp # c /\ uses[c] = 0 /\ Spending(c) = {} /\ ~overlapped
      BY NoCodeAssumption DEF Init, Vacant, Spending
    <2>2. Cardinality(Spending(c)) = 0
      BY <2>1, FS_EmptySet
    <2> QED
      BY <2>1, <2>2 DEF UseInv, Room
  <1> QED
    BY <1>1, <1>2 DEF UsesInv

LEMMA NextUse == UsesInv /\ [Next]_vars => UsesInv'
  <1> SUFFICES ASSUME UsesInv, [Next]_vars PROVE UsesInv'
    OBVIOUS
  <1>1. IInv'
    BY NextInv DEF UsesInv
  <1>2. \A c \in Codes : UseInv(c)'
    BY <1>1, OnboardsUse, AsksUse, VerifiesUse, TransfersUse, TimeUse DEF Next
  <1> QED
    BY <1>1, <1>2 DEF UsesInv

\* A code opens one session or pays one transfer; where requests overlap it may be used
\* by each that is under way, and by no more (service.py:323, login.py:84,
\* transaction/service.py:434).
THEOREM CodesAreSpent == Spec => []BoundedUse
  <1>1. UsesInv => BoundedUse
    <2> SUFFICES ASSUME UsesInv, NEW c \in Codes PROVE uses[c] <= Room
      BY DEF BoundedUse, Room
    <2>1. uses[c] + Cardinality(Spending(c)) <= Room
      BY RoomLeft
    <2>2. uses[c] \in Nat /\ Cardinality(Spending(c)) \in Nat /\ Room \in Nat
      BY Finiteness DEF Room, UsesInv, IInv, TypeOK
    <2> HIDE DEF Room
    <2> QED
      BY <2>1, <2>2
  <1> QED
    BY <1>1, InitUse, NextUse, PTL DEF Spec
=============================================================================
