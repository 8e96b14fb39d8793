-------------------------------- MODULE Login --------------------------------
(***************************************************************************)
(* Registration, the two-step login and its lockout, seen from the row of  *)
(* one user.  Every request loads the row, decides on its copy and writes  *)
(* the columns that differ from the copy in a later commit, without a      *)
(* lock.  The one column for a code, otp, is shared with the transfers of  *)
(* the user.  Six random digits are modelled as a code nobody holds yet.   *)
(***************************************************************************)
EXTENDS Integers, FiniteSets

CONSTANTS
  Slots,           \* the requests about the user that may be under way at once
  Codes,           \* one-time codes (bounds the model)
  NoCode,          \* the empty otp
  LOGIN_ATTEMPTS,
  MaxWrong         \* bounds the model: wrong passwords and codes ever presented

ASSUME SlotsAssumption  == IsFiniteSet(Slots) /\ Slots # {}
ASSUME LimitAssumption  == LOGIN_ATTEMPTS \in Nat \ {0} /\ MaxWrong \in Nat
ASSUME NoCodeAssumption == NoCode \notin Codes

VARIABLES
  row,         \* the user's row
  step,        \* where the request in each slot is
  copy,        \* the row as the request last loaded it
  right,       \* whether the password it presents is right
  uses,        \* history: what each code has authorised since it was issued
  wrong,       \* history: wrong passwords and codes that were counted
  streak,      \* history: ... since the counter was last reset
  proved,      \* history: the right password was presented once
  loggedIn,    \* history: a session was opened
  overlapped   \* history: two requests were once under way together

history == <<uses, wrong, streak, proved, loggedIn>>
vars    == <<row, step, copy, right, history, overlapped>>

Statuses == {"none", "pending", "active", "locked"}   \* "none": no such row

\* lastFailed: "recent" within LOCKOUT_DURATION_MINUTES, "past" afterwards;
\* expiry: of the code, "ahead" or "past".
Row == [status : Statuses, active : BOOLEAN, attempts : Nat,
        lastFailed : {"never", "recent", "past"},
        otp : Codes \cup {NoCode}, expiry : {"none", "ahead", "past"}]

Steps == {"idle", "insert", "activate", "activated", "enable", "newPassword",
          "unlock", "unlocked", "fail", "clear", "issue", "issued", "mail",
          "accept", "accepted", "consume", "transferCode", "transferDone"}

Vacant == [status |-> "none", active |-> FALSE, attempts |-> 0,
           lastFailed |-> "never", otp |-> NoCode, expiry |-> "none"]

Init ==
  /\ row = Vacant
  /\ step = [s \in Slots |-> "idle"]
  /\ copy = [s \in Slots |-> Vacant]
  /\ right = [s \in Slots |-> FALSE]
  /\ uses = [c \in Codes |-> 0]
  /\ wrong = 0 /\ streak = 0
  /\ proved = FALSE /\ loggedIn = FALSE
  /\ overlapped = FALSE

\* What a request keeps of the row: it compares times with the clock only when
\* it loads them, and later needs to know only whether there is one.
Loaded(r) == [r EXCEPT !.lastFailed = IF @ = "never" THEN @ ELSE "past",
                       !.expiry = IF @ = "none" THEN @ ELSE "past"]

\* A request whose first queries passed; kept: what its later writes depend on.
BeginWith(s, next, kept) ==
  /\ step[s] = "idle"
  /\ step' = [step EXCEPT ![s] = next]
  /\ copy' = [copy EXCEPT ![s] = kept]
  /\ overlapped' = (overlapped \/ \E q \in Slots \ {s} : step[q] # "idle")
  /\ UNCHANGED <<row, history>>

Begin(s, next) == BeginWith(s, next, Loaded(row))

Moves(s, from, to) ==
  /\ step[s] = from
  /\ step' = [step EXCEPT ![s] = to]
  /\ UNCHANGED <<right, overlapped>>

\* The request ends, and with it its session and its copy.
Ends(s, from) ==
  /\ step[s] = from
  /\ step' = [step EXCEPT ![s] = "idle"]
  /\ copy' = [copy EXCEPT ![s] = Vacant]
  /\ right' = [right EXCEPT ![s] = FALSE]
  /\ UNCHANGED overlapped

\* session.refresh, a transaction of its own after the commit before it.
Refreshes(s, from, to) ==
  /\ Moves(s, from, to)
  /\ copy' = [copy EXCEPT ![s] = Loaded(row)]
  /\ UNCHANGED <<row, history>>

---------------------------------------------------------------------------
\* The writes: a column is part of the UPDATE if its value differs from the copy.

\* What the row becomes when the code and its expiry are cleared.
WithoutCode(r, c) ==
  [r EXCEPT !.otp = IF c.otp # NoCode THEN NoCode ELSE @,
            !.expiry = IF c.expiry # "none" THEN "none" ELSE @]

\* reset_user_state
Reset(r, c, clear_otp) ==
  LET unlocked == [r EXCEPT !.attempts = IF c.attempts # 0 THEN 0 ELSE @,
                            !.lastFailed = IF c.lastFailed # "never" THEN "never" ELSE @,
                            !.status = IF c.status = "locked" THEN "active" ELSE @]
  IN IF clear_otp THEN WithoutCode(unlocked, c) ELSE unlocked

\* (mutant) The outstanding code survives the lockout.
FailedKeepingCode(r, c) ==
  LET counted == [r EXCEPT !.attempts = c.attempts + 1, !.lastFailed = "recent"]
  IN IF c.attempts + 1 >= LOGIN_ATTEMPTS
     THEN [counted EXCEPT !.status = IF c.status # "locked" THEN "locked" ELSE @]
     ELSE counted

\* (mutant) The account is locked one failure early.
FailedEarly(r, c) ==
  LET counted == [r EXCEPT !.attempts = c.attempts + 1, !.lastFailed = "recent"]
  IN IF c.attempts + 2 >= LOGIN_ATTEMPTS
     THEN WithoutCode([counted EXCEPT !.status = "locked"], c)
     ELSE counted

\* increment_failed_login_attempts
Failed(r, c) ==
  LET counted == [r EXCEPT !.attempts = c.attempts + 1, !.lastFailed = "recent"]
  IN IF c.attempts + 1 >= LOGIN_ATTEMPTS
     THEN WithoutCode([counted EXCEPT !.status = IF c.status # "locked" THEN "locked" ELSE @], c)
     ELSE counted

\* A new code, which no row has and no other request holds.
Fresh(s, c) == c # row.otp /\ \A q \in Slots \ {s} : copy[q].otp # c

\* A code is written; what older uses it had belong to another code.
Issues(s) ==
  \E c \in Codes :
    /\ Fresh(s, c)
    /\ row' = [row EXCEPT !.otp = c, !.expiry = "ahead"]
    /\ uses' = [uses EXCEPT ![c] = 0]
    /\ UNCHANGED <<wrong, streak, proved, loggedIn>>

---------------------------------------------------------------------------
\* register_user, activate_user, reset_password

\* The search for the e-mail address overlooks users who are not active.
Register(s) == ~row.active /\ BeginWith(s, "insert", Vacant) /\ UNCHANGED right

\* The address is unique: a second insert fails.
Insert(s) ==
  /\ Ends(s, "insert")
  /\ row' = IF row.status = "none" THEN [Vacant EXCEPT !.status = "pending"] ELSE row
  /\ UNCHANGED history

BeginActivation(s) ==
  row.status # "none" /\ ~row.active /\ Begin(s, "activate") /\ UNCHANGED right

Activate(s) ==
  /\ Moves(s, "activate", "activated")
  /\ row' = Reset(row, copy[s], TRUE)
  /\ streak' = 0
  /\ UNCHANGED <<copy, uses, wrong, proved, loggedIn>>

RefreshActivated(s) == Refreshes(s, "activated", "enable")

Enable(s) ==
  /\ Ends(s, "enable")
  /\ row' = [row EXCEPT !.active = TRUE,
                        !.status = IF copy[s].status # "active" THEN "active" ELSE @]
  /\ UNCHANGED history

BeginPasswordReset(s) == row.status # "none" /\ Begin(s, "newPassword") /\ UNCHANGED right

NewPassword(s) ==
  /\ Ends(s, "newPassword")
  /\ row' = Reset(row, copy[s], TRUE)
  /\ streak' = 0
  /\ UNCHANGED <<uses, wrong, proved, loggedIn>>

---------------------------------------------------------------------------
\* request_login_otp

\* (mutant) A lockout is left to support: it is not ended when it is served.
LockoutNeverServed(s, p) ==
  /\ row.active
  /\ row.status = "locked" => row.lastFailed = "never"
  /\ right' = [right EXCEPT ![s] = p]
  /\ Begin(s, IF p THEN "clear" ELSE "fail")

\* The lockout is checked first: the row is locked and it is served, or it is
\* not locked, or it has no last failure.
RequestOtp(s, p) ==
  /\ row.active
  /\ row.status = "locked" => row.lastFailed # "recent"
  /\ right' = [right EXCEPT ![s] = p]
  /\ Begin(s, IF row.status = "locked" /\ row.lastFailed = "past" THEN "unlock"
              ELSE IF p THEN "clear" ELSE "fail")

Unlock(s) ==
  /\ Moves(s, "unlock", "unlocked")
  /\ row' = Reset(row, copy[s], FALSE)
  /\ streak' = 0
  /\ UNCHANGED <<copy, uses, wrong, proved, loggedIn>>

RefreshUnlocked(s) == Refreshes(s, "unlocked", IF right[s] THEN "clear" ELSE "fail")

\* A wrong password or a wrong code.
Fail(s) ==
  /\ Ends(s, "fail")
  /\ row' = Failed(row, copy[s])
  /\ wrong' = wrong + 1
  /\ streak' = streak + 1
  /\ UNCHANGED <<uses, proved, loggedIn>>

Clear(s) ==
  /\ Moves(s, "clear", "issue")
  /\ row' = Reset(row, copy[s], TRUE)
  /\ streak' = 0
  /\ proved' = TRUE
  /\ copy' = [copy EXCEPT ![s] = Vacant]
  /\ UNCHANGED <<uses, wrong, loggedIn>>

\* generate_and_save_otp: its columns always change, so what the refresh before
\* it read does not matter.
Issue(s) == Moves(s, "issue", "issued") /\ Issues(s) /\ UNCHANGED copy

RefreshIssued(s) == Refreshes(s, "issued", "mail")

MailSent(s) == Ends(s, "mail") /\ UNCHANGED <<row, history>>

\* The third attempt to send failed.
MailFailed(s) ==
  /\ Ends(s, "mail")
  /\ row' = WithoutCode(row, copy[s])
  /\ UNCHANGED history

---------------------------------------------------------------------------
\* verify_login_otp

\* (mutant) An empty column is compared like a code.
VerifyEmpty(s, p) ==
  /\ row.active /\ row.status # "locked"
  /\ row.expiry # "past"
  /\ Begin(s, IF p THEN "accept" ELSE "fail")
  /\ UNCHANGED right

\* p: the code presented is the one in the row.  A locked user is refused, and
\* so, uncounted, is a right code that has expired.
VerifyOtp(s, p) ==
  /\ row.active /\ row.status # "locked"
  /\ p => row.otp # NoCode /\ row.expiry = "ahead"
  /\ Begin(s, IF p THEN "accept" ELSE "fail")
  /\ UNCHANGED right

\* The first reset keeps the code.
Accept(s) ==
  /\ Moves(s, "accept", "accepted")
  /\ row' = Reset(row, copy[s], FALSE)
  /\ streak' = 0
  /\ uses' = [uses EXCEPT ![copy[s].otp] = @ + 1]
  /\ UNCHANGED <<copy, wrong, proved, loggedIn>>

RefreshAccepted(s) == Refreshes(s, "accepted", "consume")

\* (mutant) The second reset keeps the code as the first one does.
ConsumeNothing(s) ==
  /\ Ends(s, "consume")
  /\ row' = Reset(row, copy[s], FALSE)
  /\ streak' = 0
  /\ loggedIn' = TRUE
  /\ UNCHANGED <<uses, wrong, proved>>

\* The second reset, then the tokens.
Consume(s) ==
  /\ Ends(s, "consume")
  /\ row' = Reset(row, copy[s], TRUE)
  /\ streak' = 0
  /\ loggedIn' = TRUE
  /\ UNCHANGED <<uses, wrong, proved>>

---------------------------------------------------------------------------
\* Transfers of the user, as far as they use the column.

\* get_current_user: an access token, and a row that may use it.
Authenticated == loggedIn /\ row.active /\ row.status # "locked"

InitiateTransfer(s) == Authenticated /\ BeginWith(s, "transferCode", Vacant) /\ UNCHANGED right

SaveTransferCode(s) ==
  /\ Ends(s, "transferCode")
  /\ Issues(s)

\* The right code, presented by anyone logged in; a wrong one fails the
\* transfer and is not counted.
CompleteTransfer(s) ==
  /\ row.otp # NoCode /\ row.expiry = "ahead"
  /\ Begin(s, "transferDone")
  /\ UNCHANGED right

FinishTransfer(s) ==
  /\ Ends(s, "transferDone")
  /\ row' = WithoutCode(row, copy[s])
  /\ uses' = [uses EXCEPT ![copy[s].otp] = @ + 1]
  /\ UNCHANGED <<wrong, streak, proved, loggedIn>>

---------------------------------------------------------------------------
\* Time

LockoutElapses ==
  /\ row.lastFailed = "recent"
  /\ row' = [row EXCEPT !.lastFailed = "past"]
  /\ UNCHANGED <<step, copy, right, history, overlapped>>

CodeExpires ==
  /\ row.expiry = "ahead"
  /\ row' = [row EXCEPT !.expiry = "past"]
  /\ UNCHANGED <<step, copy, right, history, overlapped>>

---------------------------------------------------------------------------
Onboards(s) ==
  \/ Register(s) \/ Insert(s)
  \/ BeginActivation(s) \/ Activate(s) \/ RefreshActivated(s) \/ Enable(s)
  \/ BeginPasswordReset(s) \/ NewPassword(s)

\* The bound MaxWrong is on the requests that start with a wrong password or code.
Asks(s) ==
  \/ \E p \in BOOLEAN : (p \/ wrong < MaxWrong) /\ RequestOtp(s, p)
  \/ Unlock(s) \/ RefreshUnlocked(s) \/ Fail(s) \/ Clear(s) \/ Issue(s)
  \/ RefreshIssued(s) \/ MailSent(s) \/ MailFailed(s)

Verifies(s) ==
  \/ \E p \in BOOLEAN : (p \/ wrong < MaxWrong) /\ VerifyOtp(s, p)
  \/ Accept(s) \/ RefreshAccepted(s) \/ Consume(s)

Transfers(s) ==
  \/ InitiateTransfer(s) \/ SaveTransferCode(s)
  \/ CompleteTransfer(s) \/ FinishTransfer(s)

Next ==
  \/ \E s \in Slots : Onboards(s) \/ Asks(s) \/ Verifies(s) \/ Transfers(s)
  \/ LockoutElapses \/ CodeExpires

\* A request that is under way is carried on with.
Proceeds(s) ==
  \/ Insert(s) \/ Activate(s) \/ RefreshActivated(s) \/ Enable(s) \/ NewPassword(s)
  \/ Unlock(s) \/ RefreshUnlocked(s) \/ Fail(s) \/ Clear(s) \/ Issue(s)
  \/ RefreshIssued(s) \/ MailSent(s) \/ MailFailed(s)
  \/ Accept(s) \/ RefreshAccepted(s) \/ Consume(s)
  \/ SaveTransferCode(s) \/ FinishTransfer(s)

\* The event loop runs every request to its end, time passes, and the user keeps
\* asking for a code with the right password.
Fairness ==
  /\ \A s \in Slots : WF_vars(Proceeds(s))
  /\ WF_vars(LockoutElapses)
  /\ SF_vars(\E s \in Slots : RequestOtp(s, TRUE))

Spec     == Init /\ [][Next]_vars
FairSpec == Spec /\ Fairness

---------------------------------------------------------------------------
TypeOK ==
  /\ row \in Row
  /\ step \in [Slots -> Steps]
  /\ copy \in [Slots -> Row]
  /\ right \in [Slots -> BOOLEAN]
  /\ uses \in [Codes -> Nat]
  /\ wrong \in Nat /\ streak \in Nat
  /\ proved \in BOOLEAN /\ loggedIn \in BOOLEAN /\ overlapped \in BOOLEAN

\* Steps of requests that hold the row as they loaded it until they write.
Holding == {"activate", "newPassword", "unlock", "fail", "clear", "accept",
            "consume", "transferDone"}

\* Steps of requests that had the right password, or a code that came from it.
AfterPassword == {"issue", "accept", "accepted", "consume", "transferCode"}

\* A code, and what may follow from one, exists only after the right password.
CodesAreEarned ==
  row.otp # NoCode \/ loggedIn \/ (\E s \in Slots : step[s] \in AfterPassword) => proved

\* The counter and its copies never exceed what was really counted.
CountersAreFounded ==
  /\ row.attempts <= wrong
  /\ \A s \in Slots : copy[s].attempts <= wrong
  /\ row.status = "locked" => wrong >= LOGIN_ATTEMPTS

\* Steps of requests that only an active user gets to.
NeedActive == {"unlock", "unlocked", "fail", "clear", "issue", "accept", "accepted",
               "consume", "transferCode"}

\* Before the activation there is nothing to lock and no code.
InactiveIsBlank ==
  /\ row.status = "none" => row = Vacant
  /\ ~row.active => row.status \in {"none", "pending"} /\ row.otp = NoCode
  /\ \A s \in Slots :
       /\ step[s] \in NeedActive \/ copy[s].status = "locked" => row.active
       /\ step[s] \in {"activate", "activated", "enable", "newPassword"} =>
            row.status # "none"

\* What a single request may rely on until it ends.
Undisturbed ==
  ~overlapped =>
    /\ \A s, q \in Slots : step[s] # "idle" /\ step[q] # "idle" => s = q
    /\ \A s \in Slots :
         /\ step[s] \in Holding => copy[s] = Loaded(row)
         /\ step[s] \in {"issue", "activated", "enable", "transferCode"} => row.status # "locked"

\* However requests overlap, and although a transfer's code works as a login
\* code, no session is opened before the right password was presented
\* (routes/login.py:32, service.py:308).
NoSessionWithoutPassword == loggedIn => proved

\* No lost or late write of the counter locks the account with fewer wrong
\* passwords and codes than LOGIN_ATTEMPTS (service.py:369-375).
NoUnjustLockout == row.status = "locked" => wrong >= LOGIN_ATTEMPTS

\* While the requests of the user do not overlap, the counter is exactly what
\* failed since the last reset, the account is locked exactly from the limit
\* on, and a locked account has no code left (service.py:364-377).
CountedWhenAlone ==
  ~overlapped =>
    /\ row.attempts = streak
    /\ row.status = "locked" <=> streak >= LOGIN_ATTEMPTS
    /\ row.status = "locked" => row.otp = NoCode

IInv ==
  TypeOK /\ CodesAreEarned /\ CountersAreFounded /\ InactiveIsBlank /\ Undisturbed
    /\ CountedWhenAlone

\* A code authorises one login or one transfer, and where requests overlap at
\* most one per request that was under way (service.py:323, login.py:84,
\* transaction/service.py:434).
BoundedUse ==
  \A c \in Codes : uses[c] <= IF overlapped THEN Cardinality(Slots) ELSE 1

\* A lockout, however it came about, ends once the wrong attempts stop and the
\* user keeps asking for a code with the right password, although verify-otp
\* refuses a locked user even after the lockout is served (service.py:304).
LockoutEnds == row.status = "locked" ~> row.status = "active"
=============================================================================
