----------------------------- MODULE ClientProofs -----------------------------
(***************************************************************************)
(* Proofs about Client for any number of requests, pages, retries, logins  *)
(* and losses: writes are carried out at most once, attempts are bounded,  *)
(* the end of one session fails no request, and a walk reads every page    *)
(* that its links lead to.                                                 *)
(***************************************************************************)
EXTENDS Client, FiniteSetTheorems, TLAPS

Phases   == {"idle", "locking", "login", "sent", "sleeping", "ended"}
Outcomes == {"ok", "refused", "auth", "rate", "lost"}
Calls == [pc : Phases, outcome : Outcomes \cup {None}, with : Nat, rate : Nat,
          authRetry : BOOLEAN, force : BOOLEAN, sends : Nat,
          key : Key, seen : SUBSET Key, items : Seq(Item)]

Types ==
    /\ credentials \in Nat /\ logins \in Nat /\ sessions \subseteq Nat
    /\ call \in [Request -> Calls]
    /\ applied \in [Writer -> Nat]
    /\ link \in [Page -> Key \cup {None}]
    /\ expiries \in Nat /\ faults \in Nat

\* The attempts that a request may have made before a login that it forces,
\* and those after one
Before(c) == IF c.authRetry THEN MaxRateLimitRetries + 1 ELSE 0

\* What a request has used up of its attempts, by where it is
Counted(c) ==
    /\ c.rate <= MaxRateLimitRetries
    /\ c.pc = "idle" => c.sends = 0 /\ c.rate = 0 /\ ~c.authRetry /\ ~c.force
    /\ c.pc \in {"locking", "login"} =>
         /\ ~c.authRetry
         /\ c.sends <= (IF c.force THEN MaxRateLimitRetries + 1 ELSE 0)
    /\ c.pc = "sent" => c.sends <= Before(c) + c.rate + 1
    /\ c.pc = "sleeping" => c.sends <= Before(c) + c.rate + 1 /\ c.rate < MaxRateLimitRetries
    /\ c.pc = "ended" => c.sends <= Before(c) + MaxRateLimitRetries + 1

\* What BAM did for a request, by its outcome; none before the end
Carries(c, n) ==
    /\ n <= 1
    /\ c.pc # "ended" => c.outcome = None /\ n = 0
    /\ c.outcome = "ok" => n = 1
    /\ c.outcome \in {"auth", "rate", "refused"} => n = 0

\* Until the first session ends all credentials in use are good; afterwards
\* those of every request that has logged in again.  After a second end, or a
\* failed login, nothing is claimed.
Good(c) == c.pc = "sent" => c.with \in sessions
Untroubled == KeepsSessions /\ expiries < 2 /\ faults = 0

HasCredentials(c) == c.pc \in {"sent", "sleeping"} => credentials # 0
Fine(c) ==
    /\ c.outcome # "auth"
    /\ c.authRetry => credentials \in sessions /\ Good(c)
    /\ expiries = 0 => ~c.authRetry /\ ~c.force /\ Good(c)
Renewed ==
    /\ \A r \in Request : HasCredentials(call[r])
    /\ Untroubled => /\ \A r \in Request : Fine(call[r])
                     /\ expiries = 0 /\ credentials # 0 => credentials \in sessions

IInv ==
    /\ Types
    /\ \A r \in Request : Counted(call[r])
    /\ \A r \in Writer : Carries(call[r], applied[r])
    /\ Renewed

\* In line for the lock are requests that wait for it, each once.
InLine ==
    /\ queue \in Seq(Request)
    /\ \A i \in DOMAIN queue : call[queue[i]].pc = "locking"
    /\ \A i, j \in DOMAIN queue : queue[i] = queue[j] => i = j
    /\ \A r \in Request : call[r].pc = "locking" => \E i \in DOMAIN queue : queue[i] = r

\* The lock is held by whoever logs in.
OneHolder ==
    /\ lock \in Request \cup {None}
    /\ \A r \in Request : call[r].pc = "login" <=> lock = r

Numbered == credentials \in 0 .. logins /\ sessions \subseteq 1 .. logins

LockInv == InLine /\ OneHolder /\ Numbered

-----------------------------------------------------------------------------
(***************************************************************************)
(* One call changes in a step                                              *)
(***************************************************************************)
LEMMA OneCallChanges ==
  ASSUME Types, NEW r \in Request, NEW d \in Calls, call' = [call EXCEPT ![r] = d]
  PROVE  /\ call' \in [Request -> Calls]
         /\ call'[r] = d
         /\ \A q \in Request : q # r => call'[q] = call[q]
BY DEF Types

\* Sending a request counts one attempt and changes nothing else of it.
LEMMA SendingCounts ==
  ASSUME NEW c \in Calls, NEW s \in Nat
  PROVE  /\ Sent(c, s) \in Calls
         /\ Sent(c, s).pc = "sent" /\ Sent(c, s).with = s
         /\ Sent(c, s).sends = c.sends + 1
         /\ Sent(c, s).outcome = c.outcome /\ Sent(c, s).rate = c.rate
         /\ Sent(c, s).authRetry = c.authRetry /\ Sent(c, s).force = c.force
<1> DEFINE a == [c EXCEPT !.pc = "sent"]
           b == [a EXCEPT !.with = s]
<1>1. /\ a \in Calls /\ a.pc = "sent" /\ a.sends = c.sends /\ a.outcome = c.outcome
      /\ a.rate = c.rate /\ a.authRetry = c.authRetry /\ a.force = c.force
  BY DEF Calls, Phases
<1> HIDE DEF a
<1>2. /\ b \in Calls /\ b.pc = a.pc /\ b.sends = a.sends /\ b.outcome = a.outcome
      /\ b.rate = a.rate /\ b.authRetry = a.authRetry /\ b.force = a.force /\ b.with = s
  BY <1>1 DEF Calls
<1> HIDE DEF b
<1>3. b.sends + 1 \in Nat
  BY <1>2 DEF Calls
<1> DEFINE d == [b EXCEPT !.sends = b.sends + 1]
<1>4. /\ d \in Calls /\ d.pc = b.pc /\ d.sends = b.sends + 1 /\ d.outcome = b.outcome
      /\ d.rate = b.rate /\ d.authRetry = b.authRetry /\ d.force = b.force /\ d.with = b.with
  BY <1>2, <1>3 DEF Calls
<1>5. Sent(c, s) = d
  BY <1>1, <1>2 DEF Sent, a, b, d, Calls
<1> QED
  BY <1>1, <1>2, <1>4, <1>5

LEMMA EndingKeeps ==
  ASSUME NEW c \in Calls, NEW o \in Outcomes
  PROVE  /\ Ended(c, o) \in Calls
         /\ Ended(c, o).pc = "ended" /\ Ended(c, o).outcome = o
         /\ Ended(c, o).sends = c.sends /\ Ended(c, o).rate = c.rate
         /\ Ended(c, o).authRetry = c.authRetry /\ Ended(c, o).force = c.force
BY DEF Ended, Calls, Phases

\* What has to be shown of the call that changes, for all of them to be right.
LEMMA CallsStayRight ==
  ASSUME IInv, NEW r \in Request, NEW d \in Calls, call' = [call EXCEPT ![r] = d],
         Counted(d),
         r \in Writer => Carries(d, applied'[r]),
         \A w \in Writer : w # r => applied'[w] = applied[w]
  PROVE  /\ \A q \in Request : Counted(call'[q])
         /\ \A w \in Writer : Carries(call'[w], applied'[w])
<1>1. /\ call'[r] = d
      /\ \A q \in Request : q # r => call'[q] = call[q]
  BY OneCallChanges DEF IInv
<1>2. ASSUME NEW q \in Request PROVE Counted(call'[q])
  BY <1>1 DEF IInv
<1>3. ASSUME NEW w \in Writer PROVE Carries(call'[w], applied'[w])
  <2>1. w \in Request
    BY DEF Request
  <2> QED
    BY <1>1, <2>1 DEF IInv
<1> QED
  BY <1>2, <1>3

LEMMA RetriesAreNat == MaxRateLimitRetries \in Nat
BY LimitAssumption

LEMMA MovingKeeps ==
  ASSUME NEW c \in Calls, NEW p \in Phases, NEW d, d = [c EXCEPT !.pc = p]
  PROVE  /\ d \in Calls /\ d.pc = p /\ d.force = c.force
         /\ d.outcome = c.outcome /\ d.rate = c.rate /\ d.sends = c.sends
         /\ d.authRetry = c.authRetry /\ d.with = c.with
BY DEF Calls

\* The credentials in use stay good in a step of one call that changes neither
\* credentials nor sessions.
LEMMA RenewedStays ==
  ASSUME IInv, NEW r \in Request, NEW d \in Calls, call' = [call EXCEPT ![r] = d],
         UNCHANGED <<credentials, sessions, expiries>>,
         faults' \in {faults, faults + 1},
         HasCredentials(d),
         Untroubled /\ faults' = 0 => Fine(d)
  PROVE  Renewed'
<1>1. /\ call'[r] = d
      /\ \A q \in Request : q # r => call'[q] = call[q]
  BY OneCallChanges DEF IInv
<1>2. Untroubled' => Untroubled /\ faults' = 0
  BY DEF Untroubled, IInv, Types
<1>3. ASSUME NEW q \in Request PROVE HasCredentials(call[q])'
  BY <1>1 DEF IInv, Renewed, HasCredentials
<1>4. ASSUME Untroubled', NEW q \in Request PROVE Fine(call[q])'
  BY <1>1, <1>2, <1>4 DEF IInv, Renewed, Fine, Good
<1>5. Untroubled' /\ expiries' = 0 /\ credentials' # 0 => credentials' \in sessions'
  BY <1>2 DEF IInv, Renewed
<1> QED
  BY <1>3, <1>4, <1>5 DEF Renewed

\* All of it together, for a step that changes no credentials.
LEMMA OneCallStep ==
  ASSUME IInv, NEW r \in Request, NEW d \in Calls, call' = [call EXCEPT ![r] = d],
         UNCHANGED <<credentials, sessions, logins, link, expiries>>,
         faults' \in {faults, faults + 1},
         applied' \in [Writer -> Nat],
         \A w \in Writer : w # r => applied'[w] = applied[w],
         Counted(d), r \in Writer => Carries(d, applied'[r]),
         HasCredentials(d),
         Untroubled /\ faults' = 0 => Fine(d)
  PROVE  IInv'
<1>1. Types'
  <2>1. call' \in [Request -> Calls]
    BY OneCallChanges DEF IInv
  <2> QED
    BY <2>1 DEF IInv, Types
<1>2. /\ \A q \in Request : Counted(call'[q])
      /\ \A w \in Writer : Carries(call'[w], applied'[w])
  BY CallsStayRight
<1>3. Renewed'
  BY RenewedStays
<1> QED
  BY <1>1, <1>2, <1>3 DEF IInv, Counted, Carries, Before

-----------------------------------------------------------------------------
(***************************************************************************)
(* The actions                                                             *)
(***************************************************************************)
\* The facts about one request that the steps below use
LEMMA OneCall ==
  ASSUME IInv, NEW r \in Request
  PROVE  /\ call[r] \in Calls /\ Counted(call[r]) /\ HasCredentials(call[r])
         /\ call[r].rate \in Nat /\ call[r].sends \in Nat
         /\ call[r].authRetry \in BOOLEAN /\ call[r].force \in BOOLEAN
         /\ r \in Writer => Carries(call[r], applied[r])
         /\ Untroubled => Fine(call[r])
         /\ Untroubled /\ expiries = 0 /\ credentials # 0 => credentials \in sessions
         /\ credentials \in Nat /\ applied \in [Writer -> Nat]
<1>1. call[r] \in Calls
  BY DEF IInv, Types
<1> QED
  BY <1>1 DEF IInv, Types, Renewed, Calls

\* A request that goes to the lock, or waits for it.
LEMMA LockStep ==
  ASSUME IInv, NEW r \in Request, NEW f \in BOOLEAN, Lock(r, call[r], f),
         UNCHANGED <<credentials, sessions, logins, applied, link, expiries, faults>>,
         call[r].pc # "ended", ~call[r].authRetry,
         call[r].sends <= (IF f THEN MaxRateLimitRetries + 1 ELSE 0),
         f => ~(Untroubled /\ expiries = 0)
  PROVE  IInv'
<1>1. PICK p \in {"login", "locking"} :
        call' = [call EXCEPT ![r] = [call[r] EXCEPT !.pc = p, !.force = f]]
  BY DEF Lock
<1>2. PICK d : d = [call[r] EXCEPT !.pc = p, !.force = f]
  OBVIOUS
<1>3. p \in Phases /\ call[r] \in Calls
  BY OneCall DEF Phases
<1>4. /\ d \in Calls /\ d.pc = p /\ d.force = f
      /\ d.outcome = call[r].outcome /\ d.rate = call[r].rate
      /\ d.sends = call[r].sends /\ d.authRetry = call[r].authRetry
  BY <1>2, <1>3 DEF Calls
<1>5. Counted(d)
  BY <1>4, OneCall DEF Counted
<1>6. r \in Writer => Carries(d, applied'[r])
  BY <1>4, OneCall DEF Carries
<1>7. HasCredentials(d) /\ (Untroubled => Fine(d))
  BY <1>4, OneCall DEF HasCredentials, Fine, Good
<1>8. /\ call' = [call EXCEPT ![r] = d]
      /\ UNCHANGED <<credentials, sessions, logins, link, expiries, faults, applied>>
      /\ applied' \in [Writer -> Nat]
  BY <1>1, <1>2, OneCall
<1> QED
  BY <1>4, <1>5, <1>6, <1>7, <1>8, OneCallStep

LEMMA StartStep == ASSUME IInv, NEW r \in Request, Start(r) PROVE IInv'
<1>1. /\ call[r].pc = "idle" /\ call[r].sends = 0 /\ call[r].rate = 0
      /\ ~call[r].authRetry /\ ~call[r].force
  BY OneCall DEF Start, Counted
<1>2. CASE credentials = 0
  <2>1. Lock(r, call[r], FALSE) /\ UNCHANGED
          <<credentials, sessions, logins, applied, link, expiries, faults>>
    BY <1>2 DEF Start
  <2>2. call[r].pc # "ended" /\ call[r].sends <= 0
    BY <1>1
  <2> QED
    BY <1>1, <2>1, <2>2, LockStep
<1>3. CASE credentials # 0
  <2> DEFINE d == Sent(call[r], credentials)
  <2>1. call' = [call EXCEPT ![r] = d] /\ UNCHANGED
          <<credentials, sessions, logins, link, expiries, faults, applied>>
    BY <1>3 DEF Start
  <2>2. /\ d \in Calls /\ d.pc = "sent" /\ d.with = credentials
        /\ d.sends = 1 /\ d.outcome = call[r].outcome /\ d.rate = 0
        /\ ~d.authRetry /\ ~d.force
    <3>1. call[r] \in Calls /\ credentials \in Nat
      BY OneCall
    <3>2. /\ d \in Calls /\ d.pc = "sent" /\ d.with = credentials
          /\ d.sends = call[r].sends + 1 /\ d.outcome = call[r].outcome
          /\ d.rate = call[r].rate
          /\ d.authRetry = call[r].authRetry /\ d.force = call[r].force
      BY <3>1, SendingCounts
    <3> QED
      BY <1>1, <3>2
  <2> HIDE DEF d
  <2>3. Counted(d)
    BY <2>2, RetriesAreNat DEF Counted, Before
  <2>4. r \in Writer => Carries(d, applied'[r])
    BY <2>1, <2>2, <1>1, OneCall DEF Carries
  <2>5. HasCredentials(d) /\ (Untroubled => Fine(d))
    BY <2>2, <1>3, OneCall DEF HasCredentials, Fine, Good
  <2> QED
    BY <2>1, <2>2, <2>3, <2>4, <2>5, OneCall, OneCallStep
<1> QED
  BY <1>2, <1>3

LEMMA AcquireStep == ASSUME IInv, NEW r \in Request, Acquire(r), call[r].pc = "locking"
                     PROVE IInv'
<1> DEFINE c == call[r]
<1>1. /\ ~c.authRetry /\ c.sends <= (IF c.force THEN MaxRateLimitRetries + 1 ELSE 0)
      /\ c.rate <= MaxRateLimitRetries
  BY OneCall DEF Counted
<1>2. UNCHANGED <<credentials, sessions, logins, link, expiries, faults, applied>>
  BY DEF Acquire
<1>3. CASE credentials # 0 /\ ~c.force
  <2> DEFINE d == Sent(c, credentials)
  <2>1. call' = [call EXCEPT ![r] = d]
    BY <1>3 DEF Acquire
  <2>2. /\ d \in Calls /\ d.pc = "sent" /\ d.with = credentials
        /\ d.sends = c.sends + 1 /\ d.outcome = c.outcome /\ d.rate = c.rate
        /\ ~d.authRetry /\ ~d.force
    <3>1. c \in Calls /\ credentials \in Nat
      BY OneCall
    <3>2. /\ d \in Calls /\ d.pc = "sent" /\ d.with = credentials
          /\ d.sends = c.sends + 1 /\ d.outcome = c.outcome /\ d.rate = c.rate
          /\ d.authRetry = c.authRetry /\ d.force = c.force
      BY <3>1, SendingCounts
    <3> QED
      BY <1>1, <1>3, <3>2
  <2> HIDE DEF d
  <2>3. Counted(d)
    BY <2>2, <1>1, <1>3, OneCall, RetriesAreNat DEF Counted, Before
  <2>4. r \in Writer => Carries(d, applied'[r])
    BY <2>2, <1>2, OneCall DEF Carries
  <2>5. HasCredentials(d) /\ (Untroubled => Fine(d))
    BY <2>2, <1>3, OneCall DEF HasCredentials, Fine, Good
  <2> QED
    BY <2>1, <2>2, <2>3, <2>4, <2>5, <1>2, OneCall, OneCallStep
<1>4. CASE ~(credentials # 0 /\ ~c.force)
  <2> DEFINE d == [c EXCEPT !.pc = "login"]
  <2>1. call' = [call EXCEPT ![r] = d]
    BY <1>4 DEF Acquire
  <2>2. /\ d \in Calls /\ d.pc = "login" /\ d.force = c.force
        /\ d.sends = c.sends /\ d.outcome = c.outcome /\ d.rate = c.rate
        /\ d.authRetry = c.authRetry
    BY OneCall, MovingKeeps DEF Phases
  <2> HIDE DEF d
  <2>3. Counted(d)
    BY <2>2, <1>1 DEF Counted
  <2>4. r \in Writer => Carries(d, applied'[r])
    BY <2>2, <1>2, OneCall DEF Carries
  <2>5. HasCredentials(d) /\ (Untroubled => Fine(d))
    BY <2>2, OneCall DEF HasCredentials, Fine, Good
  <2> QED
    BY <2>1, <2>2, <2>3, <2>4, <2>5, <1>2, OneCall, OneCallStep
<1> QED
  BY <1>3, <1>4

\* After a forced login a request has its attempts a second time.
LEMMA LoggedInStep == ASSUME IInv, NEW r \in Request, LoggedIn(r) PROVE IInv'
<1> DEFINE c == call[r]
           e == Fresh(c)
           d == Sent(e, logins + 1)
<1>1. /\ c \in Calls /\ logins \in Nat /\ sessions \subseteq Nat
      /\ c.pc = "login" /\ ~c.authRetry
      /\ c.sends \in Nat /\ c.sends <= (IF c.force THEN MaxRateLimitRetries + 1 ELSE 0)
  BY OneCall DEF LoggedIn, IInv, Types, Counted
<1>2. /\ call' = [call EXCEPT ![r] = d]
      /\ logins' = logins + 1 /\ credentials' = logins + 1
      /\ sessions' = (IF KeepsSessions THEN sessions ELSE {}) \cup {logins + 1}
      /\ UNCHANGED <<applied, link, expiries, faults>>
  BY DEF LoggedIn
<1>3. c = call[r]
  OBVIOUS
<1>4. e = [c EXCEPT !.authRetry = c.authRetry \/ c.force, !.force = FALSE, !.rate = 0]
  BY DEF Fresh
<1>5. d = Sent(e, logins + 1)
  OBVIOUS
<1> HIDE DEF c, e, d
<1>6. /\ e \in Calls /\ e.rate = 0 /\ e.sends = c.sends /\ e.outcome = c.outcome
      /\ e.authRetry = c.force /\ e.force = FALSE
  BY <1>1, <1>4 DEF Calls
<1>7. /\ d \in Calls /\ d.pc = "sent" /\ d.with = logins + 1 /\ d.sends = c.sends + 1
      /\ d.outcome = c.outcome /\ d.rate = 0 /\ d.authRetry = c.force /\ d.force = FALSE
  <2>1. logins + 1 \in Nat
    BY <1>1
  <2>2. /\ d \in Calls /\ d.pc = "sent" /\ d.with = logins + 1 /\ d.sends = e.sends + 1
        /\ d.outcome = e.outcome /\ d.rate = e.rate
        /\ d.authRetry = e.authRetry /\ d.force = e.force
    BY <2>1, <1>5, <1>6, SendingCounts
  <2> QED
    BY <2>2, <1>6
<1>8. Counted(d)
  <2>1. MaxRateLimitRetries \in Nat
    BY RetriesAreNat
  <2>2. CASE c.force
    BY <2>1, <2>2, <1>1, <1>7 DEF Counted, Before
  <2>3. CASE ~c.force
    BY <2>1, <2>3, <1>1, <1>7 DEF Counted, Before
  <2> QED
    BY <2>2, <2>3
<1>9. r \in Writer => Carries(d, applied'[r])
  BY <1>1, <1>3, <1>7, <1>2, OneCall DEF Carries
<1>10. /\ \A q \in Request : Counted(call'[q])
       /\ \A w \in Writer : Carries(call'[w], applied'[w])
  BY <1>7, <1>2, <1>8, <1>9, CallsStayRight
<1>11. /\ call' \in [Request -> Calls] /\ call'[r] = d
       /\ \A q \in Request : q # r => call'[q] = call[q]
  BY <1>7, <1>2, OneCallChanges DEF IInv
<1>12. Types'
  BY <1>1, <1>2, <1>11 DEF IInv, Types
<1>13. Renewed'
  <2>1. credentials' # 0
    BY <1>1, <1>2
  <2>2. ASSUME Untroubled' PROVE /\ Untroubled /\ sessions \subseteq sessions'
                                 /\ credentials' \in sessions'
    BY <1>2, <2>2 DEF Untroubled
  <2>3. ASSUME Untroubled', NEW q \in Request PROVE Fine(call[q])'
    <3>1. CASE q = r
      <4>1. Fine(c)
        BY <1>3, <2>2, <2>3, OneCall
      <4>2. Good(call[r])'
        BY <1>7, <1>2, <1>11 DEF Good
      <4>3. d.outcome # "auth" /\ (expiries' = 0 => ~d.authRetry /\ ~d.force)
        BY <4>1, <1>7, <1>2 DEF Fine
      <4> QED
        BY <3>1, <4>2, <4>3, <2>2, <2>3, <1>11 DEF Fine
    <3>2. CASE q # r
      <4>1. Fine(call[q]) /\ call'[q] = call[q]
        BY <2>2, <2>3, <3>2, <1>11, OneCall
      <4> QED
        BY <4>1, <2>2, <2>3, <1>2 DEF Fine, Good
    <3> QED
      BY <3>1, <3>2
  <2> QED
    BY <2>1, <2>2, <2>3 DEF Renewed, HasCredentials
<1> QED
  BY <1>10, <1>12, <1>13 DEF IInv, Counted, Carries, Before

LEMMA LoginFailsStep == ASSUME IInv, NEW r \in Request, LoginFails(r) PROVE IInv'
<1>1. PICK d : d = Ended(call[r], "auth")
  OBVIOUS
<1>2. call[r] \in Calls /\ "auth" \in Outcomes
  BY OneCall DEF Outcomes
<1>3. /\ d \in Calls /\ d.pc = "ended" /\ d.outcome = "auth"
      /\ d.sends = call[r].sends /\ d.rate = call[r].rate
      /\ d.authRetry = call[r].authRetry
  BY <1>1, <1>2, EndingKeeps
<1>4. /\ call' = [call EXCEPT ![r] = d] /\ faults' = faults + 1 /\ call[r].pc = "login"
      /\ UNCHANGED <<credentials, sessions, logins, link, expiries, applied>>
  BY <1>1 DEF LoginFails
<1>5. Counted(d)
  BY <1>3, <1>4, OneCall, RetriesAreNat DEF Counted, Before
<1>6. r \in Writer => Carries(d, applied'[r])
  BY <1>3, <1>4, OneCall DEF Carries
<1>7. HasCredentials(d) /\ faults' # 0
  BY <1>3, <1>4 DEF HasCredentials, IInv, Types
<1> QED
  BY <1>3, <1>4, <1>5, <1>6, <1>7, OneCall, OneCallStep

LEMMA UnauthorizedStep == ASSUME IInv, NEW r \in Request, Unauthorized(r) PROVE IInv'
<1> DEFINE c == call[r]
<1>1. /\ c.pc = "sent" /\ c.with \notin sessions
      /\ UNCHANGED <<credentials, sessions, logins, link, expiries, faults, applied>>
  BY DEF Unauthorized
<1>2. Untroubled => ~c.authRetry /\ expiries # 0
  BY <1>1, OneCall DEF Fine, Good
<1>3. c.sends <= Before(c) + c.rate + 1 /\ c.rate <= MaxRateLimitRetries
  BY <1>1, OneCall DEF Counted
<1>4. CASE c.authRetry
  <2>1. PICK d : d = Ended(c, "auth")
    OBVIOUS
  <2>2. c \in Calls /\ "auth" \in Outcomes
    BY OneCall DEF Outcomes
  <2>3. /\ d \in Calls /\ d.pc = "ended" /\ d.outcome = "auth"
        /\ d.sends = c.sends /\ d.rate = c.rate /\ d.authRetry = c.authRetry
    BY <2>1, <2>2, EndingKeeps
  <2>4. call' = [call EXCEPT ![r] = d]
    BY <1>4, <2>1 DEF Unauthorized
  <2>5. Counted(d)
    BY <2>3, <1>3, <1>4, OneCall, RetriesAreNat DEF Counted, Before
  <2>6. r \in Writer => Carries(d, applied'[r])
    BY <2>3, <1>1, OneCall DEF Carries
  <2>7. HasCredentials(d) /\ ~Untroubled
    BY <2>3, <1>2, <1>4 DEF HasCredentials
  <2> QED
    BY <2>3, <2>4, <2>5, <2>6, <2>7, <1>1, OneCall, OneCallStep
<1>5. CASE ~c.authRetry
  <2>1. Lock(r, c, TRUE)
    BY <1>5 DEF Unauthorized
  <2>2. c.sends <= MaxRateLimitRetries + 1
    BY <1>3, <1>5, OneCall, RetriesAreNat DEF Before
  <2> QED
    BY <2>1, <2>2, <1>1, <1>2, <1>5, LockStep
<1> QED
  BY <1>4, <1>5

LEMMA RateLimitedStep == ASSUME IInv, NEW r \in Request, RateLimited(r) PROVE IInv'
<1> DEFINE c == call[r]
<1>1. /\ c.pc = "sent"
      /\ UNCHANGED <<credentials, sessions, logins, link, expiries, faults, applied>>
  BY DEF RateLimited
<1>2. c.sends <= Before(c) + c.rate + 1 /\ c.rate <= MaxRateLimitRetries
  BY <1>1, OneCall DEF Counted
<1>3. c \in Calls /\ "rate" \in Outcomes /\ "sleeping" \in Phases
  BY OneCall DEF Outcomes, Phases
<1>4. CASE c.rate >= MaxRateLimitRetries
  <2>1. PICK d : d = Ended(c, "rate")
    OBVIOUS
  <2>2. /\ d \in Calls /\ d.pc = "ended" /\ d.outcome = "rate" /\ d.force = c.force
        /\ d.sends = c.sends /\ d.rate = c.rate /\ d.authRetry = c.authRetry
    BY <2>1, <1>3, EndingKeeps
  <2>3. call' = [call EXCEPT ![r] = d]
    BY <1>4, <2>1 DEF RateLimited
  <2>4. Counted(d)
    BY <2>2, <1>2, OneCall, RetriesAreNat DEF Counted, Before
  <2>5. r \in Writer => Carries(d, applied'[r])
    BY <2>2, <1>1, OneCall DEF Carries
  <2>6. HasCredentials(d) /\ (Untroubled => Fine(d))
    BY <2>2, OneCall DEF HasCredentials, Fine, Good
  <2> QED
    BY <2>2, <2>3, <2>4, <2>5, <2>6, <1>1, OneCall, OneCallStep
<1>5. CASE ~(c.rate >= MaxRateLimitRetries)
  <2>1. PICK d : d = [c EXCEPT !.pc = "sleeping"]
    OBVIOUS
  <2>2. /\ d \in Calls /\ d.pc = "sleeping" /\ d.outcome = c.outcome /\ d.force = c.force
        /\ d.sends = c.sends /\ d.rate = c.rate /\ d.authRetry = c.authRetry
    BY <2>1, <1>3, MovingKeeps
  <2>3. call' = [call EXCEPT ![r] = d]
    BY <1>5, <2>1 DEF RateLimited
  <2>4. Counted(d)
    BY <2>2, <1>2, <1>5, OneCall, RetriesAreNat DEF Counted, Before
  <2>5. r \in Writer => Carries(d, applied'[r])
    BY <2>2, <1>1, OneCall DEF Carries
  <2>6. HasCredentials(d) /\ (Untroubled => Fine(d))
    BY <2>2, <1>1, OneCall DEF HasCredentials, Fine, Good
  <2> QED
    BY <2>2, <2>3, <2>4, <2>5, <2>6, <1>1, OneCall, OneCallStep
<1> QED
  BY <1>4, <1>5

LEMMA WakeUpStep == ASSUME IInv, NEW r \in Request, WakeUp(r) PROVE IInv'
<1> DEFINE c == call[r]
<1>1. /\ c.pc = "sleeping"
      /\ UNCHANGED <<credentials, sessions, logins, link, expiries, faults, applied>>
  BY DEF WakeUp
<1>2. c.sends <= Before(c) + c.rate + 1 /\ c.rate < MaxRateLimitRetries
  BY <1>1, OneCall DEF Counted
<1>3. c \in Calls /\ c.rate + 1 \in Nat /\ credentials \in Nat /\ credentials # 0
  BY <1>1, OneCall DEF HasCredentials
<1>4. PICK e : e = [c EXCEPT !.rate = c.rate + 1]
  OBVIOUS
<1>5. /\ e \in Calls /\ e.rate = c.rate + 1 /\ e.outcome = c.outcome /\ e.force = c.force
      /\ e.sends = c.sends /\ e.authRetry = c.authRetry
  BY <1>3, <1>4 DEF Calls
<1>6. PICK d : d = Sent(e, credentials)
  OBVIOUS
<1>7. call' = [call EXCEPT ![r] = d]
  BY <1>4, <1>6 DEF WakeUp
<1>8. /\ d \in Calls /\ d.pc = "sent" /\ d.with = credentials /\ d.sends = e.sends + 1
      /\ d.outcome = e.outcome /\ d.rate = e.rate /\ d.authRetry = e.authRetry
      /\ d.force = e.force
  BY <1>3, <1>5, <1>6, SendingCounts
<1>9. Counted(d)
  BY <1>8, <1>5, <1>2, OneCall, RetriesAreNat DEF Counted, Before
<1>10. r \in Writer => Carries(d, applied'[r])
  BY <1>8, <1>5, <1>1, OneCall DEF Carries
<1>11. HasCredentials(d) /\ (Untroubled => Fine(d))
  BY <1>8, <1>5, <1>3, OneCall DEF HasCredentials, Fine, Good
<1> QED
  BY <1>1, <1>7, <1>8, <1>9, <1>10, <1>11, OneCall, OneCallStep

\* A request that ends with an answer, or without one.
LEMMA AnswerStep ==
  ASSUME IInv, NEW r \in Request, NEW o \in Outcomes, call[r].pc = "sent", o # "auth",
         call' = [call EXCEPT ![r] = Ended(@, o)],
         UNCHANGED <<credentials, sessions, logins, link, expiries>>,
         faults' \in {faults, faults + 1},
         applied' \in [Writer -> Nat],
         \A w \in Writer : w # r => applied'[w] = applied[w],
         r \in Writer => applied'[r] \in {0, 1},
         r \in Writer /\ o = "ok" => applied'[r] = 1,
         r \in Writer /\ o \in {"rate", "refused"} => applied'[r] = 0
  PROVE  IInv'
<1> DEFINE c == call[r]
<1>1. PICK d : d = Ended(c, o)
  OBVIOUS
<1>2. c \in Calls
  BY OneCall
<1>3. /\ d \in Calls /\ d.pc = "ended" /\ d.outcome = o /\ d.force = c.force
      /\ d.sends = c.sends /\ d.rate = c.rate /\ d.authRetry = c.authRetry
  BY <1>1, <1>2, EndingKeeps
<1>4. call' = [call EXCEPT ![r] = d]
  BY <1>1
<1>5. Counted(d)
  <2>1. c.sends <= Before(c) + c.rate + 1 /\ c.rate <= MaxRateLimitRetries
    BY OneCall DEF Counted
  <2> QED
    BY <2>1, <1>3, OneCall, RetriesAreNat DEF Counted, Before
<1>6. r \in Writer => Carries(d, applied'[r])
  BY <1>3 DEF Carries
<1>7. HasCredentials(d) /\ (Untroubled => Fine(d))
  BY <1>3, OneCall DEF HasCredentials, Fine, Good
<1> QED
  BY <1>3, <1>4, <1>5, <1>6, <1>7, OneCallStep

\* What BAM may have done when it took a request
LEMMA AtMostOne ==
  ASSUME IInv, NEW r \in Request, call[r].pc = "sent",
         \/ UNCHANGED applied
         \/ r \in Writer /\ applied' = [applied EXCEPT ![r] = @ + 1]
  PROVE  /\ applied' \in [Writer -> Nat]
         /\ \A w \in Writer : w # r => applied'[w] = applied[w]
         /\ r \in Writer => /\ applied[r] = 0
                           /\ applied'[r] \in {0, 1}
<1>1. applied \in [Writer -> Nat] /\ (r \in Writer => applied[r] = 0)
  BY OneCall DEF Carries
<1>2. CASE UNCHANGED applied
  BY <1>1, <1>2
<1>3. CASE r \in Writer /\ applied' = [applied EXCEPT ![r] = @ + 1]
  BY <1>1, <1>3
<1> QED
  BY <1>2, <1>3

LEMMA CarriedStep == ASSUME IInv, NEW r \in Request, Carried(r) PROVE IInv'
<1>1. /\ call[r].pc = "sent" /\ r \in Writer
      /\ UNCHANGED <<credentials, sessions, logins, link, expiries, faults>>
  BY DEF Carried, Accepts
<1>2. CASE applied' = [applied EXCEPT ![r] = @ + 1] /\ call' = [call EXCEPT ![r] = Ended(@, "ok")]
  <2>1. "ok" \in Outcomes
    BY DEF Outcomes
  <2>2. applied[r] = 0 /\ applied \in [Writer -> Nat]
    BY <1>1, OneCall DEF Carries
  <2>3. applied'[r] = 1
    BY <2>2, <1>1, <1>2
  <2> QED
    BY <2>1, <2>3, <1>1, <1>2, AtMostOne, AnswerStep
<1>3. CASE call' = [call EXCEPT ![r] = Ended(@, "refused")] /\ UNCHANGED applied
  <2>1. "refused" \in Outcomes
    BY DEF Outcomes
  <2>2. applied'[r] = 0
    BY <1>1, <1>3, OneCall DEF Carries
  <2> QED
    BY <2>1, <2>2, <1>1, <1>3, AtMostOne, AnswerStep
<1> QED
  BY <1>2, <1>3 DEF Carried

LEMMA LostStep == ASSUME IInv, NEW r \in Request, Lost(r) PROVE IInv'
<1>1. /\ call[r].pc = "sent" /\ call' = [call EXCEPT ![r] = Ended(@, "lost")]
      /\ UNCHANGED <<credentials, sessions, logins, link, expiries>>
      /\ faults' = faults + 1
      /\ \/ UNCHANGED applied
         \/ r \in Writer /\ applied' = [applied EXCEPT ![r] = @ + 1]
  BY DEF Lost, Accepts
<1>2. "lost" \in Outcomes
  BY DEF Outcomes
<1> QED
  BY <1>1, <1>2, AtMostOne, AnswerStep

\* A page that was read ends the walk, or leads to a request of its own, with
\* its own attempts.
LEMMA ReadPageStep == ASSUME IInv, NEW r \in Request, ReadPage(r) PROVE IInv'
<1> DEFINE c == call[r]
           items == c.items \o ItemsOf[PageOf[c.key]]
           next == link[PageOf[c.key]]
<1>1. /\ c.pc = "sent" /\ r \notin Writer
      /\ call' = [call EXCEPT ![r] = WalkOn(c, items, next)]
      /\ UNCHANGED <<credentials, sessions, logins, link, expiries, faults, applied>>
      /\ applied' \in [Writer -> Nat]
  BY LimitAssumption, OneCall DEF ReadPage, Accepts
<1>2. c \in Calls /\ "ok" \in Outcomes /\ credentials \in Nat
  BY OneCall DEF Outcomes
<1>3. items \in Seq(Item) /\ next \in Key \cup {None} /\ c.seen \in SUBSET Key
  <2>1. c.items \in Seq(Item) /\ c.key \in Key /\ PageOf[c.key] \in Page /\ c.seen \in SUBSET Key
    BY <1>2, LimitAssumption DEF Calls
  <2>2. ItemsOf[PageOf[c.key]] \in Seq(Item) /\ link[PageOf[c.key]] \in Key \cup {None}
    BY <2>1, LimitAssumption DEF IInv, Types
  <2> QED
    BY <2>1, <2>2
<1>4. c.sends <= Before(c) + c.rate + 1 /\ c.rate <= MaxRateLimitRetries
  BY <1>1, OneCall DEF Counted
<1> HIDE DEF items, next
<1>5. ASSUME NEW it \in Seq(Item), WalkOn(c, items, next) = Ended([c EXCEPT !.items = it], "ok")
      PROVE  IInv'
  <2>1. PICK e : e = [c EXCEPT !.items = it]
    OBVIOUS
  <2>2. /\ e \in Calls /\ e.rate = c.rate /\ e.force = c.force
        /\ e.sends = c.sends /\ e.authRetry = c.authRetry
    BY <1>2, <2>1 DEF Calls
  <2>3. PICK d : d = Ended(e, "ok")
    OBVIOUS
  <2>4. /\ d \in Calls /\ d.pc = "ended" /\ d.outcome = "ok" /\ d.force = e.force
        /\ d.sends = e.sends /\ d.rate = e.rate /\ d.authRetry = e.authRetry
    BY <1>2, <2>2, <2>3, EndingKeeps
  <2>5. call' = [call EXCEPT ![r] = d]
    BY <1>1, <1>5, <2>1, <2>3
  <2>6. Counted(d)
    BY <2>4, <2>2, <1>4, OneCall, RetriesAreNat DEF Counted, Before
  <2>7. HasCredentials(d) /\ (Untroubled => Fine(d))
    BY <2>4, <2>2, OneCall DEF HasCredentials, Fine, Good
  <2> QED
    BY <1>1, <2>4, <2>5, <2>6, <2>7, OneCallStep
<1>6. ASSUME next \in Key,
             WalkOn(c, items, next) =
               Sent([c EXCEPT !.items = items, !.key = next, !.seen = c.seen \cup {next},
                              !.rate = 0, !.authRetry = FALSE, !.sends = 0], credentials)
      PROVE  IInv'
  <2>1. PICK e : e = [c EXCEPT !.items = items, !.key = next, !.seen = c.seen \cup {next},
                               !.rate = 0, !.authRetry = FALSE, !.sends = 0]
    OBVIOUS
  <2>2. /\ e \in Calls /\ e.rate = 0 /\ e.force = c.force /\ e.outcome = c.outcome
        /\ e.sends = 0 /\ e.authRetry = FALSE
    BY <1>2, <1>3, <1>6, <2>1 DEF Calls
  <2>3. PICK d : d = Sent(e, credentials)
    OBVIOUS
  <2>4. /\ d \in Calls /\ d.pc = "sent" /\ d.with = credentials /\ d.sends = e.sends + 1
        /\ d.outcome = e.outcome /\ d.rate = e.rate /\ d.authRetry = e.authRetry
        /\ d.force = e.force
    BY <1>2, <2>2, <2>3, SendingCounts
  <2>5. call' = [call EXCEPT ![r] = d]
    BY <1>1, <1>6, <2>1, <2>3
  <2>6. Counted(d)
    BY <2>4, <2>2, RetriesAreNat DEF Counted, Before
  <2>7. HasCredentials(d) /\ (Untroubled => Fine(d))
    BY <2>4, <2>2, <1>1, OneCall DEF HasCredentials, Fine, Good
  <2> QED
    BY <1>1, <2>4, <2>5, <2>6, <2>7, OneCallStep
<1>7. CASE MaxItems # 0 /\ Len(items) >= MaxItems
  <2>1. SubSeq(items, 1, MaxItems) \in Seq(Item)
    BY <1>3, <1>7, LimitAssumption
  <2> QED
    BY <2>1, <1>5, <1>7 DEF WalkOn
<1>8. CASE ~(MaxItems # 0 /\ Len(items) >= MaxItems)
  <2>1. CASE next = None \/ Cardinality(c.seen) >= MaxPages \/ next \in c.seen
    BY <2>1, <1>3, <1>5, <1>8 DEF WalkOn
  <2>2. CASE ~(next = None \/ Cardinality(c.seen) >= MaxPages \/ next \in c.seen)
    BY <2>2, <1>3, <1>6, <1>8 DEF WalkOn
  <2> QED
    BY <2>1, <2>2
<1> QED
  BY <1>7, <1>8

LEMMA ExpireStep == ASSUME IInv, Expire PROVE IInv'
<1>1. /\ UNCHANGED <<credentials, logins, call, applied, link, faults>>
      /\ expiries' = expiries + 1 /\ sessions' \subseteq sessions
  BY DEF Expire
<1>2. Types'
  BY <1>1 DEF IInv, Types
<1>3. /\ \A q \in Request : Counted(call'[q])
      /\ \A w \in Writer : Carries(call'[w], applied'[w])
  BY <1>1 DEF IInv
<1>4. Untroubled' => Untroubled /\ expiries = 0
  BY <1>1 DEF Untroubled, IInv, Types
<1>5. expiries' # 0
  BY <1>1 DEF IInv, Types
<1>6. ASSUME NEW q \in Request PROVE HasCredentials(call[q])' /\ (Untroubled' => Fine(call[q])')
  <2>1. HasCredentials(call[q]) /\ (Untroubled => Fine(call[q]))
    BY OneCall
  <2> QED
    BY <2>1, <1>1, <1>4, <1>5 DEF HasCredentials, Fine
<1>7. Renewed'
  BY <1>5, <1>6 DEF Renewed
<1> QED
  BY <1>2, <1>3, <1>7 DEF IInv, Counted, Carries, Before

-----------------------------------------------------------------------------
(***************************************************************************)
(* The lock and the line at it                                             *)
(***************************************************************************)
LEMMA NewPhase ==
  ASSUME NEW c, "pc" \in DOMAIN c, NEW s, NEW o
  PROVE  Sent(c, s).pc = "sent" /\ Ended(c, o).pc = "ended"
BY DEF Sent, Ended

LEMMA LineStays ==
  ASSUME Types, InLine, NEW r \in Request, NEW d, call' = [call EXCEPT ![r] = d],
         call[r].pc # "locking", d.pc # "locking", UNCHANGED queue
  PROVE  InLine'
<1>1. call'[r] = d /\ \A q \in Request : q # r => call'[q] = call[q]
  BY DEF Types
<1>2. \A i \in DOMAIN queue : queue[i] \in Request /\ queue[i] # r
  BY DEF InLine
<1> QED
  BY <1>1, <1>2 DEF InLine

LEMMA HolderStays ==
  ASSUME Types, OneHolder, NEW r \in Request, NEW d, call' = [call EXCEPT ![r] = d],
         call[r].pc # "login", d.pc # "login", UNCHANGED lock
  PROVE  OneHolder'
<1>1. call'[r] = d /\ \A q \in Request : q # r => call'[q] = call[q]
  BY DEF Types
<1> QED
  BY <1>1 DEF OneHolder

LEMMA HolderLeaves ==
  ASSUME Types, OneHolder, NEW r \in Request, NEW d, call' = [call EXCEPT ![r] = d],
         call[r].pc = "login", d.pc # "login", lock' = None
  PROVE  OneHolder'
<1>1. call'[r] = d /\ \A q \in Request : q # r => call'[q] = call[q]
  BY DEF Types
<1>2. None \notin Request
  BY LimitAssumption DEF Request
<1> QED
  BY <1>1, <1>2 DEF OneHolder

LEMMA HolderTakes ==
  ASSUME Types, OneHolder, NEW r \in Request, NEW d, call' = [call EXCEPT ![r] = d],
         lock = None, d.pc = "login", lock' = r
  PROVE  OneHolder'
<1>1. call'[r] = d /\ \A q \in Request : q # r => call'[q] = call[q]
  BY DEF Types
<1>2. None \notin Request
  BY LimitAssumption DEF Request
<1> QED
  BY <1>1, <1>2 DEF OneHolder

LEMMA LineGrows ==
  ASSUME Types, InLine, OneHolder, NEW r \in Request, NEW f \in BOOLEAN,
         Lock(r, call[r], f), call[r].pc \notin {"locking", "login"}
  PROVE  InLine' /\ OneHolder'
<1>1. "pc" \in DOMAIN call[r]
  BY DEF Types, Calls
<1>2. CASE lock = None /\ queue = <<>>
  <2>1. PICK d : d = [call[r] EXCEPT !.pc = "login", !.force = f]
    OBVIOUS
  <2>2. d.pc = "login"
    BY <1>1, <2>1
  <2>3. UNCHANGED queue /\ lock' = r /\ call' = [call EXCEPT ![r] = d]
    BY <1>2, <2>1 DEF Lock
  <2> QED
    BY <1>2, <2>2, <2>3, LineStays, HolderTakes
<1>3. CASE ~(lock = None /\ queue = <<>>)
  <2>1. PICK d : d = [call[r] EXCEPT !.pc = "locking", !.force = f]
    OBVIOUS
  <2>2. d.pc = "locking"
    BY <1>1, <2>1
  <2>3. /\ queue' = Append(queue, r) /\ UNCHANGED lock
        /\ call' = [call EXCEPT ![r] = d]
    BY <1>3, <2>1 DEF Lock
  <2>4. /\ call'[r].pc = "locking"
        /\ \A q \in Request : q # r => call'[q] = call[q]
    BY <2>2, <2>3 DEF Types
  <2>5. \A i \in DOMAIN queue : queue[i] \in Request /\ queue[i] # r
    BY DEF InLine
  <2>6. /\ queue' \in Seq(Request) /\ Len(queue) \in Nat
        /\ DOMAIN queue = 1 .. Len(queue) /\ DOMAIN queue' = 1 .. Len(queue) + 1
        /\ \A i \in 1 .. Len(queue) : queue'[i] = queue[i]
        /\ queue'[Len(queue) + 1] = r
    BY <2>3 DEF InLine
  <2>7. ASSUME NEW i \in DOMAIN queue' PROVE call'[queue'[i]].pc = "locking"
    BY <2>4, <2>5, <2>6 DEF InLine
  <2>8. ASSUME NEW i \in DOMAIN queue', NEW j \in DOMAIN queue', queue'[i] = queue'[j]
        PROVE  i = j
    BY <2>5, <2>6, <2>8 DEF InLine
  <2>9. ASSUME NEW q \in Request, call'[q].pc = "locking"
        PROVE  \E i \in DOMAIN queue' : queue'[i] = q
    <3>1. CASE q = r
      BY <2>6, <3>1
    <3>2. CASE q # r
      <4>1. PICK i \in DOMAIN queue : queue[i] = q
        BY <2>4, <2>9, <3>2 DEF InLine
      <4> QED
        BY <4>1, <2>6
    <3> QED
      BY <3>1, <3>2
  <2>10. InLine'
    BY <2>6, <2>7, <2>8, <2>9 DEF InLine
  <2> QED
    BY <2>2, <2>3, <2>10, HolderStays
<1> QED
  BY <1>2, <1>3

\* Whoever is first in line leaves it, and holds the lock if it is to log in.
LEMMA LineShrinks ==
  ASSUME Types, InLine, OneHolder, NEW r \in Request, Acquire(r)
  PROVE  InLine' /\ OneHolder'
<1>1. /\ queue # <<>> /\ Head(queue) = r /\ queue' = Tail(queue)
      /\ queue \in Seq(Request) /\ lock = None
  BY DEF Acquire, InLine
<1>2. "pc" \in DOMAIN call[r]
  BY DEF Types, Calls
<1>3. call[r].pc = "locking"
  BY <1>1 DEF InLine
<1>4. PICK d : /\ call' = [call EXCEPT ![r] = d]
               /\ \/ d.pc = "sent" /\ UNCHANGED lock
                  \/ d.pc = "login" /\ lock' = r
  <2>1. CASE credentials # 0 /\ ~call[r].force
    <3>1. PICK d : d = Sent(call[r], credentials)
      OBVIOUS
    <3>2. d.pc = "sent"
      BY <1>2, <3>1, NewPhase
    <3>3. call' = [call EXCEPT ![r] = d] /\ UNCHANGED lock
      BY <2>1, <3>1 DEF Acquire
    <3> QED
      BY <3>2, <3>3
  <2>2. CASE ~(credentials # 0 /\ ~call[r].force)
    <3>1. PICK d : d = [call[r] EXCEPT !.pc = "login"]
      OBVIOUS
    <3>2. d.pc = "login"
      BY <1>2, <3>1
    <3>3. call' = [call EXCEPT ![r] = d] /\ lock' = r
      BY <2>2, <3>1 DEF Acquire
    <3> QED
      BY <3>2, <3>3
  <2> QED
    BY <2>1, <2>2
<1>5. call'[r] = d /\ \A q \in Request : q # r => call'[q] = call[q]
  BY <1>4 DEF Types
<1>6. /\ queue' \in Seq(Request) /\ Len(queue) \in Nat \ {0} /\ queue[1] = r
      /\ DOMAIN queue = 1 .. Len(queue) /\ DOMAIN queue' = 1 .. Len(queue) - 1
      /\ \A i \in 1 .. Len(queue) - 1 : queue'[i] = queue[i + 1]
  BY <1>1
<1>7. ASSUME NEW i \in DOMAIN queue' PROVE call'[queue'[i]].pc = "locking"
  <2>1. /\ i + 1 \in DOMAIN queue /\ 1 \in DOMAIN queue /\ i + 1 # 1
        /\ queue'[i] = queue[i + 1]
    BY <1>6
  <2>2. queue[i + 1] # r /\ queue[i + 1] \in Request
    BY <2>1, <1>1, <1>6 DEF InLine
  <2> QED
    BY <2>1, <2>2, <1>5 DEF InLine
<1>8. ASSUME NEW i \in DOMAIN queue', NEW j \in DOMAIN queue', queue'[i] = queue'[j]
      PROVE  i = j
  <2>1. i + 1 \in DOMAIN queue /\ j + 1 \in DOMAIN queue /\ queue[i + 1] = queue[j + 1]
    BY <1>6, <1>8
  <2>2. i + 1 = j + 1
    BY <2>1 DEF InLine
  <2> QED
    BY <2>2, <1>6
<1>9. ASSUME NEW q \in Request, call'[q].pc = "locking"
      PROVE  \E i \in DOMAIN queue' : queue'[i] = q
  <2>1. q # r
    BY <1>4, <1>5, <1>9
  <2>2. PICK i \in DOMAIN queue : queue[i] = q
    BY <2>1, <1>5, <1>9 DEF InLine
  <2>3. i - 1 \in DOMAIN queue' /\ queue'[i - 1] = q
    BY <2>1, <2>2, <1>6
  <2> QED
    BY <2>3
<1>10. InLine'
  BY <1>6, <1>7, <1>8, <1>9 DEF InLine
<1>11. OneHolder'
  BY <1>1, <1>3, <1>4, HolderStays, HolderTakes
<1> QED
  BY <1>10, <1>11

LEMMA LineStep ==
  ASSUME Types, InLine, OneHolder, [Next]_vars PROVE InLine' /\ OneHolder'
<1>1. \A r \in Request : "pc" \in DOMAIN call[r]
  BY DEF Types, Calls
<1>2. ASSUME NEW r \in Request, Start(r) PROVE InLine' /\ OneHolder'
  <2>1. CASE credentials = 0
    BY <1>2, <2>1, LineGrows DEF Start
  <2>2. CASE credentials # 0
    BY <1>1, <1>2, <2>2, NewPhase, LineStays, HolderStays DEF Start
  <2> QED
    BY <2>1, <2>2
<1>3. ASSUME NEW r \in Request, Acquire(r) PROVE InLine' /\ OneHolder'
  BY <1>3, LineShrinks
<1>4. ASSUME NEW r \in Request, LoggedIn(r) PROVE InLine' /\ OneHolder'
  <2>1. "pc" \in DOMAIN Fresh(call[r])
    BY <1>1 DEF Fresh
  <2> QED
    BY <1>4, <2>1, NewPhase, LineStays, HolderLeaves DEF LoggedIn
<1>5. ASSUME NEW r \in Request, LoginFails(r) PROVE InLine' /\ OneHolder'
  BY <1>1, <1>5, NewPhase, LineStays, HolderLeaves DEF LoginFails
<1>6. ASSUME NEW r \in Request, Unauthorized(r) PROVE InLine' /\ OneHolder'
  <2>1. CASE call[r].authRetry
    BY <1>1, <1>6, <2>1, NewPhase, LineStays, HolderStays DEF Unauthorized
  <2>2. CASE ~call[r].authRetry
    BY <1>6, <2>2, LineGrows DEF Unauthorized
  <2> QED
    BY <2>1, <2>2
<1>7. ASSUME NEW r \in Request, RateLimited(r) PROVE InLine' /\ OneHolder'
  <2>1. PICK d : /\ call' = [call EXCEPT ![r] = d] /\ d.pc \in {"ended", "sleeping"}
    <3>1. CASE call[r].rate >= MaxRateLimitRetries
      BY <1>1, <1>7, <3>1, NewPhase DEF RateLimited
    <3>2. CASE ~(call[r].rate >= MaxRateLimitRetries)
      <4>1. PICK d : d = [call[r] EXCEPT !.pc = "sleeping"]
        OBVIOUS
      <4>2. d.pc = "sleeping"
        BY <1>1, <4>1
      <4>3. call' = [call EXCEPT ![r] = d]
        BY <1>7, <3>2, <4>1 DEF RateLimited
      <4> QED
        BY <4>2, <4>3
    <3> QED
      BY <3>1, <3>2
  <2> QED
    BY <1>7, <2>1, LineStays, HolderStays DEF RateLimited
<1>8. ASSUME NEW r \in Request, WakeUp(r) PROVE InLine' /\ OneHolder'
  <2>1. PICK e : e = [call[r] EXCEPT !.rate = call[r].rate + 1]
    OBVIOUS
  <2>2. "pc" \in DOMAIN e /\ call' = [call EXCEPT ![r] = Sent(e, credentials)]
    BY <1>1, <1>8, <2>1 DEF WakeUp
  <2>3. PICK d : d = Sent(e, credentials)
    OBVIOUS
  <2>4. d.pc = "sent" /\ call' = [call EXCEPT ![r] = d]
    BY <2>2, <2>3, NewPhase
  <2>5. call[r].pc = "sleeping" /\ UNCHANGED queue /\ UNCHANGED lock
    BY <1>8 DEF WakeUp
  <2>6. InLine'
    BY <2>4, <2>5, LineStays
  <2>7. OneHolder'
    BY <2>4, <2>5, HolderStays
  <2> QED
    BY <2>6, <2>7
<1>9. ASSUME NEW r \in Request, Carried(r) PROVE InLine' /\ OneHolder'
  BY <1>1, <1>9, NewPhase, LineStays, HolderStays DEF Carried, Accepts
<1>10. ASSUME NEW r \in Request, Lost(r) PROVE InLine' /\ OneHolder'
  BY <1>1, <1>10, NewPhase, LineStays, HolderStays DEF Lost, Accepts
<1>11. ASSUME NEW r \in Request, ReadPage(r) PROVE InLine' /\ OneHolder'
  <2>1. PICK it, nx : call' = [call EXCEPT ![r] = WalkOn(call[r], it, nx)]
    BY <1>11 DEF ReadPage
  <2>2. WalkOn(call[r], it, nx).pc \in {"ended", "sent"}
    BY <1>1, NewPhase DEF WalkOn
  <2> QED
    BY <1>11, <2>1, <2>2, LineStays, HolderStays DEF ReadPage, Accepts
<1>12. ASSUME Expire \/ UNCHANGED vars PROVE InLine' /\ OneHolder'
  BY <1>12 DEF Expire, vars, InLine, OneHolder
<1> QED
  BY <1>2, <1>3, <1>4, <1>5, <1>6, <1>7, <1>8, <1>9, <1>10, <1>11, <1>12 DEF Next, Step

LEMMA NumberedStep == ASSUME Types, Numbered, [Next]_vars PROVE Numbered'
<1>1. CASE UNCHANGED <<credentials, logins>> /\ sessions' \subseteq sessions
  BY <1>1 DEF Numbered
<1>2. ASSUME NEW r \in Request, LoggedIn(r) PROVE Numbered'
  BY <1>2 DEF LoggedIn, Numbered, Types
<1> QED
  BY <1>1, <1>2 DEF Next, Step, Expire, vars, Start, Acquire, LoginFails, Unauthorized,
     RateLimited, WakeUp, Carried, Lost, ReadPage

-----------------------------------------------------------------------------
(***************************************************************************)
(* The invariant, and what follows from it                                 *)
(***************************************************************************)
LEMMA InitEstablishes == Init => IInv /\ LockInv
<1> SUFFICES ASSUME Init PROVE IInv /\ LockInv
  OBVIOUS
<1>1. /\ NewCall \in Calls /\ NewCall.pc = "idle" /\ NewCall.outcome = None
      /\ NewCall.sends = 0 /\ NewCall.rate = 0 /\ ~NewCall.authRetry /\ ~NewCall.force
  <2>1. <<>> \in Seq(Item) /\ First \in Key
    BY LimitAssumption
  <2> QED
    BY <2>1 DEF NewCall, Calls, Phases
<1>2. \A r \in Request : call[r] = NewCall
  BY DEF Init
<1>3. Types
  <2>1. link \in [Page -> Key \cup {None}]
    BY LimitAssumption DEF Init
  <2> QED
    BY <1>1, <2>1 DEF Init, Types
<1>4. \A r \in Request : Counted(call[r])
  BY <1>1, <1>2, LimitAssumption DEF Counted
<1>5. \A r \in Writer : Carries(call[r], applied[r])
  BY <1>1, <1>2, LimitAssumption DEF Carries, Init, Request
<1>6. Renewed
  <2>1. \A r \in Request : HasCredentials(call[r]) /\ Fine(call[r])
    BY <1>1, <1>2, LimitAssumption DEF HasCredentials, Fine, Good
  <2>2. credentials # 0 => credentials \in sessions
    BY DEF Init
  <2> QED
    BY <2>1, <2>2 DEF Renewed
<1>7. LockInv
  <2>1. InLine
    BY <1>1, <1>2 DEF Init, InLine
  <2>2. None \notin Request
    BY LimitAssumption DEF Request
  <2>3. OneHolder
    BY <1>1, <1>2, <2>2 DEF Init, OneHolder
  <2>4. Numbered
    BY DEF Init, Numbered
  <2> QED
    BY <2>1, <2>3, <2>4 DEF LockInv
<1> QED
  BY <1>3, <1>4, <1>5, <1>6, <1>7 DEF IInv

LEMMA StepPreserves == ASSUME IInv, LockInv, [Next]_vars PROVE IInv' /\ LockInv'
<1>1. ASSUME NEW r \in Request, Acquire(r) PROVE IInv'
  <2>1. call[r].pc = "locking"
    BY <1>1 DEF Acquire, LockInv, InLine
  <2> QED
    BY <1>1, <2>1, AcquireStep
<1>2. ASSUME NEW r \in Request, Step(r) PROVE IInv'
  BY <1>1, <1>2, StartStep, LoggedInStep, LoginFailsStep, UnauthorizedStep, RateLimitedStep,
     WakeUpStep, CarriedStep, LostStep, ReadPageStep DEF Step
<1>3. ASSUME UNCHANGED vars PROVE IInv'
  BY <1>3 DEF vars, IInv, Types, Counted, Carries, Before, Renewed, HasCredentials, Fine,
     Good, Untroubled
<1>4. IInv'
  BY <1>2, <1>3, ExpireStep DEF Next
<1>5. LockInv'
  BY LineStep, NumberedStep DEF IInv, LockInv
<1> QED
  BY <1>4, <1>5

\* What every request has used up, what BAM did for it and which credentials
\* are good, is as stated in every state, whatever fails and however the
\* requests interleave.
THEOREM ClientInvariant == Spec => [](IInv /\ LockInv)
<1>1. Init => IInv /\ LockInv
  BY InitEstablishes
<1>2. IInv /\ LockInv /\ [Next]_vars => (IInv /\ LockInv)'
  BY StepPreserves
<1> QED
  BY <1>1, <1>2, PTL DEF Spec

\* The lock has an owner, that is logging in, exactly when it is taken, and in
\* line for it is everybody who waits for it, once.
THEOREM ClientTypes == Spec => []TypeOK
<1>1. ASSUME IInv, LockInv PROVE TypeOK
  <2> DEFINE waiting == {r \in Request : call[r].pc = "locking"}
  <2>1. {r \in Request : call[r].pc = "login"} = IF lock = None THEN {} ELSE {lock}
    BY <1>1, LimitAssumption DEF LockInv, OneHolder, Request
  <2>2. {queue[i] : i \in DOMAIN queue} = waiting
    BY <1>1 DEF LockInv, InLine
  <2>3. /\ DOMAIN queue = 1 .. Len(queue) /\ Len(queue) \in Nat
        /\ queue \in [1 .. Len(queue) -> Request]
    BY <1>1 DEF LockInv, InLine
  <2>4. queue \in Bijection(1 .. Len(queue), waiting)
    BY <1>1, <2>2, <2>3 DEF LockInv, InLine, Bijection, Injection, IsInjective, Surjection
  <2>5. Len(queue) = Cardinality(waiting)
    <3>1. /\ IsFiniteSet(1 .. Len(queue))
          /\ Cardinality(1 .. Len(queue)) = Len(queue)
      BY <2>3, FS_Interval
    <3>2. ExistsBijection(1 .. Len(queue), waiting)
      BY <2>4 DEF ExistsBijection
    <3> HIDE DEF waiting
    <3> QED
      BY <3>1, <3>2, FS_Bijection
  <2> QED
    BY <1>1, <2>1, <2>2, <2>5 DEF TypeOK, LockInv, Numbered
<1> QED
  BY <1>1, ClientInvariant, PTL

\* A write is carried out at most once, once when it succeeds, and never when
\* it was refused, limited or not authenticated: request() sends it again only
\* when BAM has not taken it.
THEOREM WritesHappenOnce == Spec => []AppliedAtMostOnce
<1>1. IInv => AppliedAtMostOnce
  BY DEF IInv, Carries, AppliedAtMostOnce
<1> QED
  BY <1>1, ClientInvariant, PTL

\* A request is sent at most once more than the waits it is allowed, and twice
\* that often when its session had ended on the way.
THEOREM AttemptsAreBounded == Spec => []SendsAreBounded
<1>1. ASSUME IInv, NEW r \in Request
      PROVE  call[r].sends <= (IF call[r].authRetry THEN 2 ELSE 1) * (MaxRateLimitRetries + 1)
  <2>1. /\ call[r].pc \in Phases /\ call[r].rate <= MaxRateLimitRetries
        /\ MaxRateLimitRetries \in Nat
    BY <1>1, OneCall, RetriesAreNat DEF Counted, Calls
  <2>2. call[r].sends <= Before(call[r]) + MaxRateLimitRetries + 1
    BY <1>1, <2>1, OneCall DEF Counted, Before, Phases
  <2>3. CASE call[r].authRetry
    BY <1>1, <2>1, <2>2, <2>3, OneCall DEF Before
  <2>4. CASE ~call[r].authRetry
    BY <1>1, <2>1, <2>2, <2>4, OneCall DEF Before
  <2> QED
    BY <2>3, <2>4, OneCall
<1>2. IInv => SendsAreBounded
  BY <1>1 DEF SendsAreBounded
<1> QED
  BY <1>2, ClientInvariant, PTL

\* While BAM keeps the sessions before a login and every login succeeds, the end
\* of one session is unnoticed by the callers: any number of requests that were
\* sent with it log in again, in any order, and none reports that it failed.
THEOREM ExpiryIsSurvived == Spec => []OneExpiryFailsNothing
<1>1. IInv => OneExpiryFailsNothing
  BY DEF IInv, Renewed, Untroubled, Fine, OneExpiryFailsNothing
<1> QED
  BY <1>1, ClientInvariant, PTL

-----------------------------------------------------------------------------
(***************************************************************************)
(* The walks, get_all_pages(): for any pages and links, and whatever       *)
(* befalls the requests on the way, a walk has asked for the keys from the *)
(* first to the present one, each of them once, and has the items of the   *)
(* pages before the present one as often as it has asked for them.         *)
(***************************************************************************)
\* How often a page has an item: once, if it does
Has(k, x) == \E i \in DOMAIN ItemsOf[PageOf[k]] : ItemsOf[PageOf[k]][i] = x

\* The keys before the present one were answered: the items of their pages are
\* there, and the link of each leads to a key that was asked for.
OnItsWay(c) ==
    /\ c.outcome = None
    /\ First \in c.seen /\ c.key \in c.seen /\ c.seen \subseteq Reached
    /\ \A k \in c.seen \ {c.key} : After(k) # None /\ After(k) \in c.seen
    /\ \A x \in Item : Times(x, c.items) = Cardinality(KeysOf(x, c.seen \ {c.key}))

\* A walk that succeeded has read everything, or came to one of its limits.
Complete(c) ==
    \/ \A x \in Item : Times(x, c.items) = Cardinality(KeysOf(x, Reached))
    \/ MaxItems # 0 /\ Len(c.items) = MaxItems
    \/ MaxPages < Cardinality(Reached)

\* No item is there more often than there are keys for its page.
Bounded(s) == \A x \in Item : Times(x, s) <= Cardinality(KeysOf(x, Reached))

Walks(c) ==
    /\ Bounded(c.items)
    /\ c.pc # "ended" => OnItsWay(c)
    /\ c.outcome = "ok" => Complete(c)
WalkInv == \A r \in Walker : Walks(call[r])

-----------------------------------------------------------------------------
(***************************************************************************)
(* Keys, pages and items                                                   *)
(***************************************************************************)
LEMMA ReachedKeys == Reached \subseteq Key
BY DEF Reached

LEMMA FirstIsReached == First \in Reached
BY LimitAssumption DEF Reached

LEMMA ReachedIsClosed ==
  ASSUME Types, NEW k \in Reached, After(k) # None
  PROVE  After(k) \in Reached
<1>1. k \in Key /\ After(k) \in Key
  BY ReachedKeys, LimitAssumption DEF Types, After
<1>2. ASSUME NEW keys \in SUBSET Key, First \in keys, Closed(keys)
      PROVE  After(k) \in keys
  BY <1>2 DEF Reached, Closed
<1> QED
  BY <1>1, <1>2 DEF Reached

\* Nothing that follows its own links from the first key leaves out a key.
LEMMA ClosedIsAll ==
  ASSUME NEW keys \in SUBSET Key, First \in keys, Closed(keys), keys \subseteq Reached
  PROVE  keys = Reached
BY DEF Reached

\* Keys and places are finitely many.
LEMMA KeysAreFinite ==
  ASSUME NEW keys \in SUBSET Key, NEW x
  PROVE  /\ IsFiniteSet(keys) /\ Cardinality(keys) \in Nat
         /\ IsFiniteSet(KeysOf(x, keys)) /\ Cardinality(KeysOf(x, keys)) \in Nat
<1>1. IsFiniteSet(Key)
  BY PageAssumption
<1>2. keys \subseteq Key /\ KeysOf(x, keys) \subseteq Key
  BY DEF KeysOf
<1>3. IsFiniteSet(keys) /\ IsFiniteSet(KeysOf(x, keys))
  BY <1>1, <1>2, FS_Subset
<1> QED
  BY <1>3, FS_CardinalityType

Places(x, s) == {i \in DOMAIN s : s[i] = x}

LEMMA PlacesAreFinite ==
  ASSUME NEW s \in Seq(Item), NEW x
  PROVE  IsFiniteSet(Places(x, s)) /\ Times(x, s) = Cardinality(Places(x, s)) /\ Times(x, s) \in Nat
<1>1. DOMAIN s = 1 .. Len(s) /\ Len(s) \in Nat
  OBVIOUS
<1>2. IsFiniteSet(DOMAIN s)
  BY <1>1, FS_Interval
<1>3. IsFiniteSet(Places(x, s))
  BY <1>2, FS_Subset DEF Places
<1>4. Times(x, s) = Cardinality(Places(x, s))
  BY DEF Times, Places
<1> QED
  BY <1>3, <1>4, FS_CardinalityType

\* Among fewer keys there are fewer of one page.
LEMMA FewerKeys ==
  ASSUME NEW keys \in SUBSET Key, NEW more \in SUBSET Key, keys \subseteq more, NEW x
  PROVE  Cardinality(KeysOf(x, keys)) <= Cardinality(KeysOf(x, more))
<1>1. IsFiniteSet(KeysOf(x, more))
  BY KeysAreFinite
<1>2. KeysOf(x, keys) \subseteq KeysOf(x, more)
  BY DEF KeysOf
<1> QED
  BY <1>1, <1>2, FS_Subset

\* One more key counts for the items of its page.
LEMMA OneKeyMore ==
  ASSUME NEW keys \in SUBSET Key, NEW k \in Key, k \notin keys, NEW x
  PROVE  Cardinality(KeysOf(x, keys \cup {k}))
           = Cardinality(KeysOf(x, keys)) + (IF Has(k, x) THEN 1 ELSE 0)
<1>1. IsFiniteSet(KeysOf(x, keys)) /\ Cardinality(KeysOf(x, keys)) \in Nat
  BY KeysAreFinite
<1>2. CASE Has(k, x)
  <2>1. KeysOf(x, keys \cup {k}) = KeysOf(x, keys) \cup {k} /\ k \notin KeysOf(x, keys)
    BY <1>2 DEF KeysOf, Has
  <2> QED
    BY <1>1, <1>2, <2>1, FS_AddElement
<1>3. CASE ~Has(k, x)
  <2>1. KeysOf(x, keys \cup {k}) = KeysOf(x, keys)
    BY <1>3 DEF KeysOf, Has
  <2> QED
    BY <1>1, <1>3, <2>1
<1> QED
  BY <1>2, <1>3

\* The items of a page come once each to those that are there.
LEMMA OnePageMore ==
  ASSUME NEW s \in Seq(Item), NEW k \in Key, NEW x \in Item
  PROVE  /\ s \o ItemsOf[PageOf[k]] \in Seq(Item)
         /\ Times(x, s \o ItemsOf[PageOf[k]]) = Times(x, s) + (IF Has(k, x) THEN 1 ELSE 0)
<1> DEFINE t == ItemsOf[PageOf[k]]
           u == s \o t
<1>1. t \in Seq(Item) /\ PageOf[k] \in Page
  BY LimitAssumption
<1>2. \A i, j \in DOMAIN t : t[i] = t[j] => i = j
  BY <1>1, PageAssumption
<1>3. Has(k, x) <=> \E i \in DOMAIN t : t[i] = x
  BY DEF Has
<1> HIDE DEF t
<1>4. /\ u \in Seq(Item) /\ Len(u) = Len(s) + Len(t)
      /\ DOMAIN u = 1 .. Len(u) /\ DOMAIN s = 1 .. Len(s) /\ DOMAIN t = 1 .. Len(t)
      /\ Len(s) \in Nat /\ Len(t) \in Nat
      /\ \A i \in DOMAIN s : i \in DOMAIN u /\ u[i] = s[i]
      /\ \A i \in DOMAIN u : i \notin DOMAIN s => i - Len(s) \in DOMAIN t /\ u[i] = t[i - Len(s)]
      /\ \A i \in DOMAIN t : i + Len(s) \in DOMAIN u /\ u[i + Len(s)] = t[i]
  BY <1>1
<1> HIDE DEF u
<1>5. /\ IsFiniteSet(Places(x, s)) /\ Times(x, s) = Cardinality(Places(x, s))
      /\ Times(x, s) \in Nat /\ Times(x, u) = Cardinality(Places(x, u))
  BY <1>4, PlacesAreFinite
<1>6. CASE Has(k, x)
  <2>1. PICK j \in DOMAIN t : t[j] = x
    BY <1>3, <1>6
  <2>2. j + Len(s) \notin Places(x, s)
    BY <1>4 DEF Places
  <2>3. Places(x, s) \cup {j + Len(s)} \subseteq Places(x, u)
    BY <1>4, <2>1 DEF Places
  <2>4. ASSUME NEW i \in Places(x, u), i \notin DOMAIN s PROVE i = j + Len(s)
    <3>1. i \in DOMAIN u /\ u[i] = x
      BY DEF Places
    <3>2. i - Len(s) \in DOMAIN t /\ t[i - Len(s)] = x
      BY <1>4, <2>4, <3>1
    <3>3. i - Len(s) = j
      BY <1>2, <2>1, <3>2
    <3> QED
      BY <1>4, <3>1, <3>3
  <2>5. ASSUME NEW i \in Places(x, u), i \in DOMAIN s PROVE i \in Places(x, s)
    BY <1>4, <2>5 DEF Places
  <2>6. Places(x, u) = Places(x, s) \cup {j + Len(s)}
    BY <2>3, <2>4, <2>5
  <2>7. Cardinality(Places(x, u)) = Cardinality(Places(x, s)) + 1
    BY <1>5, <2>2, <2>6, FS_AddElement
  <2> QED
    BY <1>4, <1>5, <1>6, <2>7 DEF u, t
<1>7. CASE ~Has(k, x)
  <2>1. \A i \in DOMAIN t : t[i] # x
    BY <1>3, <1>7
  <2>2. Places(x, s) \subseteq Places(x, u)
    BY <1>4 DEF Places
  <2>3. ASSUME NEW i \in Places(x, u) PROVE i \in Places(x, s)
    <3>1. i \in DOMAIN u /\ u[i] = x
      BY DEF Places
    <3>2. i \in DOMAIN s
      BY <1>4, <2>1, <3>1
    <3> QED
      BY <1>4, <3>1, <3>2 DEF Places
  <2>4. Places(x, u) = Places(x, s)
    BY <2>2, <2>3
  <2>5. Times(x, u) = Times(x, s)
    BY <1>5, <2>4
  <2> QED
    BY <1>4, <1>5, <1>7, <2>5 DEF u, t
<1> QED
  BY <1>6, <1>7

\* The items of a page whose key was not asked for before.
LEMMA NewItems ==
  ASSUME NEW s \in Seq(Item), NEW keys \in SUBSET Key, NEW k \in Key, k \notin keys,
         \A x \in Item : Times(x, s) = Cardinality(KeysOf(x, keys))
  PROVE  /\ s \o ItemsOf[PageOf[k]] \in Seq(Item)
         /\ \A x \in Item : Times(x, s \o ItemsOf[PageOf[k]]) = Cardinality(KeysOf(x, keys \cup {k}))
<1>1. s \o ItemsOf[PageOf[k]] \in Seq(Item)
  BY LimitAssumption
<1>2. ASSUME NEW x \in Item
      PROVE  Times(x, s \o ItemsOf[PageOf[k]]) = Cardinality(KeysOf(x, keys \cup {k}))
  BY OnePageMore, OneKeyMore
<1> QED
  BY <1>1, <1>2

\* A part of a sequence has nothing more often than the whole.
LEMMA FewerTimes ==
  ASSUME NEW s \in Seq(Item), NEW t \in Seq(Item),
         \A i \in DOMAIN t : i \in DOMAIN s /\ t[i] = s[i], Bounded(s)
  PROVE  Bounded(t)
<1> SUFFICES ASSUME NEW x \in Item PROVE Times(x, t) <= Cardinality(KeysOf(x, Reached))
  BY DEF Bounded
<1>1. Places(x, t) \subseteq Places(x, s)
  BY DEF Places
<1>2. /\ IsFiniteSet(Places(x, s)) /\ Times(x, s) = Cardinality(Places(x, s))
      /\ Times(x, t) = Cardinality(Places(x, t)) /\ Times(x, s) \in Nat /\ Times(x, t) \in Nat
  BY PlacesAreFinite
<1>3. Times(x, t) <= Times(x, s)
  BY <1>1, <1>2, FS_Subset
<1>4. Times(x, s) <= Cardinality(KeysOf(x, Reached))
  BY DEF Bounded
<1>5. Cardinality(KeysOf(x, Reached)) \in Nat
  BY ReachedKeys, KeysAreFinite
<1> QED
  BY <1>2, <1>3, <1>4, <1>5
-----------------------------------------------------------------------------
(***************************************************************************)
(* A request that does not end a page leaves the walk where it is          *)
(***************************************************************************)
Keeps(c, d) ==
    /\ d.key = c.key /\ d.seen = c.seen /\ d.items = c.items
    /\ \/ d.outcome = c.outcome
       \/ d.pc = "ended" /\ d.outcome # "ok"

LEMMA KeptWalk ==
  ASSUME NEW c \in Calls, NEW d \in Calls, Walks(c), c.pc # "ended", Keeps(c, d)
  PROVE  Walks(d)
<1>1. c.outcome = None /\ None # "ok" /\ OnItsWay(c)
  BY LimitAssumption DEF Walks, OnItsWay
<1>2. d.outcome # "ok"
  BY <1>1 DEF Keeps
<1>3. d.pc # "ended" => OnItsWay(d)
  BY <1>1 DEF Keeps, OnItsWay
<1> QED
  BY <1>2, <1>3 DEF Walks, Keeps

LEMMA SentKeeps ==
  ASSUME NEW c \in Calls, NEW s \in Nat
  PROVE  Sent(c, s) \in Calls /\ Keeps(c, Sent(c, s))
<1>1. Sent(c, s) \in Calls /\ Sent(c, s).outcome = c.outcome
  BY SendingCounts
<1>2. Sent(c, s).key = c.key /\ Sent(c, s).seen = c.seen /\ Sent(c, s).items = c.items
  BY DEF Sent, Calls
<1> QED
  BY <1>1, <1>2 DEF Keeps

LEMMA EndedKeeps ==
  ASSUME NEW c \in Calls, NEW o \in Outcomes \ {"ok"}
  PROVE  Ended(c, o) \in Calls /\ Keeps(c, Ended(c, o))
BY EndingKeeps DEF Ended, Calls, Keeps

\* To the lock or in line for it, on to a login, asleep
LEMMA MovedKeeps ==
  ASSUME NEW c \in Calls, NEW p \in Phases, NEW f \in BOOLEAN
  PROVE  LET d == [c EXCEPT !.pc = p, !.force = f] IN d \in Calls /\ Keeps(c, d)
BY DEF Calls, Keeps

LEMMA PhaseKeeps ==
  ASSUME NEW c \in Calls, NEW p \in Phases
  PROVE  LET d == [c EXCEPT !.pc = p] IN d \in Calls /\ Keeps(c, d)
BY DEF Calls, Keeps

\* A request with its counts set anew walks on as before when it is sent.
LEMMA RenewedKeeps ==
  ASSUME NEW c \in Calls, NEW e \in Calls, NEW s \in Nat,
         e.key = c.key, e.seen = c.seen, e.items = c.items, e.outcome = c.outcome
  PROVE  Sent(e, s) \in Calls /\ Keeps(c, Sent(e, s))
BY SentKeeps DEF Keeps

LEMMA LockKeeps ==
  ASSUME IInv, NEW r \in Request, NEW f \in BOOLEAN, Lock(r, call[r], f)
  PROVE  \E d \in Calls : call' = [call EXCEPT ![r] = d] /\ Keeps(call[r], d)
<1>1. PICK p \in {"login", "locking"} :
        call' = [call EXCEPT ![r] = [call[r] EXCEPT !.pc = p, !.force = f]]
  BY DEF Lock
<1>2. call[r] \in Calls /\ p \in Phases
  BY OneCall DEF Phases
<1> QED
  BY <1>1, <1>2, MovedKeeps

\* What the actions but ReadPage do to the request of a walk.
LEMMA StepKeeps ==
  ASSUME IInv, LockInv, NEW r \in Walker, Step(r), ~ReadPage(r)
  PROVE  /\ call[r].pc # "ended"
         /\ \E d \in Calls : call' = [call EXCEPT ![r] = d] /\ Keeps(call[r], d)
<1> DEFINE c == call[r]
           Goal == /\ c.pc # "ended"
                   /\ \E d \in Calls : call' = [call EXCEPT ![r] = d] /\ Keeps(c, d)
<1>1. /\ r \in Request /\ r \notin Writer /\ c \in Calls /\ credentials \in Nat
      /\ logins \in Nat /\ {"auth", "rate", "lost"} \subseteq Outcomes \ {"ok"}
      /\ {"login", "sleeping"} \subseteq Phases
  BY LimitAssumption, OneCall DEF Request, IInv, Types, Outcomes, Phases
<1>2. CASE Start(r)
  <2>1. CASE credentials = 0
    BY <1>1, <1>2, <2>1, LockKeeps DEF Start
  <2>2. CASE credentials # 0
    BY <1>1, <1>2, <2>2, SentKeeps DEF Start
  <2> QED
    BY <2>1, <2>2
<1>3. CASE Acquire(r)
  <2>1. c.pc = "locking"
    BY <1>3 DEF Acquire, LockInv, InLine
  <2>2. CASE credentials # 0 /\ ~c.force
    BY <1>1, <1>3, <2>1, <2>2, SentKeeps DEF Acquire
  <2>3. CASE ~(credentials # 0 /\ ~c.force)
    BY <1>1, <1>3, <2>1, <2>3, PhaseKeeps DEF Acquire
  <2> QED
    BY <2>2, <2>3
<1>4. CASE LoggedIn(r)
  <2>1. PICK e : e = Fresh(c)
    OBVIOUS
  <2>2. /\ e \in Calls
        /\ e.key = c.key /\ e.seen = c.seen /\ e.items = c.items /\ e.outcome = c.outcome
    BY <1>1, <2>1 DEF Fresh, Calls
  <2>3. c.pc = "login" /\ call' = [call EXCEPT ![r] = Sent(e, logins + 1)]
    BY <1>4, <2>1 DEF LoggedIn
  <2>4. logins + 1 \in Nat
    BY <1>1
  <2> QED
    BY <1>1, <2>2, <2>3, <2>4, RenewedKeeps
<1>5. CASE LoginFails(r)
  BY <1>1, <1>5, EndedKeeps DEF LoginFails
<1>6. CASE Unauthorized(r)
  <2>1. CASE c.authRetry
    BY <1>1, <1>6, <2>1, EndedKeeps DEF Unauthorized
  <2>2. CASE ~c.authRetry
    BY <1>1, <1>6, <2>2, LockKeeps DEF Unauthorized
  <2> QED
    BY <2>1, <2>2
<1>7. CASE RateLimited(r)
  <2>1. CASE c.rate >= MaxRateLimitRetries
    BY <1>1, <1>7, <2>1, EndedKeeps DEF RateLimited
  <2>2. CASE ~(c.rate >= MaxRateLimitRetries)
    BY <1>1, <1>7, <2>2, PhaseKeeps DEF RateLimited
  <2> QED
    BY <2>1, <2>2
<1>8. CASE WakeUp(r)
  <2>1. PICK e : e = [c EXCEPT !.rate = c.rate + 1]
    OBVIOUS
  <2>2. c.rate + 1 \in Nat
    BY <1>1, OneCall
  <2>3. /\ e \in Calls
        /\ e.key = c.key /\ e.seen = c.seen /\ e.items = c.items /\ e.outcome = c.outcome
    BY <1>1, <2>1, <2>2 DEF Calls
  <2>4. c.pc = "sleeping" /\ call' = [call EXCEPT ![r] = Sent(e, credentials)]
    BY <1>8, <2>1 DEF WakeUp
  <2> QED
    BY <1>1, <2>3, <2>4, RenewedKeeps
<1>9. CASE Carried(r)
  BY <1>1, <1>9 DEF Carried
<1>10. CASE Lost(r)
  BY <1>1, <1>10, EndedKeeps DEF Lost, Accepts
<1> QED
  BY <1>2, <1>3, <1>4, <1>5, <1>6, <1>7, <1>8, <1>9, <1>10 DEF Step
-----------------------------------------------------------------------------
(***************************************************************************)
(* Reading a page                                                          *)
(***************************************************************************)
\* When the last link leads nowhere or back, all that can be reached was read.
LEMMA NothingMissing ==
  ASSUME NEW c \in Calls, OnItsWay(c), After(c.key) = None \/ After(c.key) \in c.seen
  PROVE  c.seen = Reached
<1>1. c.seen \in SUBSET Key /\ First \in c.seen /\ c.seen \subseteq Reached
  BY DEF Calls, OnItsWay
<1>2. Closed(c.seen)
  BY DEF Closed, OnItsWay
<1> QED
  BY <1>1, <1>2, ClosedIsAll

\* When it leads on, there are more keys than those that were asked for.
LEMMA TooManyPages ==
  ASSUME Types, NEW c \in Calls, OnItsWay(c), After(c.key) \notin c.seen \cup {None},
         Cardinality(c.seen) >= MaxPages
  PROVE  MaxPages < Cardinality(Reached)
<1> DEFINE next == After(c.key)
           more == c.seen \cup {next}
<1>1. next \in Reached
  BY ReachedIsClosed DEF OnItsWay
<1>2. IsFiniteSet(Reached)
  BY ReachedKeys, KeysAreFinite
<1>3. c.seen \in SUBSET Reached /\ more \in SUBSET Reached
  BY <1>1 DEF OnItsWay
<1>4. IsFiniteSet(c.seen)
  BY <1>2, <1>3, FS_Subset
<1>5. Cardinality(more) = Cardinality(c.seen) + 1
  BY <1>4, FS_AddElement
<1>6. Cardinality(more) <= Cardinality(Reached)
  BY <1>2, <1>3, FS_Subset
<1>7. /\ Cardinality(c.seen) \in Nat /\ Cardinality(Reached) \in Nat
      /\ MaxPages \in Nat
  BY <1>2, <1>4, FS_CardinalityType, LimitAssumption
<1> QED
  BY <1>5, <1>6, <1>7

LEMMA ReadPageWalks ==
  ASSUME IInv, NEW r \in Walker, Walks(call[r]), ReadPage(r)
  PROVE  \E d \in Calls : call' = [call EXCEPT ![r] = d] /\ Walks(d)
<1> DEFINE c == call[r]
           before == c.seen \ {c.key}
           items == c.items \o ItemsOf[PageOf[c.key]]
           next == After(c.key)
<1>1. /\ c \in Calls /\ c.pc = "sent" /\ OnItsWay(c)
      /\ call' = [call EXCEPT ![r] = WalkOn(c, items, next)]
      /\ credentials \in Nat /\ "ok" \in Outcomes
  BY OneCall DEF ReadPage, Accepts, Walks, Request, Outcomes, After
<1>2. /\ c.key \in Key /\ c.seen \in SUBSET Key /\ c.items \in Seq(Item)
      /\ before \in SUBSET Key /\ c.key \notin before /\ before \cup {c.key} = c.seen
      /\ c.seen \subseteq Reached
  BY <1>1 DEF Calls, OnItsWay
<1>3. /\ items \in Seq(Item)
      /\ \A x \in Item : Times(x, items) = Cardinality(KeysOf(x, c.seen))
  <2>1. \A x \in Item : Times(x, c.items) = Cardinality(KeysOf(x, before))
    BY <1>1 DEF OnItsWay
  <2> HIDE DEF before, c
  <2>2. /\ items \in Seq(Item)
        /\ \A x \in Item : Times(x, items) = Cardinality(KeysOf(x, before \cup {c.key}))
    BY <1>2, <2>1, NewItems
  <2> QED
    BY <2>2, <1>2
<1>4. next \in Key \cup {None}
  BY <1>2, LimitAssumption DEF IInv, Types, After
<1> HIDE DEF items, next
<1>0. Bounded(items)
  <2> SUFFICES ASSUME NEW x \in Item PROVE Times(x, items) <= Cardinality(KeysOf(x, Reached))
    BY DEF Bounded
  <2>1. Cardinality(KeysOf(x, c.seen)) <= Cardinality(KeysOf(x, Reached))
    BY <1>2, ReachedKeys, FewerKeys
  <2> QED
    BY <1>3, <2>1
<1>5. ASSUME NEW it \in Seq(Item), Bounded(it),
             WalkOn(c, items, next) = Ended([c EXCEPT !.items = it], "ok"),
             \/ \A x \in Item : Times(x, it) = Cardinality(KeysOf(x, Reached))
             \/ MaxItems # 0 /\ Len(it) = MaxItems
             \/ MaxPages < Cardinality(Reached)
      PROVE  \E d \in Calls : call' = [call EXCEPT ![r] = d] /\ Walks(d)
  <2>1. PICK e : e = [c EXCEPT !.items = it]
    OBVIOUS
  <2>2. e \in Calls /\ e.items = it
    BY <1>1, <2>1 DEF Calls
  <2>3. PICK d : d = Ended(e, "ok")
    OBVIOUS
  <2>4. d \in Calls /\ d.pc = "ended" /\ d.items = it
    <3>1. d \in Calls /\ d.pc = "ended"
      BY <1>1, <2>2, <2>3, EndingKeeps
    <3>2. d.items = e.items
      BY <2>2, <2>3 DEF Ended, Calls
    <3> QED
      BY <3>1, <3>2, <2>2
  <2>5. Walks(d)
    BY <1>5, <2>4 DEF Walks, Complete
  <2> QED
    BY <1>1, <1>5, <2>1, <2>3, <2>4, <2>5
<1>6. CASE MaxItems # 0 /\ Len(items) >= MaxItems
  <2> DEFINE cut == SubSeq(items, 1, MaxItems)
  <2>1. /\ cut \in Seq(Item) /\ Len(cut) = MaxItems
        /\ \A i \in DOMAIN cut : i \in DOMAIN items /\ cut[i] = items[i]
    BY <1>3, <1>6, LimitAssumption
  <2>2. WalkOn(c, items, next) = Ended([c EXCEPT !.items = cut], "ok")
    BY <1>6 DEF WalkOn
  <2> HIDE DEF cut
  <2>3. Bounded(cut)
    BY <2>1, <1>3, <1>0, FewerTimes
  <2> QED
    BY <2>1, <2>2, <2>3, <1>5, <1>6
<1>7. CASE ~(MaxItems # 0 /\ Len(items) >= MaxItems)
  <2>1. CASE next = None \/ Cardinality(c.seen) >= MaxPages \/ next \in c.seen
    <3>1. WalkOn(c, items, next) = Ended([c EXCEPT !.items = items], "ok")
      BY <1>7, <2>1 DEF WalkOn
    <3>2. CASE next = None \/ next \in c.seen
      <4>1. c.seen = Reached
        BY <3>2, <1>1, NothingMissing DEF next
      <4> QED
        BY <4>1, <3>1, <1>0, <1>3, <1>5
    <3>3. CASE next \notin c.seen \cup {None}
      <4>1. MaxPages < Cardinality(Reached)
        BY <3>3, <2>1, <1>1, TooManyPages DEF next, IInv
      <4> QED
        BY <4>1, <3>1, <1>0, <1>3, <1>5
    <3> QED
      BY <3>2, <3>3
  <2>2. CASE ~(next = None \/ Cardinality(c.seen) >= MaxPages \/ next \in c.seen)
    <3>1. PICK e : e = [c EXCEPT !.items = items, !.key = next, !.seen = c.seen \cup {next},
                                 !.rate = 0, !.authRetry = FALSE, !.sends = 0]
      OBVIOUS
    <3>2. next \in Key /\ next # None /\ next \notin c.seen
      BY <1>4, <2>2
    <3>3. /\ e \in Calls /\ e.outcome = c.outcome /\ e.items = items
          /\ e.key = next /\ e.seen = c.seen \cup {next}
      BY <1>1, <1>2, <1>3, <3>1, <3>2 DEF Calls
    <3>4. PICK d : d = Sent(e, credentials)
      OBVIOUS
    <3>5. /\ d \in Calls /\ d.pc = "sent" /\ d.outcome = c.outcome /\ d.items = items
          /\ d.key = next /\ d.seen = c.seen \cup {next}
      <4>1. d \in Calls /\ d.pc = "sent" /\ d.outcome = e.outcome
        BY <1>1, <3>3, <3>4, SendingCounts
      <4>2. d.items = e.items /\ d.key = e.key /\ d.seen = e.seen
        BY <3>3, <3>4 DEF Sent, Calls
      <4> QED
        BY <4>1, <4>2, <3>3
    <3>6. WalkOn(c, items, next) = d
      BY <1>7, <2>2, <3>1, <3>4 DEF WalkOn
    <3>7. next \in Reached
      BY <1>1, <3>2, ReachedIsClosed DEF OnItsWay, IInv, next
    <3>8. \A k \in d.seen \ {d.key} : After(k) # None /\ After(k) \in d.seen
      BY <1>1, <3>2, <3>5 DEF OnItsWay, next
    <3>9. d.seen \ {d.key} = c.seen
      BY <3>2, <3>5
    <3>10. OnItsWay(d)
      BY <1>1, <1>3, <3>5, <3>7, <3>8, <3>9 DEF OnItsWay
    <3>11. d.outcome # "ok"
      BY <1>1, <3>5, LimitAssumption DEF OnItsWay
    <3>12. Walks(d)
      BY <1>0, <3>5, <3>10, <3>11 DEF Walks
    <3> QED
      BY <1>1, <3>5, <3>6, <3>12
  <2> QED
    BY <2>1, <2>2
<1> QED
  BY <1>6, <1>7

-----------------------------------------------------------------------------
(***************************************************************************)
(* The invariant                                                           *)
(***************************************************************************)
\* The links of BAM do not change while they are followed.
LEMMA SameKeys == ASSUME UNCHANGED link PROVE Reached' = Reached
BY DEF Reached, Closed, After

LEMMA LinksStay == ASSUME [Next]_vars PROVE UNCHANGED link
BY DEF Next, Step, Start, Acquire, LoggedIn, LoginFails, Unauthorized, RateLimited, WakeUp,
       Carried, Lost, ReadPage, Expire, vars

\* A step of a request changes no other.
LEMMA OneStepOneCall ==
  ASSUME NEW r \in Request, Step(r)
  PROVE  \E d : call' = [call EXCEPT ![r] = d]
BY DEF Step, Start, Acquire, LoggedIn, LoginFails, Unauthorized, RateLimited, WakeUp,
       Carried, Lost, ReadPage, Lock

LEMMA InitWalks == ASSUME Init PROVE WalkInv
<1> SUFFICES ASSUME NEW r \in Walker PROVE Walks(call[r])
  BY DEF WalkInv
<1>1. call[r] = NewCall
  BY DEF Init, Request
<1>2. NewCall.items = <<>> /\ NewCall.seen = {First} /\ NewCall.key = First /\ NewCall.outcome = None
  BY DEF NewCall
<1>3. ASSUME NEW x \in Item
      PROVE  Times(x, <<>>) = 0 /\ Cardinality(KeysOf(x, {})) = 0
  <2>1. KeysOf(x, {}) = {} /\ {i \in DOMAIN <<>> : <<>>[i] = x} = {}
    BY DEF KeysOf
  <2> QED
    BY <2>1, FS_EmptySet DEF Times
<1>4. Bounded(<<>>)
  <2> SUFFICES ASSUME NEW x \in Item PROVE Times(x, <<>>) <= Cardinality(KeysOf(x, Reached))
    BY DEF Bounded
  <2> QED
    BY <1>3, ReachedKeys, KeysAreFinite
<1>5. OnItsWay(NewCall)
  <2>1. NewCall.seen \ {NewCall.key} = {}
    BY <1>2
  <2>2. NewCall.seen \subseteq Reached /\ First \in NewCall.seen
    BY <1>2, FirstIsReached
  <2> QED
    BY <1>2, <1>3, <2>1, <2>2 DEF OnItsWay
<1> QED
  BY <1>1, <1>2, <1>4, <1>5, LimitAssumption DEF Walks

LEMMA StepWalks == ASSUME IInv, LockInv, WalkInv, [Next]_vars PROVE WalkInv'
<1>1. Reached' = Reached /\ UNCHANGED link
  BY LinksStay, SameKeys
<1>2. ASSUME NEW q \in Walker, Walks(call'[q]) PROVE Walks(call[q])'
  BY <1>1, <1>2 DEF Walks, OnItsWay, Complete, Bounded, After, KeysOf, Times
<1>3. CASE UNCHANGED call
  BY <1>2, <1>3 DEF WalkInv
<1>4. ASSUME NEW r \in Request, Step(r) PROVE WalkInv'
  <2>1. CASE r \in Walker
    <3>1. PICK d \in Calls : call' = [call EXCEPT ![r] = d] /\ Walks(d)
      <4>1. CASE ReadPage(r)
        BY <2>1, <4>1, ReadPageWalks DEF WalkInv
      <4>2. CASE ~ReadPage(r)
        <5>1. call[r].pc # "ended"
          BY <2>1, <4>2, <1>4, StepKeeps
        <5>2. PICK d \in Calls : call' = [call EXCEPT ![r] = d] /\ Keeps(call[r], d)
          BY <2>1, <4>2, <1>4, StepKeeps
        <5>3. Walks(d)
          BY <2>1, <5>1, <5>2, OneCall, KeptWalk DEF WalkInv
        <5> QED
          BY <5>2, <5>3
      <4> QED
        BY <4>1, <4>2
    <3>2. call'[r] = d /\ \A q \in Request : q # r => call'[q] = call[q]
      BY <3>1, OneCallChanges DEF IInv
    <3> QED
      BY <1>2, <3>1, <3>2 DEF WalkInv, Request
  <2>2. CASE r \notin Walker
    <3>1. \A q \in Walker : call'[q] = call[q]
      <4>1. call \in [Request -> Calls] /\ \E d : call' = [call EXCEPT ![r] = d]
        BY <1>4, OneStepOneCall DEF IInv, Types
      <4> QED
        BY <2>2, <4>1 DEF Request
    <3> QED
      BY <1>2, <3>1 DEF WalkInv
  <2> QED
    BY <2>1, <2>2
<1>5. CASE Expire
  BY <1>3, <1>5 DEF Expire
<1> QED
  BY <1>3, <1>4, <1>5 DEF Next, vars

\* A walk has asked for the keys on its way once each and has their items as
\* often, and one that succeeded has read all, whatever happened to its requests.
THEOREM WalkInvariant == Spec => []WalkInv
<1>1. Init => WalkInv
  BY InitWalks
<1>2. IInv /\ LockInv /\ WalkInv /\ [Next]_vars => WalkInv'
  BY StepWalks
<1> QED
  BY <1>1, <1>2, ClientInvariant, PTL DEF Spec

\* get_all_pages() returns no item more often than the links lead to its page
\* under different keys, also when they lead back, a session ended or a page was
\* limited on the way; and every item of every page that they lead to exactly as
\* often, up to its limits.
THEOREM WalksReadEverything == Spec => []WalksAreComplete
<1>1. ASSUME IInv, WalkInv PROVE WalksAreComplete
  <2>1. ASSUME NEW r \in Walker PROVE Walks(call[r])
    BY <1>1 DEF WalkInv
  <2> QED
    BY <2>1 DEF WalksAreComplete, Walks, Bounded, Complete
<1> QED
  BY <1>1, WalkInvariant, ClientInvariant, PTL
===============================================================================
