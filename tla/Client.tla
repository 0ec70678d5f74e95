-------------------------------- MODULE Client --------------------------------
(***************************************************************************)
(* BAMClient.request() and authenticate(): what becomes of requests that   *)
(* are made at the same time, when the session that all of them use ends,  *)
(* when BAM limits their rate, and when answers get lost.                  *)
(*                                                                         *)
(* Everything between two awaits of a request is one step.  BAM is         *)
(* external: it takes a request or not and answers in the same step, and   *)
(* an answer that takes too long is one that got lost (httpx has a timeout *)
(* for every request).  The decorator that should repeat a request after a *)
(* network error never sees one, as request() turns it into a BAMAPIError  *)
(* itself, and so does authenticate().                                     *)
(***************************************************************************)
EXTENDS Naturals, Sequences, FiniteSets

CONSTANTS
    Writer,        \* requests that change something in BAM, once each
    Walker,        \* get_all_pages(): a request for every page
    Key, First,    \* what a walk may ask for: endpoint and parameters; the first one
    Page, PageOf,  \* the pages of a collection, and the page that is the answer to a key
    Links,         \* the keys that the links of the pages may give: set of functions
    Item, ItemsOf, \* what is in a collection, and the items of each page
    MaxItems,      \* the limit of a walk, 0 for none
    MaxPages,      \* pages that a walk reads at most
    MaxRateLimitRetries,
    MaxExpiries, MaxLimits, MaxFaults,  \* events (bound the model)
    KeepsSessions, \* external: a login leaves the sessions before it alone
    None

ASSUME LimitAssumption ==
    /\ MaxRateLimitRetries \in Nat /\ MaxItems \in Nat /\ MaxPages \in Nat \ {0}
    /\ First \in Key /\ None \notin Key /\ PageOf \in [Key -> Page]
    /\ None \notin Writer \cup Walker /\ Writer \cap Walker = {}
    /\ None \notin {"ok", "refused", "auth", "rate", "lost"}
    /\ Links \subseteq [Page -> Key \cup {None}] /\ ItemsOf \in [Page -> Seq(Item)]

\* Collections are finite, and each item is in one place of one page.  A page may
\* be the answer to several keys: the first one has no offset, a link that leads
\* back to the first page has offset=0.
ASSUME PageAssumption ==
    /\ IsFiniteSet(Key)
    /\ \A p, q \in Page : \A i \in DOMAIN ItemsOf[p], j \in DOMAIN ItemsOf[q] :
         ItemsOf[p][i] = ItemsOf[q][j] => p = q /\ i = j

VARIABLES
    credentials,   \* basic_auth_credentials: the number of a session, 0 for none
    sessions,      \* external: the sessions that BAM accepts
    logins,        \* external: how many there were
    lock, queue,   \* _auth_lock: its holder, and who waits for it in order
    call,          \* the requests
    applied,       \* external: how often BAM carried out a request that changes it
    link,          \* external: the key of the page after each page
    expiries, limits, faults

vars == <<credentials, sessions, logins, lock, queue, call, applied, link,
          expiries, limits, faults>>

Request == Writer \cup Walker

-----------------------------------------------------------------------------
NewCall == [pc |-> "idle", outcome |-> None, with |-> 0, rate |-> 0,
            authRetry |-> FALSE, force |-> FALSE, sends |-> 0,
            key |-> First, seen |-> {First}, items |-> <<>>]

Init ==
    /\ credentials \in {0, 1}
    /\ sessions = 1 .. credentials /\ logins = credentials
    /\ lock = None /\ queue = <<>>
    /\ call = [r \in Request |-> NewCall]
    /\ applied = [r \in Writer |-> 0]
    /\ link \in Links
    /\ expiries = 0 /\ limits = 0 /\ faults = 0

\* A request with the credentials as they are now
Sent(c, session) == [c EXCEPT !.pc = "sent", !.with = session, !.sends = @ + 1]

Ended(c, outcome) == [c EXCEPT !.pc = "ended", !.outcome = outcome]

\* authenticate() up to its first await: at once in a free lock, or in line
Lock(r, c, force) ==
    IF lock = None /\ queue = <<>>
    THEN /\ lock' = r /\ UNCHANGED queue
         /\ call' = [call EXCEPT ![r] = [c EXCEPT !.pc = "login", !.force = force]]
    ELSE /\ queue' = Append(queue, r) /\ UNCHANGED lock
         /\ call' = [call EXCEPT ![r] = [c EXCEPT !.pc = "locking", !.force = force]]

Start(r) ==
    /\ call[r].pc = "idle"
    /\ IF credentials = 0
       THEN Lock(r, call[r], FALSE)
       ELSE /\ call' = [call EXCEPT ![r] = Sent(@, credentials)]
            /\ UNCHANGED <<lock, queue>>
    /\ UNCHANGED <<credentials, sessions, logins, applied, link, expiries, limits, faults>>

\* The first in line gets the lock; unless forced, it looks again whether there
\* are credentials by now, and goes on with them
Acquire(r) ==
    /\ lock = None /\ queue # <<>> /\ Head(queue) = r
    /\ queue' = Tail(queue)
    /\ IF credentials # 0 /\ ~call[r].force
       THEN call' = [call EXCEPT ![r] = Sent(@, credentials)] /\ UNCHANGED lock
       ELSE call' = [call EXCEPT ![r].pc = "login"] /\ lock' = r
    /\ UNCHANGED <<credentials, sessions, logins, applied, link, expiries, limits, faults>>

\* With all its waits again; after a 401 there is no second login
Fresh(c) == [c EXCEPT !.authRetry = c.authRetry \/ c.force, !.force = FALSE, !.rate = 0]

\* POST /sessions is answered: the request goes out with the new credentials,
\* after a 401 as its second and last attempt
LoggedIn(r) ==
    /\ call[r].pc = "login"
    /\ logins' = logins + 1
    /\ sessions' = (IF KeepsSessions THEN sessions ELSE {}) \cup {logins + 1}
    /\ credentials' = logins + 1
    /\ lock' = None
    /\ call' = [call EXCEPT ![r] = Sent(Fresh(@), logins + 1)]
    /\ UNCHANGED <<queue, applied, link, expiries, limits, faults>>

\* Slip: the error leaves the lock taken
LoginFailsInside(r) ==
    /\ call[r].pc = "login" /\ faults < MaxFaults
    /\ faults' = faults + 1
    /\ call' = [call EXCEPT ![r] = Ended(@, "auth")]
    /\ UNCHANGED <<credentials, sessions, logins, lock, queue, applied, link,
                   expiries, limits>>

LoginFails(r) ==
    /\ call[r].pc = "login" /\ faults < MaxFaults
    /\ faults' = faults + 1
    /\ lock' = None
    /\ call' = [call EXCEPT ![r] = Ended(@, "auth")]
    /\ UNCHANGED <<credentials, sessions, logins, queue, applied, link, expiries, limits>>

\* Slip: a login is forced only when there are no credentials
UnauthorizedUnforced(r) ==
    /\ call[r].pc = "sent" /\ call[r].with \notin sessions
    /\ call' = [call EXCEPT ![r] = IF @.authRetry THEN Ended(@, "auth")
                                   ELSE Sent([@ EXCEPT !.authRetry = TRUE], credentials)]
    /\ UNCHANGED <<credentials, sessions, logins, lock, queue, applied, link,
                   expiries, limits, faults>>

\* A 401: the first one leads to a login, the second one is final
Unauthorized(r) ==
    /\ call[r].pc = "sent" /\ call[r].with \notin sessions
    /\ IF call[r].authRetry
       THEN call' = [call EXCEPT ![r] = Ended(@, "auth")] /\ UNCHANGED <<lock, queue>>
       ELSE Lock(r, call[r], TRUE)
    /\ UNCHANGED <<credentials, sessions, logins, applied, link, expiries, limits, faults>>

\* Slip: one attempt more than the limit
RateLimitedOnceMore(r) ==
    /\ call[r].pc = "sent" /\ limits < MaxLimits
    /\ limits' = limits + 1
    /\ call' = [call EXCEPT ![r] = IF @.rate > MaxRateLimitRetries THEN Ended(@, "rate")
                                   ELSE [@ EXCEPT !.pc = "sleeping"]]
    /\ UNCHANGED <<credentials, sessions, logins, lock, queue, applied, link,
                   expiries, faults>>

\* A 429: wait for Retry-After, three times
RateLimited(r) ==
    /\ call[r].pc = "sent" /\ limits < MaxLimits
    /\ limits' = limits + 1
    /\ call' = [call EXCEPT ![r] = IF @.rate >= MaxRateLimitRetries THEN Ended(@, "rate")
                                   ELSE [@ EXCEPT !.pc = "sleeping"]]
    /\ UNCHANGED <<credentials, sessions, logins, lock, queue, applied, link,
                   expiries, faults>>

WakeUp(r) ==
    /\ call[r].pc = "sleeping"
    /\ call' = [call EXCEPT ![r] = Sent([@ EXCEPT !.rate = call[r].rate + 1], credentials)]
    /\ UNCHANGED <<credentials, sessions, logins, lock, queue, applied, link,
                   expiries, limits, faults>>

Accepts(r) == call[r].pc = "sent" /\ call[r].with \in sessions

\* BAM does what the request says, or refuses it
Carried(r) ==
    /\ Accepts(r) /\ r \in Writer
    /\ \/ /\ applied' = [applied EXCEPT ![r] = @ + 1]
          /\ call' = [call EXCEPT ![r] = Ended(@, "ok")]
       \/ /\ call' = [call EXCEPT ![r] = Ended(@, "refused")]
          /\ UNCHANGED applied
    /\ UNCHANGED <<credentials, sessions, logins, lock, queue, link, expiries, limits, faults>>

\* Slip: what the decorator was meant for, the request is sent once more
LostAndRepeated(r) ==
    /\ Accepts(r) /\ faults < MaxFaults
    /\ faults' = faults + 1
    /\ \/ UNCHANGED applied
       \/ r \in Writer /\ applied' = [applied EXCEPT ![r] = @ + 1]
    /\ call' = [call EXCEPT ![r] = Sent(@, credentials)]
    /\ UNCHANGED <<credentials, sessions, logins, lock, queue, link, expiries, limits>>

\* The answer, or the request on its way, is lost: BAMAPIError
Lost(r) ==
    /\ Accepts(r) /\ faults < MaxFaults
    /\ faults' = faults + 1
    /\ \/ UNCHANGED applied
       \/ r \in Writer /\ applied' = [applied EXCEPT ![r] = @ + 1]
    /\ call' = [call EXCEPT ![r] = Ended(@, "lost")]
    /\ UNCHANGED <<credentials, sessions, logins, lock, queue, link, expiries, limits>>

-----------------------------------------------------------------------------
(***************************************************************************)
(* get_all_pages(): read a page, take its items, follow its link to the    *)
(* next page unless its key was asked for before.                          *)
(***************************************************************************)
\* Slip: without a record of the keys that were asked for
WalkOnBlindly(c, items, next) ==
    IF MaxItems # 0 /\ Len(items) >= MaxItems
    THEN Ended([c EXCEPT !.items = SubSeq(items, 1, MaxItems)], "ok")
    ELSE IF next = None THEN Ended([c EXCEPT !.items = items], "ok")
    ELSE Sent([c EXCEPT !.items = items, !.key = next, !.rate = 0, !.authRetry = FALSE,
                        !.sends = 0], credentials)

\* After a page: enough items, no link, too many pages or a key seen before
\* end the walk, otherwise the next page is a request of its own.  Pages are told
\* apart by their keys, not by what is in them.
WalkOn(c, items, next) ==
    IF MaxItems # 0 /\ Len(items) >= MaxItems
    THEN Ended([c EXCEPT !.items = SubSeq(items, 1, MaxItems)], "ok")
    ELSE IF next = None \/ Cardinality(c.seen) >= MaxPages \/ next \in c.seen
    THEN Ended([c EXCEPT !.items = items], "ok")
    ELSE Sent([c EXCEPT !.items = items, !.key = next, !.seen = @ \cup {next},
                        !.rate = 0, !.authRetry = FALSE, !.sends = 0], credentials)

ReadPage(r) ==
    /\ Accepts(r) /\ r \in Walker
    /\ LET page == PageOf[call[r].key] IN
       call' = [call EXCEPT ![r] = WalkOn(@, @.items \o ItemsOf[page], link[page])]
    /\ UNCHANGED <<credentials, sessions, logins, lock, queue, applied, link,
                   expiries, limits, faults>>

\* External: a session ends
Expire ==
    /\ expiries < MaxExpiries
    /\ expiries' = expiries + 1
    /\ \E s \in sessions : sessions' = sessions \ {s}
    /\ UNCHANGED <<credentials, logins, lock, queue, call, applied, link, limits, faults>>

Step(r) ==
    \/ Start(r) \/ Acquire(r) \/ LoggedIn(r) \/ LoginFails(r) \/ Unauthorized(r)
    \/ RateLimited(r) \/ WakeUp(r) \/ Carried(r) \/ Lost(r) \/ ReadPage(r)

Next == (\E r \in Request : Step(r)) \/ Expire

\* Every request goes on: BAM answers or the timeout of httpx makes it fail, a
\* sleep ends, and the event loop gets to every coroutine.
Spec == Init /\ [][Next]_vars /\ \A r \in Request : WF_vars(Step(r))

-----------------------------------------------------------------------------
(***************************************************************************)
(* Properties.                                                             *)
(***************************************************************************)
\* The lock has an owner that is logging in, and those in line for it are the
\* requests that wait for it, each once.
TypeOK ==
    /\ credentials \in 0 .. logins /\ sessions \subseteq 1 .. logins
    /\ {r \in Request : call[r].pc = "login"} = IF lock = None THEN {} ELSE {lock}
    /\ {queue[i] : i \in DOMAIN queue} = {r \in Request : call[r].pc = "locking"}
    /\ Len(queue) = Cardinality({r \in Request : call[r].pc = "locking"})

\* However often a request is sent, after a 401, after each 429 and once more
\* after both, BAM carries it out at most once, and not at all when the caller
\* is told that it was refused, limited or not authenticated.
AppliedAtMostOnce ==
    \A r \in Writer : /\ applied[r] <= 1
                      /\ call[r].outcome = "ok" => applied[r] = 1
                      /\ call[r].outcome \in {"auth", "rate", "refused"} => applied[r] = 0

\* The two kinds of retries multiply, as a login gives a request all its waits
\* again, but no further: one login for every request of a page, and after it
\* the same number of attempts.
SendsAreBounded ==
    \A r \in Request :
        call[r].sends <= (IF call[r].authRetry THEN 2 ELSE 1) * (MaxRateLimitRetries + 1)

\* The end of one session fails no request, however many use it and in
\* whatever order they find out: none reports an authentication error while
\* every login succeeds, unless a second session ended as well.
OneExpiryFailsNothing ==
    KeepsSessions /\ expiries < 2 /\ faults = 0
        => \A r \in Request : call[r].outcome # "auth"

\* The keys that the links lead to from the first one: what every set that has
\* the first key and follows the links contains
After(k) == link[PageOf[k]]
Closed(keys) == \A k \in keys : After(k) # None => After(k) \in keys
Reached == {k \in Key : \A keys \in SUBSET Key : First \in keys /\ Closed(keys) => k \in keys}

\* The keys, of a set of them, whose page has the item; and how often a sequence has it
KeysOf(x, keys) == {k \in keys : \E i \in DOMAIN ItemsOf[PageOf[k]] : ItemsOf[PageOf[k]][i] = x}
Times(x, s) == Cardinality({i \in DOMAIN s : s[i] = x})

\* A walk has an item as often as the links lead to its page under different
\* keys, which is once unless they lead back to the first page, and never more
\* often, also when a session ended or a page was limited on the way.  One that
\* succeeds has read all that can be reached that often, up to its limits.
WalksAreComplete ==
    LET reached == Reached IN
    \A r \in Walker :
        /\ \A x \in Item : Times(x, call[r].items) <= Cardinality(KeysOf(x, reached))
        /\ call[r].outcome = "ok" =>
             \/ \A x \in Item : Times(x, call[r].items) = Cardinality(KeysOf(x, reached))
             \/ MaxItems # 0 /\ Len(call[r].items) = MaxItems
             \/ MaxPages < Cardinality(reached)

\* Every request ends, in a result or in an error; in particular the links of
\* BAM cannot keep a walk going in a circle, and nobody waits for the lock for ever.
RequestsEnd == \A r \in Request : <>(call[r].pc = "ended")

\* The comments say that of the requests whose session ended one logs in, and
\* the others find its credentials.
OneLoginPerExpiry == logins <= 1 + expiries
=============================================================================
