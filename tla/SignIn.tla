------------------------------- MODULE SignIn -------------------------------
(***************************************************************************)
(* The operator's credential in the daemon (daemon/studio): the password   *)
(* `hobby studio passwd` leaves on the box, the sessions a login opens in  *)
(* memory, and the throttle that makes an address which failed wait.  A    *)
(* login passes the throttle, awaits its body, reads the password, awaits  *)
(* argon2 and only then counts: meanwhile the password changes, and other  *)
(* requests of the same address fail and succeed.                          *)
(***************************************************************************)
EXTENDS Naturals, Sequences

CONSTANTS
    Requests,   \* concurrent logins and bearer checks
    Addresses,  \* sources, as throttleKey tells them apart
    Idle,       \* IDLE_TIMEOUT_MS
    Absolute,   \* ABSOLUTE_TIMEOUT_MS
    MaxDelay,   \* MAX_DELAY_MS; BASE_DELAY_MS is 1
    MaxTracked, \* MAX_TRACKED_KEYS
    MaxTime,    \* bound: the clock
    MaxPasswords, MaxSessions, MaxBegun, MaxRestarts  \* bounds

Unset == 0
Free  == [at |-> "free"]

VARIABLES
    now,
    password,   \* readOperatorCredential: which one is on file, or Unset
    sessions,   \* SessionStore.tokens: [id, issued, used]
    tracked,    \* LoginThrottle.state's keys, in the order of their insertion
    wait,       \* address -> [failures, until]
    req,        \* slot -> the request in it
    begun, restarts,
    \* history
    life,       \* sessions issued, in order: [born, last, over]
    streak,     \* address -> [fails, at] since it last succeeded or was forgotten
    dropped     \* addresses a full table has forgotten

vars == <<now, password, sessions, tracked, wait, req, begun, restarts,
          life, streak, dropped>>

\* Math.min.
Least(n, cap) == IF n \in 0..cap THEN n ELSE cap
Holds(seq, x) == \E i \in DOMAIN seq : seq[i] = x
\* A sequence that has x once at most loses it.
Without(seq, x) ==
    IF ~Holds(seq, x) THEN seq
    ELSE LET at == CHOOSE i \in DOMAIN seq : seq[i] = x
         IN  [i \in 1..Len(seq) - 1 |-> seq[IF i < at THEN i ELSE i + 1]]

----------------------------------------------------------------------------
\* LoginThrottle.

Throttled(a) == Holds(tracked, a) /\ now < wait[a].until

\* Faulty variant: an entry whose wait is over counts from nothing.
FailuresAnew(a) == IF Throttled(a) THEN wait[a].failures ELSE 0
Failures(a) == IF Holds(tracked, a) THEN wait[a].failures ELSE 0

\* Faulty variant: the table is never cut.
RoomNever(a) == tracked
\* The oldest goes when a new one finds the table full.
Room(a) == IF ~Holds(tracked, a) /\ Len(tracked) >= MaxTracked
           THEN Tail(tracked) ELSE tracked

Fail(a) ==
    LET n == Failures(a) + 1
    IN  /\ wait' = [wait EXCEPT ![a] = [failures |-> n,
                                        until |-> now + Least(2 ^ (n - 1), MaxDelay)]]
        /\ tracked' = IF Holds(Room(a), a) THEN Room(a) ELSE Append(Room(a), a)
        /\ streak' = [streak EXCEPT ![a] = [at |-> now,
                        fails |-> IF a \in dropped THEN 1 ELSE @.fails + 1]]
        /\ dropped' = (dropped \ {a}) \cup
                      IF ~Holds(tracked, a) /\ Len(tracked) >= MaxTracked
                      THEN {tracked[1]} ELSE {}

Succeed(a) ==
    /\ tracked' = Without(tracked, a)
    /\ streak' = [streak EXCEPT ![a] = [fails |-> 0, at |-> 0]]
    /\ dropped' = dropped \ {a}
    /\ UNCHANGED wait

----------------------------------------------------------------------------
\* A login or a token request with password p; a bearer token that is the right
\* one or not.  check() throws before anything is awaited.

Begin(r, a, kind, p) ==
    /\ req[r].at \in {"free", "done"} /\ begun < MaxBegun
    /\ begun' = begun + 1
    /\ req' = [req EXCEPT ![r] =
                IF Throttled(a) THEN [at |-> "done", answer |-> "wait"]
                ELSE [at |-> IF kind = "bearer" THEN "hash" ELSE "body",
                      kind |-> kind, addr |-> a, given |-> p, seen |-> Unset,
                      ever |-> p = password, always |-> p = password]]
    /\ UNCHANGED <<now, password, sessions, tracked, wait, restarts, life, streak, dropped>>

Ask(r, a) == \/ \E p \in 1..MaxPasswords, kind \in {"login", "token"} : Begin(r, a, kind, p)
             \/ \E good \in BOOLEAN : Begin(r, a, "bearer", IF good THEN password ELSE Unset)

\* Faulty variant: the credential the daemon came up with.
StoredAtStart == IF password = Unset THEN Unset ELSE 1
Stored == password

\* The body is here: the password on file is read, and argon2 awaited.
BodyCame(r) ==
    /\ req[r].at = "body"
    /\ req' = [req EXCEPT ![r].at = "hash", ![r].seen = Stored]
    /\ UNCHANGED <<now, password, sessions, tracked, wait, begun, restarts, life, streak, dropped>>

Right(q) == IF q.kind = "bearer" THEN q.ever ELSE q.seen # Unset /\ q.given = q.seen

Issue == /\ sessions' = sessions \cup {[id |-> Len(life) + 1, issued |-> now, used |-> now]}
         /\ life' = Append(life, [born |-> now, last |-> now, over |-> FALSE])

Verified(r) ==
    LET q == req[r]
    IN  /\ q.at = "hash"
        /\ IF Right(q) THEN Succeed(q.addr) ELSE Fail(q.addr)
        /\ IF Right(q) /\ q.kind = "login"
           THEN Len(life) < MaxSessions /\ Issue
           ELSE UNCHANGED <<sessions, life>>
        /\ req' = [req EXCEPT ![r] = [at |-> "done",
                    answer |-> IF Right(q) THEN "ok" ELSE "no",
                    ever |-> q.ever \/ q.kind = "bearer",
                    always |-> q.always /\ q.kind # "bearer"]]
        /\ UNCHANGED <<now, password, begun, restarts>>

\* setOperatorPassword, run by `hobby studio passwd` beside the daemon: no session
\* ends by it.
SetPassword ==
    /\ password < MaxPasswords
    /\ password' = password + 1
    /\ req' = [r \in Requests |->
                IF req[r].at \in {"body", "hash"} /\ req[r].kind # "bearer"
                THEN [req[r] EXCEPT !.ever = @ \/ req[r].given = password',
                                    !.always = @ /\ req[r].given = password']
                ELSE req[r]]
    /\ UNCHANGED <<now, sessions, tracked, wait, begun, restarts, life, streak, dropped>>

----------------------------------------------------------------------------
\* SessionStore.

Expired(s) == now - s.used > Idle \/ now - s.issued > Absolute
Swept == {s \in sessions : ~Expired(s)}

\* Faulty variant: a use puts both clocks back.
RefreshedWhole(s) == [s EXCEPT !.used = now, !.issued = now]
Refreshed(s) == [s EXCEPT !.used = now]

\* history: what a cookie of this session ought to be answered.
Due(id) == ~life[id].over /\ now - life[id].born <= Absolute /\ now - life[id].last <= Idle

\* verify(): every request with a cookie, and GET /studio/session.
UseCookie(id) ==
    LET mine == {s \in Swept : s.id = id}
    IN  /\ sessions' = (Swept \ mine) \cup {Refreshed(s) : s \in mine}
        /\ life' = IF Due(id) THEN [life EXCEPT ![id].last = now] ELSE life
        /\ UNCHANGED <<now, password, tracked, wait, req, begun, restarts, streak, dropped>>

Logout(id) ==
    /\ sessions' = {s \in sessions : s.id # id}
    /\ life' = [life EXCEPT ![id].over = TRUE]
    /\ UNCHANGED <<now, password, tracked, wait, req, begun, restarts, streak, dropped>>

Tick == /\ now < MaxTime /\ now' = now + 1
        /\ UNCHANGED <<password, sessions, tracked, wait, req, begun, restarts, life, streak, dropped>>

\* The daemon starts again: sessions, throttle and requests were in its memory.
Restart ==
    /\ restarts < MaxRestarts /\ restarts' = restarts + 1
    /\ sessions' = {} /\ tracked' = <<>> /\ dropped' = {}
    /\ req' = [r \in Requests |-> Free]
    /\ life' = [i \in DOMAIN life |-> [life[i] EXCEPT !.over = TRUE]]
    /\ streak' = [a \in Addresses |-> [fails |-> 0, at |-> 0]]
    /\ UNCHANGED <<now, password, wait, begun>>

Init ==
    /\ now = 0 /\ password = Unset /\ sessions = {} /\ tracked = <<>>
    /\ wait = [a \in Addresses |-> [failures |-> 0, until |-> 0]]
    /\ req = [r \in Requests |-> Free]
    /\ begun = 0 /\ restarts = 0 /\ life = <<>>
    /\ streak = [a \in Addresses |-> [fails |-> 0, at |-> 0]] /\ dropped = {}

Next ==
    \/ \E r \in Requests : BodyCame(r) \/ Verified(r) \/ \E a \in Addresses : Ask(r, a)
    \/ \E id \in DOMAIN life : UseCookie(id) \/ Logout(id)
    \/ SetPassword \/ Tick \/ Restart

Spec == Init /\ [][Next]_vars

----------------------------------------------------------------------------

TypeOK ==
    /\ now \in 0..MaxTime /\ password \in 0..MaxPasswords
    /\ \A s \in sessions : s.id \in DOMAIN life /\ s.issued <= s.used /\ s.used <= now
    /\ \A i, j \in DOMAIN tracked : i # j => tracked[i] # tracked[j]
    /\ \A a \in Addresses : wait[a].failures \in Nat /\ wait[a].until \in Nat
    /\ \A r \in Requests : req[r].at \in {"free", "body", "hash", "done"}

\* A sign-in is judged by a password that was on file while it was handled: one that
\* succeeds gave such a password, and one that gave the password on file throughout
\* is not told that it is wrong.
SignInsAreCurrent ==
    \A r \in Requests : req[r].at = "done" =>
        /\ req[r].answer = "ok" => req[r].ever
        /\ req[r].answer = "no" => ~req[r].always

\* A cookie is accepted exactly while its session is younger than the absolute limit,
\* was used within the idle limit, and was neither logged out nor lost to a restart.
SessionsEndOnTime == \A id \in DOMAIN life : (\E s \in Swept : s.id = id) = Due(id)

\* An address that has failed n times since its last success waits 2^(n-1) from the
\* last of them, up to the cap, whatever other addresses did - unless a full table
\* had to forget it, which starts the count again.
WaitsAreServed ==
    \A a \in Addresses : streak[a].fails > 0 /\ a \notin dropped =>
        /\ Holds(tracked, a)
        /\ wait[a].until = streak[a].at + Least(2 ^ (streak[a].fails - 1), MaxDelay)

\* The throttle remembers a bounded number of addresses.
TableIsBounded == Len(tracked) <= MaxTracked

\* The operator's credentials: the verdicts of sign-ins, the ends of sessions, the
\* waits of the throttle and the size of its table.
SignInsAreSound ==
    /\ TypeOK
    /\ SignInsAreCurrent
    /\ SessionsEndOnTime
    /\ WaitsAreServed
    /\ TableIsBounded
=============================================================================
