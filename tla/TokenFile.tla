----------------------------- MODULE TokenFile -----------------------------
(***************************************************************************)
(* api-tokens.json (daemon/studio/tokens.ts), read and rewritten whole by  *)
(* the daemon, which verifies and mints tokens for requests, and by each   *)
(* `hobby token` command, a process of its own.  Inside the daemon a read  *)
(* and the write after it share a turn of the event loop; between two      *)
(* processes nothing is shared but the file.                               *)
(***************************************************************************)
EXTENDS Naturals, FiniteSets

CONSTANTS
    Handlers,   \* requests in the daemon
    Commands,   \* `hobby token` processes
    Names,
    MaxSecrets, \* bound: tokens minted; 0 is the one an older version left
    MaxBegun    \* bound: operations begun

Procs == Handlers \cup Commands
Idle  == [at |-> "idle"]
Secrets == 0..MaxSecrets

VARIABLES
    file,       \* the records of the file: [name, secret, keyed]
    torn,       \* truncated by a writeFileSync that has not written yet
    op,         \* process -> what it is doing
    minted, begun,
    \* history
    known,      \* the tokens somebody was given
    revoked,    \* the tokens of the names a `token rm` reported revoked
    spoiled     \* a process read or wrote between another's read and its write, or
                \* was killed between its truncation and its write

vars == <<file, torn, op, minted, begun, known, revoked, spoiled>>

\* readTokens: a file that does not parse is read as an empty one.
Text == IF torn THEN {} ELSE file

\* A read-modify-write has begun; a handler in one has the daemon's thread.
Inside(p) == op[p].at \in {"write", "fill"}
Turn(p)   == p \in Handlers => \A q \in Handlers : q # p => ~Inside(q)
Crossing(p) ==
    spoiled \/ \E q \in Procs \ {p} : Inside(q) /\ (p \in Commands \/ q \in Commands)

Set(p, new) == op' = [op EXCEPT ![p] = new]
\* What a verify has seen of its token so far, at every change of the file.
Watch(o, recs) ==
    IF o.at \in {"keyed", "legacy"}
    THEN [o EXCEPT !.ever = @ \/ \E r \in recs : r.secret = o.secret,
                   !.always = @ /\ \E r \in recs : r.secret = o.secret]
    ELSE o

Begin(p) == op[p].at \in {"idle", "done"} /\ begun < MaxBegun /\ Turn(p) /\ begun' = begun + 1

----------------------------------------------------------------------------
\* issueToken: by a command, or by POST /studio/token.

CreateBegins(p, n) ==
    /\ Begin(p) /\ minted < MaxSecrets
    /\ minted' = minted + 1
    /\ Set(p, IF \E r \in Text : r.name = n THEN [at |-> "done", said |-> "taken"]
              ELSE [at |-> "hash", name |-> n, secret |-> minted + 1, read |-> Text])
    /\ UNCHANGED <<file, torn, known, revoked, spoiled>>

\* Faulty variant: the list that was checked for the name is the one written back.
ListThen(p) == op[p].read
ListNow(p)  == Text

\* Hashed: the file is read again, to be written with one record more.
Hashed(p) ==
    /\ op[p].at = "hash" /\ Turn(p)
    /\ Set(p, [at |-> "write", what |-> "create", secrets |-> {op[p].secret},
               text |-> ListNow(p) \cup {[name |-> op[p].name, secret |-> op[p].secret, keyed |-> TRUE]}])
    /\ spoiled' = Crossing(p)
    /\ UNCHANGED <<file, torn, minted, begun, known, revoked>>

\* revokeToken, of `hobby token rm`: every record of the name goes.
RevokeBegins(p, n) ==
    LET mine == {r \in Text : r.name = n}
    IN  /\ p \in Commands /\ Begin(p)
        /\ Set(p, IF mine = {} THEN [at |-> "done", said |-> "unknown"]
                  ELSE [at |-> "write", what |-> "revoke", text |-> Text \ mine,
                        secrets |-> {r.secret : r \in mine}])
        /\ spoiled' = Crossing(p)
        /\ UNCHANGED <<file, torn, minted, known, revoked>>

\* writeFileSync: the file is truncated, then written.
Truncates(p) ==
    /\ op[p].at = "write"
    /\ torn' = TRUE
    /\ op' = [q \in Procs |-> IF q = p THEN [op[p] EXCEPT !.at = "fill"] ELSE op[q]]
    /\ spoiled' = Crossing(p)
    /\ UNCHANGED <<file, minted, begun, known, revoked>>

Fills(p) ==
    /\ op[p].at = "fill"
    /\ torn' = FALSE
    /\ file' = op[p].text
    /\ op' = [q \in Procs |->
                IF q = p THEN [at |-> "done", said |-> IF op[p].what = "rekey" THEN "yes" ELSE "ok"]
                ELSE Watch(op[q], op[p].text)]
    /\ known' = IF op[p].what = "create" THEN known \cup op[p].secrets ELSE known
    /\ revoked' = IF op[p].what = "revoke" THEN revoked \cup op[p].secrets ELSE revoked
    /\ spoiled' = Crossing(p)
    /\ UNCHANGED <<minted, begun>>

----------------------------------------------------------------------------
\* verifyToken, for a request with a bearer token: the record with its lookup key
\* first, then every record that has none.

Tries(text, s, keyed) == \E r \in text : r.secret = s /\ r.keyed = keyed

VerifyBegins(p, s) ==
    /\ p \in Handlers /\ Begin(p)
    /\ Set(p, [at |-> "keyed", secret |-> s, text |-> Text,
               ever |-> \E r \in file : r.secret = s,
               always |-> ~torn /\ \E r \in file : r.secret = s])
    /\ spoiled' = Crossing(p)
    /\ UNCHANGED <<file, torn, minted, known, revoked>>

\* argon2 over the record with the lookup key, if there is one.
KeyedTried(p) ==
    /\ op[p].at = "keyed" /\ Turn(p)
    /\ Set(p, IF Tries(op[p].text, op[p].secret, TRUE)
              THEN [at |-> "done", said |-> "yes", ever |-> op[p].ever, always |-> op[p].always]
              ELSE [op[p] EXCEPT !.at = "legacy"])
    /\ UNCHANGED <<file, torn, minted, begun, known, revoked, spoiled>>

\* Faulty variant: records without a key are not tried.
NoLegacy(p) == FALSE
Legacy(p) == Tries(op[p].text, op[p].secret, FALSE)

\* Faulty variant: the list read before the verify is the one written back.
RekeyedThen(p) == {[r EXCEPT !.keyed = @ \/ r.secret = op[p].secret] : r \in op[p].text}
\* rekeyLegacyToken reads the file again.
Rekeyed(p) == {[r EXCEPT !.keyed = @ \/ r.secret = op[p].secret] : r \in Text}

LegacyTried(p) ==
    /\ op[p].at = "legacy" /\ Turn(p)
    /\ IF Legacy(p)
       THEN /\ Set(p, [at |-> "write", what |-> "rekey", secrets |-> {}, text |-> Rekeyed(p)])
            /\ spoiled' = Crossing(p)
       ELSE /\ Set(p, [at |-> "done", said |-> "no", ever |-> op[p].ever, always |-> op[p].always])
            /\ UNCHANGED spoiled
    /\ UNCHANGED <<file, torn, minted, begun, known, revoked>>

\* A process, or the daemon with its requests, is killed.
Killed(p) ==
    /\ op[p].at \notin {"idle", "done"}
    /\ op' = [q \in Procs |-> IF q = p \/ {p, q} \subseteq Handlers THEN Idle ELSE op[q]]
    /\ spoiled' = (spoiled \/ \E q \in Procs : op[q].at = "fill" /\ op'[q].at = "idle")
    /\ UNCHANGED <<file, torn, minted, begun, known, revoked>>

Init ==
    /\ \E n \in Names : file = {[name |-> n, secret |-> 0, keyed |-> FALSE]}
    /\ torn = FALSE /\ op = [p \in Procs |-> Idle] /\ minted = 0 /\ begun = 0
    /\ known = {0} /\ revoked = {} /\ spoiled = FALSE

Next ==
    \E p \in Procs :
        \/ \E n \in Names : CreateBegins(p, n) \/ RevokeBegins(p, n)
        \/ \E s \in Secrets : VerifyBegins(p, s)
        \/ Hashed(p) \/ Truncates(p) \/ Fills(p) \/ KeyedTried(p) \/ LegacyTried(p) \/ Killed(p)

Spec == Init /\ [][Next]_vars

----------------------------------------------------------------------------

TypeOK ==
    /\ \A r \in file : r.name \in Names /\ r.secret \in Secrets /\ r.keyed \in BOOLEAN
    /\ torn \in BOOLEAN /\ spoiled \in BOOLEAN
    /\ \A p \in Procs : op[p].at \in {"idle", "hash", "write", "fill", "keyed", "legacy", "done"}
    /\ known \cup revoked \subseteq Secrets

Stored == {r.secret : r \in file}

\* As long as no two processes were inside a read and its write at once, and none was
\* killed in its write, a token
\* somebody was given is on file until its name is revoked, whatever the daemon was
\* minting or rekeying meanwhile.
GivenTokensStay == ~spoiled /\ ~torn => known \ revoked \subseteq Stored

\* With the same two exceptions, a revoked
\* token stays gone: a verify under way does not write it back.
RevokedStaysGone == ~spoiled => Stored \cap revoked = {}

\* With the same two exceptions, a token on file from the first moment of its
\* check to the last is accepted, and one that was never there is not.
VerdictsAreTrue ==
    \A p \in Handlers : op[p].at = "done" /\ op[p].said \in {"yes", "no"} /\ "ever" \in DOMAIN op[p] =>
        /\ op[p].said = "yes" => op[p].ever
        /\ op[p].said = "no" => ~op[p].always

\* The file of API tokens under concurrent mints, revocations and checks: what was
\* given stays, what was revoked is gone, and the verdicts say which.
TokensAreSound ==
    /\ TypeOK
    /\ GivenTokensStay
    /\ RevokedStaysGone
    /\ VerdictsAreTrue
=============================================================================
