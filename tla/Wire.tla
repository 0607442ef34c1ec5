-------------------------------- MODULE Wire --------------------------------
(***************************************************************************)
(* The framing of one connection's startup (proxy/src/startup.ts and the   *)
(* readers of proxy.ts that feed it): what a client sends until its        *)
(* startup packet, what a backend answers until it is ready, each arriving *)
(* in chunks cut anywhere.                                                 *)
(*                                                                         *)
(* A unit is a part of a message that a chunk cannot split: two of header, *)
(* of which the length can be read when both are there, then the body.     *)
(* A client's message is its length and the rest.                          *)
(***************************************************************************)
EXTENDS Integers, Sequences, SequencesExt

CONSTANTS
    Scripts,   \* what a client may send: sequences of kinds of packets
    Sessions,  \* what a backend may answer: sequences of messages
    Negotiations, \* MAX_ENCRYPTION_NEGOTIATIONS
    MaxDials   \* bound: sessions that are tried

VARIABLES
    pc,       \* whose bytes are read, and by which reader
    script, got, asked, \* the client's packets, the units of the first, negotiations answered
    tls, encrypted, remote, \* a certificate is configured; inside TLS; not loopback
    answers,  \* what the client was told before any backend
    minting,  \* the cancel registry gave a key
    session, left, \* the backend's messages, and the units that have not arrived
    held,     \* received by awaitBackendAnswer, then pending of the splice
    out, key, \* the units written to the client; the message whose key the route has
    dials, refused \* sessions tried; those given up without a word to the client

client  == <<script, got, asked, tls, encrypted, remote, answers, minting>>
backend == <<session, left, held, out, key, dials, refused>>
vars == <<pc, client, backend>>

Header == 2
Units(s, i) == [j \in 1..Header + s[i].body |-> [msg |-> i, part |-> j, ours |-> FALSE]]
Flat(s) == FlattenSeq([i \in DOMAIN s |-> Units(s, i)])

\* parseStartup, as far as the packet has come: "more", a packet, or an exception.
Parsed(kind, units) ==
    CASE units = 0                        -> "more"
      [] kind \in {"short", "long"}       -> "error"
      [] units = 1                        -> "more"
      [] kind \in {"odd", "unterminated"} -> "error"
      [] OTHER                            -> kind

\* The message at an offset of a buffer, when its header is there: how much of the
\* buffer it takes, or 0 when its length makes no sense.
Readable(buf, o) == o + Header <= Len(buf)
Total(buf, o) ==
    LET m == session[buf[o + 1].msg] IN
    IF buf[o + 1].part # 1 \/ m.type = "huge" THEN 0 ELSE Header + m.body
Type(buf, o) == session[buf[o + 1].msg].type

\* Faulty variant: takes a NegotiateProtocolVersion for the answer.
ClassifiedFirst(buf) ==
    IF ~Readable(buf, 0) THEN "incomplete"
    ELSE IF Total(buf, 0) = 0 THEN "answered"
    ELSE IF Total(buf, 0) > Len(buf) THEN "incomplete"
    ELSE IF Type(buf, 0) = "57P03" THEN "not ready" ELSE "answered"

\* classifyBackendAnswer: past every NegotiateProtocolVersion.
Classified(buf) ==
    LET from[o \in 0..Len(buf)] ==
          IF ~Readable(buf, o) THEN "incomplete"
          ELSE IF Total(buf, o) = 0 THEN "answered"
          ELSE IF o + Total(buf, o) > Len(buf) THEN "incomplete"
          ELSE IF Type(buf, o) = "negotiate" THEN from[o + Total(buf, o)]
          ELSE IF Type(buf, o) = "57P03" THEN "not ready" ELSE "answered"
    IN from[0]

\* Faulty variant: reads on after ReadyForQuery, to the end of the buffer.
ScannedOn(buf) ==
    LET from[o \in 0..Len(buf)] ==
          IF ~Readable(buf, o) THEN [upto |-> o, done |-> FALSE]
          ELSE IF Total(buf, o) = 0 THEN [upto |-> o, done |-> TRUE]
          ELSE IF o + Total(buf, o) > Len(buf) THEN [upto |-> o, done |-> FALSE]
          ELSE from[o + Total(buf, o)]
    IN from[0]

\* scanBackendStartup: where whole messages end, and whether the startup is over.
Scanned(buf) ==
    LET from[o \in 0..Len(buf)] ==
          IF ~Readable(buf, o) THEN [upto |-> o, done |-> FALSE]
          ELSE IF Total(buf, o) = 0 THEN [upto |-> o, done |-> TRUE]
          ELSE IF o + Total(buf, o) > Len(buf) THEN [upto |-> o, done |-> FALSE]
          ELSE IF Type(buf, o) = "ready" THEN [upto |-> o + Total(buf, o), done |-> TRUE]
          ELSE from[o + Total(buf, o)]
    IN from[0]

\* ... with the payload of BackendKeyData replaced among the first n units.
Ours(u) == [u EXCEPT !.ours = session[u.msg].type = "key" /\ u.part > Header]
Forward(buf, n) == [k \in 1..n |-> Ours(buf[k])]
KeysIn(buf, n) == {buf[k].msg : k \in {k \in 1..n : session[buf[k].msg].type = "key"}}

Latest(S) == CHOOSE i \in S : \A j \in S : j <= i

-----------------------------------------------------------------------------

Tell(a) == answers' = Append(answers, a)
Ends(a) == pc' = "over" /\ Tell(a) /\ UNCHANGED <<asked, backend>>

\* handleStartup and the first dial of holdUntilServing.
Dial ==
    /\ dials' = dials + 1
    /\ \E s \in Sessions : session' = s /\ left' = Flat(s)
    /\ held' = <<>> /\ UNCHANGED <<out, key>>

Negotiating == {"ssl", "gss"}

\* handleConnectionInner, with the packet that is whole.
Dispatch(kind) ==
    \/ /\ kind \in Negotiating /\ asked < Negotiations
       /\ IF kind = "ssl" /\ tls /\ ~encrypted
          THEN pc' = "over" /\ Tell("S") /\ UNCHANGED asked
          ELSE UNCHANGED pc /\ Tell("N") /\ asked' = asked + 1
       /\ UNCHANGED backend
    \/ kind \in Negotiating /\ asked >= Negotiations /\ Ends("error")
    \/ kind = "error" /\ Ends("error")
    \/ kind = "cancel" /\ Ends("cancel")
    \/ kind = "startup" /\ tls /\ ~encrypted /\ remote /\ Ends("error")
    \/ /\ kind = "startup" /\ ~(tls /\ ~encrypted /\ remote)
       /\ pc' = "answering" /\ Dial /\ UNCHANGED <<answers, asked, refused>>

\* readMessage's onData.  A client waits for the answer to each packet.
ClientBytes(n) ==
    /\ pc = "reading" /\ script # <<>> /\ got + n <= 2
    /\ LET found == Parsed(Head(script), got + n) IN
       IF found = "more"
       THEN got' = got + n /\ UNCHANGED <<script, asked, answers, pc, backend>>
       ELSE got' = 0 /\ script' = Tail(script) /\ Dispatch(found)
    /\ UNCHANGED <<tls, encrypted, remote, minting>>

\* The client closes inside a packet, or the deadline passes.
ClientStops ==
    /\ pc = "reading" /\ Ends("error")
    /\ UNCHANGED <<script, got, tls, encrypted, remote, minting>>

-----------------------------------------------------------------------------

Arrived(n) == SubSeq(left, 1, n)
Arrive(n) == left' = SubSeq(left, n + 1, Len(left))
Seen(n) == Len(Flat(session)) - Len(left) + n

\* The refusal is kept from the client: another session, or an error of our own.
GiveUp(n) ==
    /\ refused' = Append(refused, [of |-> session, seen |-> Seen(n)])
    /\ \/ dials < MaxDials /\ Dial /\ UNCHANGED <<pc, answers>>
       \/ /\ pc' = "over" /\ Tell("error")
          /\ held' = <<>> /\ UNCHANGED <<session, left, dials, out, key>>

\* awaitBackendAnswer's onData: nothing is forwarded, and an answer pauses the socket.
AnswerBytes(n) ==
    /\ pc = "answering" /\ n <= Len(left)
    /\ LET buf == held \o Arrived(n) IN
       \/ Classified(buf) = "not ready" /\ GiveUp(n)
       \/ /\ Classified(buf) # "not ready"
          /\ Arrive(n) /\ held' = buf
          /\ pc' = IF Classified(buf) = "answered" THEN "paused" ELSE pc
          /\ UNCHANGED <<answers, session, dials, refused, out, key>>
    /\ UNCHANGED <<script, got, asked, tls, encrypted, remote, minting>>

\* The backend closes before one whole message, or dies on the way to it.
AnswerCloses ==
    /\ pc = "answering" /\ GiveUp(0)
    /\ UNCHANGED <<script, got, asked, tls, encrypted, remote, minting>>

\* Faulty variant: forgets what came after ReadyForQuery in the same chunk.
OnBackendDataUnflushed(buf) ==
    LET scan == Scanned(buf) IN
    /\ out' = out \o Forward(buf, scan.upto)
    /\ key' = IF KeysIn(buf, scan.upto) = {} THEN key ELSE Latest(KeysIn(buf, scan.upto))
    /\ pc' = IF scan.done THEN "piping" ELSE "scanning"
    /\ held' = IF scan.done THEN <<>> ELSE SubSeq(buf, scan.upto + 1, Len(buf))

\* onBackendData, with pending and the chunk: whole messages are written, and once the
\* startup is over the rest as it is.
OnBackendData(buf) ==
    LET scan == Scanned(buf)
        rest == SubSeq(buf, scan.upto + 1, Len(buf))
    IN  /\ out' = out \o Forward(buf, scan.upto) \o (IF scan.done THEN rest ELSE <<>>)
        /\ key' = IF KeysIn(buf, scan.upto) = {} THEN key ELSE Latest(KeysIn(buf, scan.upto))
        /\ pc' = IF scan.done THEN "piping" ELSE "scanning"
        /\ held' = IF scan.done THEN <<>> ELSE rest

Kept == UNCHANGED <<client, session, dials, refused>>

\* spliceAndTrackActivity, on what awaitBackendAnswer received; without a key the whole
\* connection is piped.
Attach ==
    /\ pc = "paused" /\ Kept /\ UNCHANGED left
    /\ \/ minting /\ OnBackendData(held)
       \/ ~minting /\ pc' = "piping" /\ out' = out \o held /\ held' = <<>> /\ UNCHANGED key

SplicedBytes(n) ==
    /\ n <= Len(left) /\ Arrive(n) /\ Kept
    /\ \/ pc = "scanning" /\ OnBackendData(held \o Arrived(n))
       \/ pc = "piping" /\ out' = out \o Arrived(n) /\ UNCHANGED <<pc, held, key>>

\* finish: either side closes.
Finish ==
    /\ pc \in {"paused", "scanning", "piping"} /\ pc' = "over"
    /\ held' = <<>> /\ Kept /\ UNCHANGED <<left, out, key>>

Init ==
    /\ pc = "reading" /\ script \in Scripts /\ got = 0 /\ asked = 0
    /\ tls \in BOOLEAN /\ encrypted \in BOOLEAN /\ remote \in BOOLEAN /\ minting \in BOOLEAN
    /\ (encrypted => tls)
    /\ answers = <<>> /\ session = <<>> /\ left = <<>> /\ held = <<>>
    /\ out = <<>> /\ key = 0 /\ dials = 0 /\ refused = <<>>

Next ==
    \/ \E n \in 1..2 : ClientBytes(n)
    \/ ClientStops \/ AnswerCloses \/ Attach \/ Finish
    \/ \E n \in 1..Len(left) : AnswerBytes(n) \/ SplicedBytes(n)

Spec == Init /\ [][Next]_vars

-----------------------------------------------------------------------------

TypeOK ==
    /\ pc \in {"reading", "answering", "paused", "scanning", "piping", "over"}
    /\ got \in 0..1 /\ asked \in 0..Negotiations /\ dials \in 0..MaxDials
    /\ key \in 0..Len(session)

\* A backend's first message that is not a negotiation, and whether it can be one.
FirstWord(s) == SelectInSeq(s, LAMBDA m : m.type # "negotiate")
Startup(s) ==
    LET end == SelectInSeq(s, LAMBDA m : m.type \in {"ready", "huge"})
    IN  1..IF end = 0 THEN Len(s) ELSE end

\* What the client ought to read: everything, with a key of ours until ReadyForQuery.
Meant ==
    [k \in DOMAIN Flat(session) |->
        LET u == Flat(session)[k] IN
        [u EXCEPT !.ours = /\ minting /\ u.msg \in Startup(session)
                           /\ session[u.msg].type = "key" /\ u.part > Header]]

\* Wherever the chunks are cut: the client reads the backend's bytes, all and in order,
\* but for the keys of the startup; what is withheld is part of one message; query
\* traffic that looks like a key is left alone; and the route has the key it stands for.
BytesAreKept ==
    /\ IsPrefix(out, Meant)
    /\ pc \in {"scanning", "piping"} =>
         /\ Len(out) + Len(held) = Len(Flat(session)) - Len(left)
         /\ pc = "piping" => held = <<>>
         /\ \A k \in DOMAIN held : held[k].msg = held[1].msg /\ held[k].part = k
         /\ held # <<>> => Len(held) < Header + session[held[1].msg].body
         /\ LET keys == {u.msg : u \in {u \in ToSet(out) : u.ours}} IN
            key = IF keys = {} THEN 0 ELSE Latest(keys)

\* The client is spared a backend that is not ready yet, also behind negotiations, and
\* nothing else: no other answer is thrown away, and of no refusal is a byte forwarded.
RefusalsAreHidden ==
    /\ pc \in {"answering", "paused"} => out = <<>>
    /\ pc \in {"paused", "scanning", "piping"} =>
         LET f == FirstWord(session) IN f = 0 \/ session[f].type # "57P03"
    /\ \A r \in ToSet(refused) :
         LET f == FirstWord(r.of)
             before == Len(FlattenSeq([i \in 1..IF f = 0 THEN Len(r.of) ELSE f |->
                          [j \in 1..Header + r.of[i].body |-> i]]))
         IN  f = 0 \/ r.of[f].type = "57P03" \/ r.seen < before

\* However its packets come, a client gets as far as they allow: one N for each request
\* to negotiate, S once where there is TLS, and a backend only for a startup packet
\* that may come in the clear.
PacketsAreRead ==
    /\ dials > 0 => (tls /\ remote => encrypted)
    /\ \A i \in DOMAIN answers : answers[i] # "N" => i = Len(answers)
    /\ asked = Len(SelectSeq(answers, LAMBDA a : a = "N"))
    /\ \A i \in DOMAIN answers : answers[i] = "S" => tls /\ ~encrypted

\* All three: bytes, refusals and packets do not depend on how the stream is cut.
FramingIsExact == TypeOK /\ BytesAreKept /\ RefusalsAreHidden /\ PacketsAreRead
=============================================================================
