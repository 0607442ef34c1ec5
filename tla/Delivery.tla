---------------------------- MODULE Delivery -----------------------------
(***************************************************************************)
(* What a queue with a dead letter queue promises of each message it       *)
(* accepts: it holds the message until a consumer has acknowledged it, or  *)
(* it has been handed out as often as the consumer allows and then was     *)
(* dead lettered, somebody purged it, or it outlived its retention.  Queue *)
(* implements this.                                                        *)
(***************************************************************************)
EXTENDS Naturals

CONSTANTS Messages, MaxDeliveries

VARIABLES fate, tries

vars == <<fate, tries>>

Fates == {"unsent", "held", "acked", "dead", "purged", "expired"}

TypeOK == fate \in [Messages -> Fates] /\ tries \in [Messages -> 0 .. MaxDeliveries]

Init ==
    /\ fate = [m \in Messages |-> "unsent"]
    /\ tries = [m \in Messages |-> 0]

Become(S, f) == fate' = [m \in Messages |-> IF m \in S THEN f[m] ELSE fate[m]]

Are(S, f) == \A m \in S : fate[m] = f

Accept(S) ==
    /\ Are(S, "unsent")
    /\ Become(S, [m \in S |-> "held"])
    /\ UNCHANGED tries

Deliver(S) ==
    /\ Are(S, "held")
    /\ \A m \in S : tries[m] < MaxDeliveries
    /\ tries' = [m \in Messages |-> IF m \in S THEN tries[m] + 1 ELSE tries[m]]
    /\ UNCHANGED fate

\* Only what was handed out is acknowledged; only what was handed out as often as
\* is allowed is dead lettered.
Settle(S, f) ==
    /\ Are(S, "held")
    /\ \A m \in S : f[m] = "acked" => tries[m] > 0
    /\ \A m \in S : f[m] = "dead" => tries[m] = MaxDeliveries
    /\ Become(S, f)
    /\ UNCHANGED tries

\* A dead letter is kept for a time too.
Forget(S) ==
    /\ Are(S, "dead")
    /\ Become(S, [m \in S |-> "expired"])
    /\ UNCHANGED tries

Next ==
    \E S \in SUBSET Messages :
        \/ Accept(S) \/ Deliver(S)
        \/ \E f \in [S -> {"acked", "dead", "purged", "expired"}] : Settle(S, f)
        \/ Forget(S)

Spec == Init /\ [][Next]_vars
=============================================================================
