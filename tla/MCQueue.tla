----------------------------- MODULE MCQueue -----------------------------
(* Instances of Queue for TLC: the configurations choose the sizes.        *)
EXTENDS Queue

NoDelay == {0}
ShortDelays == {0, 1}
=============================================================================
