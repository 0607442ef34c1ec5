----------------------------- MODULE MCDeploy -----------------------------
(* Deploy for TLC: the actors of one resource.                             *)
EXTENDS Deploy, TLC

CONSTANTS d1, d2, d3, wake, hib, rm

\* Deploys that give no environment of their own are alike.
Alike == Permutations(Deployers \ EnvGivers)
=============================================================================
