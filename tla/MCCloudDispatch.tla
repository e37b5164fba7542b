--------------------------- MODULE MCCloudDispatch ---------------------------
(* Instances of CloudDispatch for TLC. *)
EXTENDS CloudDispatch, TLC

CONSTANTS c1, c2, r1, r2, d1, k1

\* ids are generated at random and the slots of the API are alike: no operator
\* tells one id or one slot from another
Ids == Permutations(Command) \cup Permutations(Caller)
=============================================================================
