----------------------------- MODULE MCNodeSync -----------------------------
(***************************************************************************)
(* NodeSync for TLC. Connections are interchangeable, and so are rulesets;  *)
(* symmetry is used where no liveness property is checked.                 *)
(***************************************************************************)
EXTENDS NodeSync, TLC

CONSTANTS c1, c2, r1, r2

Symmetry == Permutations({c1, c2}) \cup Permutations({r1, r2})
=============================================================================
