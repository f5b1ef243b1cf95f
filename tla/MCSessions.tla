----------------------------- MODULE MCSessions -----------------------------
(***************************************************************************)
(* Symmetry for checking Sessions.                                         *)
(***************************************************************************)
EXTENDS Sessions, TLC

\* Requests and tokens are only compared.
Alike == Permutations(Requests) \union Permutations(Tokens)
=============================================================================
