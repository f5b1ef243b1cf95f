--------------------------- MODULE MCPolicyIndex ---------------------------
(***************************************************************************)
(* Instances of PolicyIndex for TLC: documents are numbered in the order   *)
(* reconcile visits them, dates are days before Never = 4.                 *)
(***************************************************************************)
EXTENDS PolicyIndex, TLC

CONSTANTS w1, w2, c1, c2, c3, c4

\* Chain: document 2, open-ended and of two chunks, its successor 1, of a day,
\* and document 3, which follows on that day.
FamilyOfChain == <<"travel", "travel", "travel">>
EffectiveChain == <<2, 0, 3>>
ExpiryChain == <<3, 4, 4>>
DocOfChain == (c1 :> 1) @@ (c2 :> 2) @@ (c3 :> 2) @@ (c4 :> 3)

\* Pair: document 1 and its successor 2, of one chunk each.
FamilyOfPair == <<"travel", "travel">>
EffectivePair == <<0, 2>>
ExpiryPair == <<4, 4>>
DocOfPair == (c1 :> 1) @@ (c2 :> 2)

CollectionOfOnly == <<"a">>
CollectionOfOwn == <<"a", "b">>

WorkerSymmetry == Permutations(Workers)
=============================================================================
