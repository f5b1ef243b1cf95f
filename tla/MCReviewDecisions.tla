------------------------- MODULE MCReviewDecisions -------------------------
(***************************************************************************)
(* Reports and parameters for checking ReviewDecisions.                    *)
(***************************************************************************)
EXTENDS ReviewDecisions, TLC

\* A legacy report with rows that passed, and a new one with none.
GroupsOfTwo ==
    [old |-> <<"cleared">>, new |-> <<"manual_attention", "cleared">>]

VerdictsOfTwo ==
    [old |-> <<"passed", "flagged", "passed">>, new |-> <<"parse_failed", "flagged">>]

\* Of two rows a bit more than half, or all of them but for the maximum.
TwoParameters == {[rate |-> 5100, min |-> 1, max |-> 2], [rate |-> 10000, min |-> 1, max |-> 1]}

\* Keys are only compared.
KeysAlike == Permutations(Keys)
=============================================================================
