------------------------------- MODULE RowOnce -------------------------------
(***************************************************************************)
(* What row_result promises of the rows of one file version: a row is      *)
(* settled at most once, with one verdict, and the database effects of its *)
(* computation are committed together with that verdict and never again.   *)
(***************************************************************************)
EXTENDS Integers

CONSTANTS Rows, Verdicts, None

VARIABLES
    result,  \* row_result: the verdict of each row, None when there is none
    effects  \* how often the effects of each row's computation are committed

Init ==
    /\ result = [r \in Rows |-> None]
    /\ effects = [r \in Rows |-> 0]

\* One commit settles some of the rows that have no result.
Settle(S) ==
    /\ S # {}
    /\ \A r \in S : result[r] = None
    /\ \E v \in [S -> Verdicts] :
        result' = [r \in Rows |-> IF r \in S THEN v[r] ELSE result[r]]
    /\ effects' = [r \in Rows |-> IF r \in S THEN effects[r] + 1 ELSE effects[r]]

Next == \E S \in SUBSET Rows : Settle(S)

Spec == Init /\ [][Next]_<<result, effects>>
=============================================================================
