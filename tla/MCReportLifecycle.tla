------------------------- MODULE MCReportLifecycle -------------------------
(***************************************************************************)
(* Documents, batches and findings for checking ReportLifecycle.           *)
(***************************************************************************)
EXTENDS ReportLifecycle, TLC

\* Documents 1 and 2 are versions of one family, document 3 is of another.
FamilyOfThree == <<"travel", "travel", "meals">>
EffectiveThree == <<0, 2, 1>>
ExpiryThree == <<3, 3, 2>>

\* The first batch has findings on two days that a version and its successor
\* share between them, and a row that was not parsed.
FindingsOfTwo ==
    [f1 |-> <<[rule |-> "r1", date |-> 1, verdict |-> "manual_review"],
              [rule |-> "r1", date |-> 2, verdict |-> "flagged"]>>,
     f2 |-> <<[rule |-> "r1", date |-> 2, verdict |-> "flagged"]>>]

\* Keys and templates are only compared.
KeysAlike == Permutations(Keys) \union Permutations(Templates)

BadRowsOfTwo == [f1 |-> {3}, f2 |-> {}]
=============================================================================
