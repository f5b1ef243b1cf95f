---------------------------- MODULE ArtifactOnce ----------------------------
(***************************************************************************)
(* What a report's workbook promises: it is published at most once, with   *)
(* one audit entry, is never changed or taken back, and no request is      *)
(* answered with other bytes than the published ones.                      *)
(***************************************************************************)
EXTENDS Integers

CONSTANTS Reports, None

VARIABLES
    published,  \* the artifact of each report, None when there is none
    audits,     \* audit entries of its generation
    served      \* artifacts that answers were given with

Init ==
    /\ published = [r \in Reports |-> None]
    /\ audits = [r \in Reports |-> 0]
    /\ served = [r \in Reports |-> {}]

Publish(r) ==
    /\ published[r] = None
    /\ published'[r] \in Nat
    /\ published' = [published EXCEPT ![r] = published'[r]]
    /\ served' = [served EXCEPT ![r] = served[r] \union {published'[r]}]
    /\ audits' = [audits EXCEPT ![r] = audits[r] + 1]

\* The published bytes, to a repeated request or a download.
Serve(r) ==
    /\ published[r] # None
    /\ served' = [served EXCEPT ![r] = served[r] \union {published[r]}]
    /\ UNCHANGED <<published, audits>>

Next == \E r \in Reports : Publish(r) \/ Serve(r)

Spec == Init /\ [][Next]_<<published, audits, served>>
=============================================================================
