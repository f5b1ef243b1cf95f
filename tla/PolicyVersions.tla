--------------------------- MODULE PolicyVersions ---------------------------
(***************************************************************************)
(* What publication promises of the versions of policy documents, whatever *)
(* the index does: a version becomes valid only once indexed, is never     *)
(* withdrawn, and its interval is closed at most once, by the publication  *)
(* of a successor.                                                         *)
(***************************************************************************)
EXTENDS Integers

CONSTANTS
    Docs,
    FamilyOf,  \* Docs -> family
    Effective, \* Docs -> effective_date
    Expiry,    \* Docs -> expiry_date at upload, Never when NULL
    Never      \* the day after every date

VARIABLE doc   \* policy_document rows: status and expiry_date

Init == doc = [d \in Docs |-> [status |-> "draft", expiry |-> Expiry[d]]]

Published == {d \in Docs : doc[d].status = "published"}
Indexing == {d \in Docs : doc[d].status = "indexing"}

\* The days on which both of two versions would be valid.
Overlap(d, e) == Effective[d] < doc[e].expiry /\ Effective[e] < doc[d].expiry

\* Mutant: nothing but the check at publication.
NoConstraint(S) == TRUE

\* The exclusion constraint of policy_document over published rows.
Disjoint(S) ==
    \A d, e \in S : d # e /\ FamilyOf[d] = FamilyOf[e] => ~Overlap(d, e)

\* The open-ended versions that d may succeed.
Predecessors(d) ==
    {e \in Published : /\ FamilyOf[e] = FamilyOf[d]
                       /\ doc[e].expiry = Never
                       /\ Effective[e] < Effective[d]}

\* The versions, being indexed or published, with days that d would have.
Overlapping(d) ==
    {e \in Published \union Indexing : FamilyOf[e] = FamilyOf[d] /\ Overlap(d, e)}

\* publish_policy_document: d is being indexed, and the version it overlaps,
\* one at most, is closed where d begins.
Publish(d) ==
    /\ doc[d].status = "draft"
    /\ Overlapping(d) \subseteq Predecessors(d)
    /\ \A e, f \in Overlapping(d) : e = f
    /\ doc' = [e \in Docs |->
                IF e = d THEN [doc[e] EXCEPT !.status = "indexing"]
                ELSE IF e \in Overlapping(d) THEN [doc[e] EXCEPT !.expiry = Effective[d]]
                ELSE doc[e]]

\* Documents whose points are all indexed are published.
Complete(S) ==
    /\ S \subseteq Indexing
    /\ Disjoint(Published \union S)
    /\ doc' = [d \in Docs |-> IF d \in S THEN [doc[d] EXCEPT !.status = "published"]
                              ELSE doc[d]]

\* Mutant: a job that fails takes a published document back.
FailAny(d) ==
    /\ d \in Indexing \union Published
    /\ doc' = [doc EXCEPT ![d].status = "failed"]

\* A document's indexing fails; a predecessor that it closed stays closed.
Fail(d) ==
    /\ d \in Indexing
    /\ doc' = [doc EXCEPT ![d].status = "failed"]

Retry(d) ==
    /\ doc[d].status = "failed"
    /\ doc' = [doc EXCEPT ![d].status = "indexing"]

Next ==
    \/ \E d \in Docs : Publish(d) \/ Fail(d) \/ Retry(d)
    \/ \E S \in SUBSET Docs : Complete(S)

Spec == Init /\ [][Next]_doc

\* Document d is valid on a day.
InForce(d, date) ==
    d \in Published /\ Effective[d] <= date /\ date < doc[d].expiry
=============================================================================
