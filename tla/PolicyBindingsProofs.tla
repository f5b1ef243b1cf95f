------------------------ MODULE PolicyBindingsProofs ------------------------
(***************************************************************************)
(* Proofs about PolicyBindings.                                            *)
(*                                                                         *)
(* A document that a set cites is published when the set is saved, and a   *)
(* published document is never withdrawn: all that can happen to it is     *)
(* that a successor closes its interval.  So a set that applies on a day   *)
(* it was not confirmed for has applied there from the start, and one that *)
(* no longer applies on its day never will again.                          *)
(***************************************************************************)
EXTENDS PolicyBindings, TLAPS

Document == [status : {"draft", "indexing", "published", "failed"}, expiry : 0..Never]

Documents == doc \in [Docs -> Document]

\* The citations of a set are of its rule, and their documents had begun on
\* its day.
GroupsStand ==
    \A s \in confirmed : \A b \in s.group :
        /\ b.rule = s.rule
        /\ b.document \in Versions!Published
        /\ Effective[b.document] <= s.date

VersionsApart == Versions!Disjoint(Versions!Published)

IInv ==
    /\ Documents
    /\ TypeOK
    /\ GroupsStand
    /\ VersionsApart
    /\ DocumentBoundOnce
    /\ OneSetPerDay

\* A published document stays published, and its days become fewer.
Closes ==
    /\ Versions!Published \subseteq Versions!Published'
    /\ \A d \in Versions!Published : doc'[d].expiry <= doc[d].expiry

-----------------------------------------------------------------------------

LEMMA VersionsClose ==
    ASSUME Documents, Versions!Next
    PROVE  Documents' /\ Closes
<1>1. ASSUME NEW d \in Docs, Versions!Publish(d) PROVE Documents' /\ Closes
  <2>1. Effective[d] \in 0..Never
    BY DatesAssumption
  <2>2. Documents'
    BY <1>1, <2>1 DEF Documents, Document, Versions!Publish
  <2>3. ASSUME NEW e \in Versions!Published
        PROVE  doc'[e].status = "published" /\ doc'[e].expiry <= doc[e].expiry
    <3>1. e \in Docs /\ e # d /\ doc[e].expiry \in 0..Never
      BY <1>1, <2>3 DEF Versions!Publish, Versions!Published, Documents, Document
    <3>2. CASE e \in Versions!Overlapping(d)
      <4>1. doc[e].expiry = Never
        BY <1>1, <3>2 DEF Versions!Publish, Versions!Predecessors
      <4> QED BY <1>1, <2>1, <2>3, <3>1, <3>2, <4>1, DatesAssumption
            DEF Versions!Publish, Versions!Published, Documents, Document
    <3>3. CASE e \notin Versions!Overlapping(d)
      BY <1>1, <2>3, <3>1, <3>3 DEF Versions!Publish, Versions!Published
    <3> QED BY <3>2, <3>3
  <2> QED BY <2>2, <2>3 DEF Closes, Versions!Published
<1>2. ASSUME NEW S \in SUBSET Docs, Versions!Complete(S) PROVE Documents' /\ Closes
  BY <1>2 DEF Versions!Complete, Documents, Document, Closes, Versions!Published
<1>3. ASSUME NEW d \in Docs, Versions!Fail(d) \/ Versions!Retry(d) PROVE Documents' /\ Closes
  BY <1>3 DEF Versions!Fail, Versions!Retry, Versions!Indexing, Documents, Document, Closes,
     Versions!Published
<1> QED BY <1>1, <1>2, <1>3 DEF Versions!Next

\* Days that are gone stay gone: published versions that are apart stay apart.
LEMMA ApartWhenClosing ==
    ASSUME Documents, Documents', Closes, VersionsApart,
           NEW d \in Versions!Published, NEW e \in Versions!Published,
           d # e, FamilyOf[d] = FamilyOf[e]
    PROVE  ~(Effective[d] < doc'[e].expiry /\ Effective[e] < doc'[d].expiry)
<1>1. d \in Docs /\ e \in Docs
  BY DEF Versions!Published
<1>2. doc'[d].expiry <= doc[d].expiry /\ doc'[e].expiry <= doc[e].expiry
  BY DEF Closes
<1>3. /\ Effective[d] \in Nat /\ Effective[e] \in Nat
      /\ doc[d].expiry \in Nat /\ doc[e].expiry \in Nat
      /\ doc'[d].expiry \in Nat /\ doc'[e].expiry \in Nat
  BY <1>1, DatesAssumption DEF Documents, Document
<1>4. ~Versions!Overlap(d, e)
  BY DEF VersionsApart, Versions!Disjoint
<1> QED BY <1>2, <1>3, <1>4 DEF Versions!Overlap

\* Publication keeps published versions of a family apart: closing cannot
\* make them meet, and the constraint refuses a version that would.
LEMMA ApartStep ==
    ASSUME Documents, VersionsApart, Versions!Next
    PROVE  VersionsApart'
<1>1. Documents' /\ Closes
  BY VersionsClose
<1>2. ASSUME Versions!Published' = Versions!Published PROVE VersionsApart'
  BY <1>1, <1>2, ApartWhenClosing DEF VersionsApart, Versions!Disjoint, Versions!Overlap
<1>3. ASSUME NEW d \in Docs, Versions!Publish(d) PROVE VersionsApart'
  BY <1>2, <1>3 DEF Versions!Publish, Versions!Published, Versions!Predecessors, Documents
<1>4. ASSUME NEW d \in Docs, Versions!Fail(d) \/ Versions!Retry(d) PROVE VersionsApart'
  <2>1. CASE Versions!Fail(d)
    <3>1. Versions!Published' = Versions!Published
      BY <2>1 DEF Versions!Fail, Versions!Indexing, Versions!Published, Documents, Document
    <3> QED BY <1>2, <3>1
  <2>2. CASE Versions!Retry(d)
    <3>1. Versions!Published' = Versions!Published
      BY <1>4, <2>2 DEF Versions!Retry, Versions!Published, Documents, Document
    <3> QED BY <1>2, <3>1
  <2> QED BY <1>4, <2>1, <2>2
<1>5. ASSUME NEW S \in SUBSET Docs, Versions!Complete(S) PROVE VersionsApart'
  <2>1. Versions!Published' = Versions!Published \union S
    BY <1>5 DEF Versions!Complete, Versions!Published, Versions!Indexing, Documents
  <2>2. \A d \in Docs : doc'[d].expiry = doc[d].expiry
    BY <1>5 DEF Versions!Complete, Documents, Document
  <2>3. Versions!Disjoint(Versions!Published \union S)
    BY <1>5 DEF Versions!Complete
  <2>4. Versions!Published \union S \subseteq Docs
    BY DEF Versions!Published
  <2> QED BY <2>1, <2>2, <2>3, <2>4 DEF VersionsApart, Versions!Disjoint, Versions!Overlap
<1> QED BY <1>3, <1>4, <1>5 DEF Versions!Next

\* A document that a set cites does not come into force on a day on which it
\* was not in force when it was published.
LEMMA NeverAgain ==
    ASSUME Documents, Documents', Closes, NEW d \in Versions!Published, NEW date \in Dates,
           Effective[d] <= date, ~Versions!InForce(d, date)
    PROVE  ~Versions!InForce(d, date)'
<1>1. d \in Docs
  BY DEF Versions!Published
<1>2. doc[d].expiry \in Nat /\ doc'[d].expiry \in Nat /\ date \in Nat
  BY <1>1, DatesAssumption DEF Documents, Document, Dates
<1>3. doc'[d].expiry <= doc[d].expiry
  BY DEF Closes
<1> QED BY <1>2, <1>3 DEF Versions!InForce

-----------------------------------------------------------------------------

LEMMA PublicationStep ==
    ASSUME IInv, PublishStep
    PROVE  IInv'
<1> USE DEF PublishStep
<1>1. Documents' /\ Closes
  BY VersionsClose DEF IInv
<1>2. VersionsApart'
  BY ApartStep DEF IInv
<1>3. TypeOK'
  BY DEF IInv, TypeOK, Dates
<1>4. GroupsStand'
  BY <1>1 DEF IInv, GroupsStand, Closes
<1>5. DocumentBoundOnce'
  BY DEF IInv, DocumentBoundOnce
<1>6. OneSetPerDay'
  <2> SUFFICES ASSUME NEW s \in confirmed, NEW t \in confirmed,
                      s.rule = t.rule, s.date = t.date, s # t,
                      NEW b \in s.group, NEW c \in t.group,
                      Versions!InForce(b.document, s.date)',
                      Versions!InForce(c.document, s.date)'
               PROVE  FALSE
    BY DEF OneSetPerDay, Applies
  <2>1. /\ b.document \in Versions!Published /\ Effective[b.document] <= s.date
        /\ c.document \in Versions!Published /\ Effective[c.document] <= s.date
    BY DEF IInv, GroupsStand
  <2>2. s.date \in Dates
    BY DEF IInv, TypeOK
  <2>3. Versions!InForce(b.document, s.date) /\ Versions!InForce(c.document, s.date)
    BY <1>1, <2>1, <2>2, NeverAgain DEF IInv
  <2> QED BY <2>3 DEF IInv, OneSetPerDay, Applies
<1> QED BY <1>1, <1>2, <1>3, <1>4, <1>5, <1>6 DEF IInv

LEMMA BoundBindings ==
    ASSUME NEW rule \in Rules, NEW selection \in Selections
    PROVE  /\ Bound(rule, selection) \subseteq Binding
           /\ \A b \in Bound(rule, selection) : b.rule = rule
<1>1. PICK n \in 1..3 : selection \in [1..n -> Docs \X Quotes]
  BY DEF Selections
<1>2. \A k \in DOMAIN selection : k \in 1..3 /\ selection[k] \in Docs \X Quotes
  BY <1>1
<1> QED BY <1>2 DEF Bound, Binding

LEMMA SaveStep ==
    ASSUME IInv, NEW rule \in Rules, NEW date \in Dates, NEW selection \in Selections,
           SaveBindings(rule, date, selection)
    PROVE  IInv'
<1> DEFINE group == Bound(rule, selection)
           set == [rule |-> rule, date |-> date, group |-> group]
<1>1. /\ \A b \in group : Versions!InForce(b.document, date)
      /\ \A b \in bindings : ~(b.rule = rule /\ Versions!InForce(b.document, date))
      /\ bindings' = bindings \union group
      /\ confirmed' = confirmed \union {set}
      /\ doc' = doc
  BY DEF SaveBindings, CitesInForce, Unbound, Applicable, Applies
<1>2. group \subseteq Binding /\ \A b \in group : b.rule = rule
  BY BoundBindings
<1>3. set.rule = rule /\ set.date = date /\ set.group = group
  OBVIOUS
<1> HIDE DEF group, set
<1>4. Documents' /\ VersionsApart'
  BY <1>1 DEF IInv, Documents, VersionsApart, Versions!Disjoint, Versions!Published,
     Versions!Overlap
<1>5. TypeOK'
  BY <1>1, <1>2, <1>3 DEF IInv, TypeOK
<1>6. Versions!Published' = Versions!Published
  BY <1>1 DEF Versions!Published
<1>7. \A b \in group : b.document \in Versions!Published /\ Effective[b.document] <= date
  BY <1>1 DEF Versions!InForce
<1>8. GroupsStand'
  BY <1>1, <1>2, <1>3, <1>6, <1>7 DEF IInv, GroupsStand
<1>9. ASSUME NEW s \in confirmed, s.rule = rule
      PROVE  \A b \in s.group : b \in bindings /\ b.rule = rule /\ ~Versions!InForce(b.document, date)
  BY <1>1, <1>9 DEF IInv, TypeOK, GroupsStand
<1>10. DocumentBoundOnce'
  <2> SUFFICES ASSUME NEW s \in confirmed', NEW t \in confirmed', s.rule = t.rule, s # t,
                      NEW b \in s.group, NEW c \in t.group, b.document = c.document
               PROVE  FALSE
    BY DEF DocumentBoundOnce
  <2>1. CASE s \in confirmed /\ t \in confirmed
    BY <2>1 DEF IInv, DocumentBoundOnce
  <2>2. CASE s \in confirmed /\ t = set
    BY <1>1, <1>3, <1>9, <2>2
  <2>3. CASE s = set /\ t \in confirmed
    BY <1>1, <1>3, <1>9, <2>3
  <2> QED BY <1>1, <2>1, <2>2, <2>3
<1>11. OneSetPerDay'
  <2>1. \A d, day : Versions!InForce(d, day)' <=> Versions!InForce(d, day)
    BY <1>1 DEF Versions!InForce, Versions!Published
  <2> SUFFICES ASSUME NEW s \in confirmed', NEW t \in confirmed',
                      s.rule = t.rule, s.date = t.date, s # t,
                      NEW b \in s.group, NEW c \in t.group,
                      Versions!InForce(b.document, s.date),
                      Versions!InForce(c.document, s.date)
               PROVE  FALSE
    BY <2>1 DEF OneSetPerDay, Applies
  <2>2. CASE s \in confirmed /\ t \in confirmed
    BY <2>2 DEF IInv, OneSetPerDay, Applies
  <2>3. CASE s \in confirmed /\ t = set
    BY <1>3, <1>9, <2>3
  <2>4. CASE s = set /\ t \in confirmed
    BY <1>3, <1>9, <2>4
  <2> QED BY <1>1, <2>2, <2>3, <2>4
<1> QED BY <1>4, <1>5, <1>8, <1>10, <1>11 DEF IInv

LEMMA Invariance == Spec => []IInv
<1>1. Init => IInv
  <2> SUFFICES ASSUME Init PROVE IInv
    OBVIOUS
  <2>1. Documents
    BY DatesAssumption DEF Init, Versions!Init, Documents, Document
  <2>2. Versions!Published = {}
    BY DEF Init, Versions!Init, Versions!Published
  <2> QED BY <2>1, <2>2 DEF Init, IInv, TypeOK, GroupsStand, VersionsApart, Versions!Disjoint,
        DocumentBoundOnce, OneSetPerDay
<1>2. IInv /\ [Next]_vars => IInv'
  <2> SUFFICES ASSUME IInv, [Next]_vars PROVE IInv'
    OBVIOUS
  <2>1. CASE PublishStep
    BY <2>1, PublicationStep
  <2>2. ASSUME NEW rule \in Rules, NEW date \in Dates, NEW selection \in Selections,
               SaveBindings(rule, date, selection)
        PROVE  IInv'
    BY <2>2, SaveStep
  <2>3. CASE UNCHANGED vars
    <3>1. doc' = doc /\ bindings' = bindings /\ confirmed' = confirmed
      BY <2>3 DEF vars
    <3> QED BY <3>1 DEF IInv, Documents, TypeOK, GroupsStand, VersionsApart, Versions!Disjoint,
          Versions!Overlap, Versions!Published, DocumentBoundOnce, OneSetPerDay, Applies,
          Versions!InForce
  <2> QED BY <2>1, <2>2, <2>3 DEF Next
<1> QED BY <1>1, <1>2, PTL DEF Spec

-----------------------------------------------------------------------------

\* Every binding has one of the three orders, and the bindings of every
\* confirmed set are stored (save_rule_policy_bindings).
THEOREM TypeCorrect == Spec => []TypeOK
<1>1. IInv => TypeOK
  BY DEF IInv
<1> QED BY <1>1, Invariance, PTL

\* No report cites two versions of one document family on a day
\* (_resolve_citations against the exclusion constraint of policy_document).
THEOREM OneVersion == Spec => []OneVersionCited
<1>1. IInv => OneVersionCited
  <2> SUFFICES ASSUME IInv, NEW date \in Dates, NEW b, NEW c,
                      Versions!InForce(b.document, date), Versions!InForce(c.document, date),
                      FamilyOf[b.document] = FamilyOf[c.document], b.document # c.document
               PROVE  FALSE
    BY DEF OneVersionCited, Cited, Applicable, Applies
  <2>1. ~Versions!Overlap(b.document, c.document)
    BY DEF IInv, VersionsApart, Versions!Disjoint, Versions!InForce
  <2>2. b.document \in Docs /\ c.document \in Docs
    BY DEF Versions!InForce, Versions!Published
  <2>3. /\ Effective[b.document] \in Nat /\ Effective[c.document] \in Nat
        /\ doc[b.document].expiry \in Nat /\ doc[c.document].expiry \in Nat
        /\ date \in Nat
    BY <2>2, DatesAssumption DEF IInv, Documents, Document, Dates
  <2> QED BY <2>1, <2>3 DEF Versions!InForce, Versions!Overlap
<1> QED BY <1>1, Invariance, PTL

\* The bindings of a rule to a document come from one save, so that the unique
\* indexes of rule_policy_binding refuse nothing the service lets through.
THEOREM BoundOnce == Spec => []DocumentBoundOnce
<1>1. IInv => DocumentBoundOnce
  BY DEF IInv
<1> QED BY <1>1, Invariance, PTL

\* Of two sets confirmed for a rule and a day, at most one applies on the day,
\* whatever is published later (_applicable_bindings).
THEOREM OneSet == Spec => []OneSetPerDay
<1>1. IInv => OneSetPerDay
  BY DEF IInv
<1> QED BY <1>1, Invariance, PTL
=============================================================================
