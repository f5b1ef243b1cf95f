------------------------ MODULE ReportLifecycleProofs ------------------------
(***************************************************************************)
(* Proofs about ReportLifecycle.                                           *)
(*                                                                         *)
(* Reports change no policy, so that what PolicyBindingsProofs says of the *)
(* bindings holds here too.  A key that was ever answered is in the        *)
(* ledger, with the request it was answered for; the ledger only grows,    *)
(* for the one transaction that adds to it later has found its key         *)
(* missing and holds the lock since.                                       *)
(*                                                                         *)
(* ReportInv follows the transaction of a report from stage to stage: what *)
(* it has prepared is current, what it has flushed is what it prepared,    *)
(* and what it commits is whole.                                           *)
(***************************************************************************)
EXTENDS ReportLifecycle, PolicyBindingsProofs, FiniteSetTheorems, FunctionTheorems,
        SequenceTheorems, WellFoundedInduction

\* The transaction in progress, if any, is of a request with a new key.
LockedKey ==
    tx.pc # "idle" => /\ tx.key \in Keys /\ tx.file \in Files /\ tx.template \in Templates
                      /\ Fresh(tx.key)

\* What was answered is in the ledger.
AnsweredKnown ==
    \A a \in answered :
        /\ a \in [key : Keys, file : Files, template : Templates]
        /\ ledger[a.key] = [file |-> a.file, template |-> a.template]

LedgerInv ==
    /\ ledger \in [Keys -> Request]
    /\ LockedKey
    /\ AnsweredKnown

\* What items are about.
FindingsOf(items) == {items[n].finding : n \in DOMAIN items}
FindingSet(f) == {Findings[f][n] : n \in DOMAIN Findings[f]}

\* What a transaction has prepared: while it prepares, the items of the first
\* findings; then those of all, sorted.
PreparedItems ==
    /\ tx.pc = "preparing" =>
        /\ Len(tx.prepared) <= Len(Findings[tx.file])
        /\ \A n \in 1..Len(tx.prepared) : tx.prepared[n].finding = Findings[tx.file][n]
    /\ tx.pc \in Stages \ {"idle", "preparing"} =>
        /\ Ordered(tx.prepared) = tx.prepared
        /\ FindingsOf(tx.prepared) = FindingSet(tx.file)
        /\ config > 0

\* What a transaction has flushed: nothing, or what the flushes up to its stage
\* write.
Draft ==
    /\ tx.pc \in {"idle", "preparing", "prepared"} => tx.draft = NoReport
    /\ tx.pc \in {"created", "itemized", "listed", "planned", "done"} =>
        /\ tx.draft.template = tx.template
        /\ tx.draft.manifest = PolicyManifest(tx.prepared)
        /\ Len(tx.draft.items) <= Len(tx.prepared)
        /\ \A n \in 1..Len(tx.draft.items) : tx.draft.items[n] = tx.prepared[n]
    /\ tx.pc \in {"listed", "planned", "done"} =>
        /\ Len(tx.draft.items) = Len(tx.prepared)
        /\ tx.draft.errors = BadRows[tx.file]
    /\ tx.pc \in {"planned", "done"} => tx.draft.plan = tx.config
    /\ tx.pc = "done" => tx.draft.status = "completed"

\* The transaction in progress, for a batch without a report.
TxInv ==
    /\ tx \in Transaction
    /\ tx.pc = "idle" => tx = Idle
    /\ tx.pc # "idle" => report[tx.file] = NoReport
    /\ PreparedItems
    /\ PreparedIsCurrent
    /\ Draft

\* What ReportWhole says of a report.
Whole(f) ==
    /\ report[f].status = "completed"
    /\ Ordered(report[f].items) = report[f].items
    /\ FindingsOf(report[f].items) = FindingSet(f)
    /\ report[f].errors = BadRows[f]
    /\ \A c \in Citations(report[f].items) :
            report[f].manifest[c.binding.document] = c.expiry
    /\ report[f].plan > 0
    /\ \E k \in Keys : ledger[k] = [file |-> f, template |-> report[f].template]

\* Types of what the transaction does not say.
Bounds ==
    /\ validated \subseteq Files
    /\ config \in 0..MaxConfigs
    /\ report \in [Files -> ReportRow]
    /\ \A f \in Files : Completed(f) => report[f].plan \in 1..config
    /\ failures \in 0..MaxFailures

ReportInv ==
    /\ Bounds
    /\ LedgerInv
    /\ TxInv
    /\ \A f \in Files : report[f] # NoReport => Whole(f)
    /\ CitationsStand

-----------------------------------------------------------------------------

(* The order of items *)

LEMMA RankOfItem ==
    ASSUME NEW items \in Seq(Item), NEW n \in DOMAIN items
    PROVE  Rank[items[n].group] \in 1..3
<1>1. items[n] \in Item
  BY ElementOfSeq, LenProperties
<1>2. items[n].group \in Groups
  BY <1>1 DEF Item
<1> QED BY <1>2 DEF Groups, Rank

LEMMA PrecedesTotal ==
    ASSUME NEW items \in Seq(Item), NEW m \in DOMAIN items, NEW n \in DOMAIN items
    PROVE  /\ Precedes(items, m, n) => ~Precedes(items, n, m) /\ m # n
           /\ m # n => Precedes(items, m, n) \/ Precedes(items, n, m)
           /\ \A k \in DOMAIN items :
                Precedes(items, m, n) /\ Precedes(items, n, k) => Precedes(items, m, k)
<1>1. m \in Nat /\ n \in Nat /\ DOMAIN items \subseteq Nat
  BY LenProperties
<1>2. \A k \in DOMAIN items : Rank[items[k].group] \in Int
  BY RankOfItem
<1> QED BY <1>1, <1>2 DEF Precedes

\* Places are a numbering of the items, from the first to the last.
LEMMA Places ==
    ASSUME NEW items \in Seq(Item)
    PROVE  /\ \A n \in DOMAIN items : Place(items, n) \in DOMAIN items
           /\ \A m, n \in DOMAIN items :
                Precedes(items, m, n) => Place(items, m) < Place(items, n)
           /\ \A k \in DOMAIN items : \E n \in DOMAIN items : Place(items, n) = k
<1> DEFINE N == DOMAIN items
           Before(n) == {m \in N : Precedes(items, m, n)}
           f == [n \in N |-> Place(items, n)]
<1>1. /\ N = 1..Len(items) /\ Len(items) \in Nat
      /\ IsFiniteSet(N) /\ Cardinality(N) = Len(items)
  <2>1. N = 1..Len(items) /\ Len(items) \in Nat
    BY LenProperties
  <2>2. /\ IsFiniteSet(1..Len(items))
        /\ Cardinality(1..Len(items)) = IF 1 > Len(items) THEN 0 ELSE Len(items) - 1 + 1
    BY <2>1, FS_Interval
  <2> QED BY <2>1, <2>2
<1>2. ASSUME NEW n \in N
      PROVE  /\ IsFiniteSet(Before(n)) /\ Cardinality(Before(n)) \in Nat
             /\ Cardinality(Before(n)) < Len(items)
  <2>1. Before(n) \subseteq N /\ n \notin Before(n)
    BY PrecedesTotal
  <2>2. IsFiniteSet(Before(n)) /\ Cardinality(Before(n)) <= Cardinality(N)
        /\ (Cardinality(N) = Cardinality(Before(n)) => N = Before(n))
    <3> HIDE DEF Before
    <3> QED BY <1>1, <2>1, FS_Subset
  <2>3. Cardinality(Before(n)) \in Nat
    BY <2>2, FS_CardinalityType
  <2> HIDE DEF Before
  <2> QED BY <1>1, <2>1, <2>2, <2>3
<1>3. ASSUME NEW m \in N, NEW n \in N, Precedes(items, m, n)
      PROVE  Cardinality(Before(m)) < Cardinality(Before(n))
  <2>1. Before(m) \subseteq Before(n)
    BY <1>3, PrecedesTotal
  <2>2. m \in Before(n) /\ m \notin Before(m)
    BY <1>3, PrecedesTotal
  <2>3. IsFiniteSet(Before(n)) /\ Cardinality(Before(n)) \in Nat /\ Cardinality(Before(m)) \in Nat
    BY <1>2
  <2> HIDE DEF Before
  <2>4. /\ Cardinality(Before(m)) <= Cardinality(Before(n))
        /\ Cardinality(Before(n)) = Cardinality(Before(m)) => Before(n) = Before(m)
    BY <2>1, <2>3, FS_Subset
  <2> QED BY <2>2, <2>3, <2>4
<1>4. \A n \in N : Place(items, n) = Cardinality(Before(n)) + 1
  BY DEF Place
<1> HIDE DEF Before
<1>5. \A n \in N : Place(items, n) \in N
  BY <1>1, <1>2, <1>4
<1>6. \A m, n \in N : Precedes(items, m, n) => Place(items, m) < Place(items, n)
  BY <1>2, <1>3, <1>4
<1>7. f \in Injection(N, N)
  <2>1. f \in [N -> N]
    BY <1>5
  <2>2. ASSUME NEW m \in N, NEW n \in N, f[m] = f[n] PROVE m = n
    <3>1. Place(items, m) = Place(items, n) /\ Place(items, m) \in Int
      BY <1>1, <1>5, <2>2
    <3> QED BY <1>6, <3>1, PrecedesTotal
  <2> QED BY <2>1, <2>2 DEF Injection, IsInjective
<1>8. f \in Surjection(N, N)
  BY <1>1, <1>7, FS_Injection
<1>9. \A k \in N : \E n \in N : f[n] = k
  BY <1>8 DEF Surjection
<1> QED BY <1>5, <1>6, <1>9

\* The item at each place.
LEMMA OrderedAt ==
    ASSUME NEW items \in Seq(Item)
    PROVE  \E p \in [DOMAIN items -> DOMAIN items] :
            /\ Ordered(items) = [k \in DOMAIN items |-> items[p[k]]]
            /\ \A n \in DOMAIN items : \E k \in DOMAIN items : p[k] = n
            /\ \A j, k \in DOMAIN items : j < k => Precedes(items, p[j], p[k])
<1> DEFINE N == DOMAIN items
           p == [k \in N |-> CHOOSE n \in N : Place(items, n) = k]
<1>1. N = 1..Len(items) /\ Len(items) \in Nat
  BY LenProperties
<1>2. \A k \in N : p[k] \in N /\ Place(items, p[k]) = k
  BY Places
<1>3. \A n \in N : Place(items, n) \in N
  BY Places
<1>4. \A m, n \in N : Precedes(items, m, n) => Place(items, m) < Place(items, n)
  BY Places
<1>5. Ordered(items) = [k \in N |-> items[p[k]]]
  BY DEF Ordered
<1> HIDE DEF p
<1>6. ASSUME NEW m \in N, NEW n \in N, Place(items, m) = Place(items, n) PROVE m = n
  <2>1. Place(items, m) \in Int
    BY <1>1, <1>3
  <2> QED BY <1>4, <1>6, <2>1, PrecedesTotal
<1>7. \A n \in N : p[Place(items, n)] = n
  BY <1>2, <1>3, <1>6
<1>8. ASSUME NEW j \in N, NEW k \in N, j < k PROVE Precedes(items, p[j], p[k])
  <2>1. p[j] # p[k] /\ ~Precedes(items, p[k], p[j])
    BY <1>1, <1>2, <1>4, <1>8
  <2> QED BY <1>2, <2>1, PrecedesTotal
<1>9. p \in [N -> N]
  BY <1>2 DEF p
<1> QED BY <1>3, <1>5, <1>7, <1>8, <1>9

\* Sorting keeps the items, and sorting again changes nothing.
LEMMA OrderedItems ==
    ASSUME NEW items \in Seq(Item)
    PROVE  /\ Ordered(items) \in Seq(Item)
           /\ Len(Ordered(items)) = Len(items)
           /\ \A k \in DOMAIN items : \E n \in DOMAIN items : Ordered(items)[k] = items[n]
           /\ \A n \in DOMAIN items : \E k \in DOMAIN items : Ordered(items)[k] = items[n]
           /\ Ordered(Ordered(items)) = Ordered(items)
<1> DEFINE N == DOMAIN items
           s == Ordered(items)
<1>1. N = 1..Len(items) /\ Len(items) \in Nat
  BY LenProperties
<1>2. PICK p \in [N -> N] : /\ s = [k \in N |-> items[p[k]]]
                            /\ \A n \in N : \E k \in N : p[k] = n
                            /\ \A j, k \in N : j < k => Precedes(items, p[j], p[k])
  BY OrderedAt
<1>3. \A k \in N : items[k] \in Item
  BY ElementOfSeq, LenProperties
<1>4. s \in [1..Len(items) -> Item]
  BY <1>1, <1>2, <1>3
<1>5. s \in Seq(Item) /\ Len(s) = Len(items) /\ DOMAIN s = N
  BY <1>1, <1>4
<1> HIDE DEF s
<1>6. ASSUME NEW m \in N, NEW n \in N PROVE Precedes(s, m, n) <=> m < n
  <2>1. ASSUME NEW j \in N, NEW k \in N, j < k PROVE Precedes(s, j, k)
    <3>1. Precedes(items, p[j], p[k])
      BY <1>2, <2>1
    <3>2. s[j] = items[p[j]] /\ s[k] = items[p[k]]
      BY <1>2
    <3> QED BY <2>1, <3>1, <3>2 DEF Precedes
  <2>2. m < n \/ m = n \/ n < m
    BY <1>1
  <2> QED BY <1>1, <1>5, <2>1, <2>2, PrecedesTotal
<1>7. ASSUME NEW n \in N PROVE Place(s, n) = n
  <2> DEFINE before == {m \in DOMAIN s : Precedes(s, m, n)}
  <2>1. before = 1..(n - 1)
    BY <1>1, <1>5, <1>6
  <2>2. Cardinality(1..(n - 1)) = n - 1
    <3>1. n \in Nat /\ n >= 1 /\ n - 1 \in Int /\ 1 \in Int
      BY <1>1
    <3>2. Cardinality(1..(n - 1)) = IF 1 > n - 1 THEN 0 ELSE n - 1 - 1 + 1
      BY <3>1, FS_Interval
    <3> QED BY <3>1, <3>2
  <2>3. n \in Int
    BY <1>1
  <2>4. Place(s, n) = Cardinality(before) + 1
    BY DEF Place
  <2> HIDE DEF before
  <2> QED BY <2>1, <2>2, <2>3, <2>4
<1>8. Ordered(s) = [k \in N |-> s[k]]
  <2>1. ASSUME NEW k \in N PROVE (CHOOSE n \in N : Place(s, n) = k) = k
    BY <1>7
  <2>2. Ordered(s) = [k \in N |-> s[CHOOSE n \in N : Place(s, n) = k]]
    BY <1>5 DEF Ordered
  <2> QED BY <2>1, <2>2
<1>9. Ordered(s) = s
  BY <1>5, <1>8, <1>2
<1> QED BY <1>2, <1>5, <1>9 DEF s
-----------------------------------------------------------------------------
(* What policies say of a finding *)

\* Publication takes no expiry date back: a published document stays
\* published, and only an open end is closed.
LEMMA ExpiryStands ==
    ASSUME Documents, Versions!Next, NEW d \in Versions!Published
    PROVE  /\ d \in Versions!Published'
           /\ doc'[d].expiry \in {doc[d].expiry} \/ doc[d].expiry = Never
<1>1. d \in Versions!Published'
  BY VersionsClose DEF Closes
<1>2. d \in Docs /\ doc[d].status = "published"
  BY DEF Versions!Published
<1>3. ASSUME NEW e \in Docs, Versions!Publish(e)
      PROVE  doc'[d].expiry = doc[d].expiry \/ doc[d].expiry = Never
  BY <1>2, <1>3 DEF Versions!Publish, Versions!Predecessors
<1>4. ASSUME NEW e \in Docs, Versions!Fail(e) \/ Versions!Retry(e)
      PROVE  doc'[d].expiry = doc[d].expiry
  BY <1>2, <1>4 DEF Versions!Fail, Versions!Retry, Documents, Document
<1>5. ASSUME NEW S \in SUBSET Docs, Versions!Complete(S)
      PROVE  doc'[d].expiry = doc[d].expiry
  BY <1>2, <1>5 DEF Versions!Complete, Documents, Document
<1> QED BY <1>1, <1>3, <1>4, <1>5 DEF Versions!Next

\* What an item says depends on the bindings and on the documents that are
\* published, and on nothing else.
LEMMA PreparedStays ==
    ASSUME bindings' = bindings, Versions!Published' = Versions!Published,
           \A d \in Versions!Published : doc'[d].expiry = doc[d].expiry,
           NEW finding
    PROVE  Prepared(finding)' = Prepared(finding)
<1>1. \A d, date : Versions!InForce(d, date)' <=> Versions!InForce(d, date)
  BY DEF Versions!InForce
<1>2. Applicable(finding.rule, finding.date)' = Applicable(finding.rule, finding.date)
  BY <1>1 DEF Applicable, Applies
<1>3. Cited(finding.rule, finding.date)' = Cited(finding.rule, finding.date)
  BY <1>2 DEF Cited, Contiguous
<1>4. \A b \in Cited(finding.rule, finding.date) : b.document \in Versions!Published
  BY DEF Cited, Applicable, Applies, Versions!InForce
<1>5. {[binding |-> b, expiry |-> doc'[b.document].expiry] : b \in Cited(finding.rule, finding.date)}
        = {[binding |-> b, expiry |-> doc[b.document].expiry] : b \in Cited(finding.rule, finding.date)}
  BY <1>4
<1> QED BY <1>3, <1>5 DEF Prepared, Attention

\* A failure that is recorded without the lock changes none of it.
LEMMA FailureUnseen ==
    ASSUME Documents, NEW d \in Docs, Versions!Fail(d), bindings' = bindings, NEW finding
    PROVE  Prepared(finding)' = Prepared(finding)
<1>1. /\ d \in Docs /\ doc[d].status = "indexing"
      /\ doc' = [doc EXCEPT ![d].status = "failed"]
  BY DEF Versions!Fail, Versions!Indexing
<1>2. \A e \in Docs : /\ doc'[e].expiry = doc[e].expiry
                      /\ e # d => doc'[e].status = doc[e].status
  BY <1>1 DEF Documents, Document
<1>3. doc'[d].status = "failed"
  BY <1>1 DEF Documents, Document
<1>4. Versions!Published' = Versions!Published
  BY <1>1, <1>2, <1>3 DEF Versions!Published
<1>5. \A e \in Versions!Published : doc'[e].expiry = doc[e].expiry
  BY <1>2 DEF Versions!Published
<1> QED BY <1>4, <1>5, PreparedStays

\* The citations of an item are bindings to published documents, with the
\* expiry dates these have.
LEMMA PreparedItem ==
    ASSUME IInv, NEW finding \in Finding
    PROVE  /\ Prepared(finding) \in Item
           /\ Prepared(finding).finding = finding
           /\ \A c \in Prepared(finding).citations :
                /\ c.binding \in bindings
                /\ c.binding.document \in Versions!Published
                /\ c.expiry = doc[c.binding.document].expiry
<1> DEFINE group == Cited(finding.rule, finding.date)
<1>1. \A b \in group : b \in bindings /\ b.document \in Versions!Published
  BY DEF Cited, Applicable, Applies, Versions!InForce
<1>2. \A b \in group : b \in Binding /\ b.document \in Docs /\ doc[b.document].expiry \in 0..Never
  BY <1>1 DEF IInv, TypeOK, Documents, Document, Versions!Published
<1> HIDE DEF group
<1>3. {[binding |-> b, expiry |-> doc[b.document].expiry] : b \in group} \subseteq Citation
  BY <1>2 DEF Citation
<1>4. Attention(finding.verdict) \in Groups
  BY DEF Finding, Attention, Groups
<1>5. Prepared(finding) =
        [finding |-> finding, group |-> Attention(finding.verdict),
         citations |-> {[binding |-> b, expiry |-> doc[b.document].expiry] : b \in group}]
  BY DEF Prepared, group
<1>6. Prepared(finding) \in Item
  BY <1>3, <1>4, <1>5 DEF Item
<1>7. \A c \in Prepared(finding).citations :
        \E b \in group : c.binding = b /\ c.expiry = doc[b.document].expiry
  BY <1>5
<1> QED BY <1>1, <1>5, <1>6, <1>7

-----------------------------------------------------------------------------
(* The manifest *)

\* A set of places that is not empty has a last one: one with the fewest above.
LEMMA LastPlace ==
    ASSUME NEW n \in Nat, NEW S, S \subseteq 1..n, S # {}
    PROVE  \E m \in S : \A x \in S : x <= m
<1> DEFINE Above(m) == {x \in S : m < x}
           T == {Above(m) : m \in S}
<1>1. IsFiniteSet(S)
  <2>1. IsFiniteSet(1..n)
    BY FS_Interval
  <2> QED BY <2>1, FS_Subset
<1>2. T \subseteq FiniteSubsetsOf(S) /\ T # {}
  <2>1. T \subseteq FiniteSubsetsOf(S)
    BY <1>1, FS_Subset DEF FiniteSubsetsOf
  <2>2. PICK m \in S : TRUE
    OBVIOUS
  <2> QED BY <2>1, <2>2
<1> HIDE DEF T
<1>3. PICK least \in T : \A t \in T : ~(<<t, least>> \in StrictSubsetOrdering(S))
  BY <1>2, WFMin, FS_StrictSubsetOrderingWellFounded
<1>4. PICK m \in S : least = Above(m)
  BY <1>3 DEF T
<1>5. ASSUME NEW x \in S, m < x PROVE FALSE
  <2>1. Above(x) \in T
    BY DEF T
  <2>2. Above(x) \subseteq Above(m) /\ x \in Above(m) /\ x \notin Above(x)
    <3>1. x \in Above(m) /\ x \notin Above(x)
      BY <1>5
    <3>2. ASSUME NEW y \in Above(x) PROVE y \in Above(m)
      <4>1. y \in Int /\ x \in Int /\ m \in Int /\ x < y /\ m < x
        BY <1>5
      <4> QED BY <4>1
    <3> QED BY <3>1, <3>2
  <2>3. Above(x) \in SUBSET S /\ Above(m) \in SUBSET S
    OBVIOUS
  <2>4. ~(<<Above(x), Above(m)>> \in StrictSubsetOrdering(S))
    BY <1>3, <1>4, <2>1
  <2> HIDE DEF Above
  <2> QED BY <2>2, <2>3, <2>4 DEF StrictSubsetOrdering
<1> QED BY <1>5

\* When all citations of a document give it one expiry date, the manifest
\* gives it that date.
LEMMA ManifestAgrees ==
    ASSUME NEW items \in Seq(Item), NEW E,
           \A n \in DOMAIN items : \A c \in items[n].citations : c.expiry = E[c.binding.document]
    PROVE  PolicyManifest(items) = [d \in CitedDocuments(items) |-> E[d]]
<1> DEFINE N == DOMAIN items
           Of(n) == {c.binding.document : c \in items[n].citations}
           Last(d) == CHOOSE n \in N :
                /\ d \in CitedDocuments(<<items[n]>>)
                /\ \A m \in N : d \in CitedDocuments(<<items[m]>>) => m <= n
<1>1. N = 1..Len(items) /\ Len(items) \in Nat
  BY LenProperties
<1>2. ASSUME NEW n \in N PROVE CitedDocuments(<<items[n]>>) = Of(n)
  BY DEF CitedDocuments
<1>3. ASSUME NEW d \in CitedDocuments(items)
      PROVE  /\ Last(d) \in N
             /\ d \in CitedDocuments(<<items[Last(d)]>>)
  <2> DEFINE S == {n \in N : d \in CitedDocuments(<<items[n]>>)}
  <2>1. \E n \in N : d \in Of(n)
    BY DEF CitedDocuments
  <2>2. S \subseteq 1..Len(items) /\ S # {}
    BY <1>1, <1>2, <2>1
  <2>3. PICK m \in S : \A x \in S : x <= m
    <3> HIDE DEF S
    <3> QED BY <1>1, <2>2, LastPlace
  <2> QED BY <2>3
<1>4. ASSUME NEW d \in CitedDocuments(items)
      PROVE  (CHOOSE c \in items[Last(d)].citations : c.binding.document = d).expiry = E[d]
  <2>1. Last(d) \in N /\ d \in Of(Last(d))
    BY <1>2, <1>3, <1>4
  <2> HIDE DEF Last
  <2>2. \E c \in items[Last(d)].citations : c.binding.document = d
    BY <2>1
  <2> QED BY <2>1, <2>2
<1>5. PolicyManifest(items) =
        [d \in CitedDocuments(items) |->
            (CHOOSE c \in items[Last(d)].citations : c.binding.document = d).expiry]
  BY DEF PolicyManifest
<1> QED BY <1>4, <1>5

-----------------------------------------------------------------------------

\* Every step of the reports is a step of publication and binding, or leaves
\* policies and bindings alone.
LEMMA PolicyStepOrStutter ==
    ASSUME ReportNext
    PROVE  [Next]_vars
<1>1. CASE PolicyStep
  <2>1. ASSUME NEW d \in Docs, Versions!Fail(d), UNCHANGED <<bindings, confirmed>>
        PROVE  Next
    BY <2>1 DEF Next, PublishStep, Versions!Next
  <2> QED BY <1>1, <2>1 DEF PolicyStep
<1>2. ASSUME NEW f \in Files, CompleteValidation(f) PROVE UNCHANGED vars
  BY <1>2 DEF CompleteValidation
<1>3. CASE SaveConfig
  BY <1>3 DEF SaveConfig
<1>4. ASSUME NEW k \in Keys, NEW f \in Files, NEW t \in Templates,
             Begin(k, f, t) \/ Reuse(k, f, t) \/ Replay(k, f, t)
      PROVE  UNCHANGED vars
  BY <1>4 DEF Begin, Reuse, Replay
<1>5. CASE PrepareItem \/ FinishPreparing \/ RefuseUnconfigured
  BY <1>5 DEF PrepareItem, FinishPreparing, RefuseUnconfigured
<1>6. ASSUME NEW stage \in Stages, Flush(stage) PROVE UNCHANGED vars
  BY <1>6 DEF Flush
<1>7. CASE Commit \/ Fail
  BY <1>7 DEF Commit, Fail
<1> QED BY <1>1, <1>2, <1>3, <1>4, <1>5, <1>6, <1>7 DEF ReportNext

\* Reports are generated next to publication and binding, and change neither:
\* the composition behaves as PolicyBindings says (generate_report writes no
\* policy_document and no rule_policy_binding).
THEOREM PoliciesUntouched == ReportSpec => Spec
<1>1. ReportInit => Init
  BY DEF ReportInit
<1>2. [ReportNext]_reportVars => [Next]_vars
  <2>1. ASSUME ReportNext PROVE [Next]_vars
    BY <2>1, PolicyStepOrStutter
  <2>2. ASSUME UNCHANGED reportVars PROVE UNCHANGED vars
    BY <2>2 DEF reportVars
  <2> QED BY <2>1, <2>2
<1> QED BY <1>1, <1>2, PTL DEF ReportSpec, Spec

\* No report cites two versions of one document family on a day, while reports
\* are generated.
THEOREM ReportsCiteOneVersion == ReportSpec => []OneVersionCited
<1> QED BY PoliciesUntouched, OneVersion, PTL

-----------------------------------------------------------------------------

\* A new key is stored with its request; the others stay.
LEMMA RememberStep ==
    ASSUME LedgerInv, NEW k \in Keys, NEW f \in Files, NEW t \in Templates, Fresh(k),
           ledger' = Remember(k, f, t),
           answered' = answered \union {[key |-> k, file |-> f, template |-> t]}
    PROVE  (ledger \in [Keys -> Request])' /\ AnsweredKnown'
<1> DEFINE entry == [file |-> f, template |-> t]
<1>1. ledger' = [ledger EXCEPT ![k] = entry]
  BY DEF Remember
<1>2. entry \in Request
  BY DEF Request
<1>3. (ledger \in [Keys -> Request])'
  BY <1>1, <1>2 DEF LedgerInv
<1>4. ASSUME NEW a \in answered PROVE a.key # k
  <2>1. /\ a \in [key : Keys, file : Files, template : Templates]
        /\ ledger[a.key] = [file |-> a.file, template |-> a.template]
    BY <1>4 DEF LedgerInv, AnsweredKnown
  <2>2. ledger[a.key].file = a.file /\ a.file \in Files
    BY <2>1
  <2> QED BY <2>2, ReportAssumption DEF Fresh
<1>5. AnsweredKnown'
  <2> SUFFICES ASSUME NEW a \in answered'
               PROVE  /\ a \in [key : Keys, file : Files, template : Templates]
                      /\ ledger'[a.key] = [file |-> a.file, template |-> a.template]
    BY DEF AnsweredKnown
  <2>1. CASE a \in answered
    <3>1. /\ a \in [key : Keys, file : Files, template : Templates]
          /\ ledger[a.key] = [file |-> a.file, template |-> a.template]
      BY <2>1 DEF LedgerInv, AnsweredKnown
    <3>2. a.key \in Keys /\ a.key # k
      BY <1>4, <2>1, <3>1
    <3> QED BY <1>1, <3>1, <3>2 DEF LedgerInv
  <2>2. CASE a = [key |-> k, file |-> f, template |-> t]
    BY <1>1, <2>2 DEF LedgerInv
  <2> QED BY <2>1, <2>2
<1> QED BY <1>3, <1>5

LEMMA LedgerStep ==
    ASSUME LedgerInv, [ReportNext]_reportVars
    PROVE  LedgerInv'
<1> USE DEF LedgerInv
<1>1. ASSUME UNCHANGED <<ledger, tx, answered>> PROVE LedgerInv'
  BY <1>1 DEF LockedKey, AnsweredKnown, Fresh
<1>2. CASE PolicyStep
  BY <1>1, <1>2 DEF PolicyStep, reportState
<1>3. ASSUME NEW f \in Files, CompleteValidation(f) PROVE LedgerInv'
  BY <1>1, <1>3 DEF CompleteValidation
<1>4. CASE SaveConfig
  BY <1>1, <1>4 DEF SaveConfig
<1>5. ASSUME NEW k \in Keys, NEW f \in Files, NEW t \in Templates,
             Begin(k, f, t) \/ Reuse(k, f, t) \/ Replay(k, f, t)
      PROVE  LedgerInv'
  <2>1. CASE Begin(k, f, t)
    BY <2>1 DEF Begin, Idle, LockedKey, AnsweredKnown, Fresh
  <2>2. CASE Reuse(k, f, t)
    <3>1. tx.pc = "idle" /\ tx' = tx
      BY <2>2 DEF Reuse, LockFree
    <3>2. (ledger \in [Keys -> Request])' /\ AnsweredKnown'
      BY <2>2, RememberStep DEF Reuse
    <3> QED BY <3>1, <3>2 DEF LockedKey
  <2>3. CASE Replay(k, f, t)
    BY <2>3 DEF Replay, LockedKey, AnsweredKnown, Fresh
  <2> QED BY <1>5, <2>1, <2>2, <2>3
<1>6. ASSUME ledger' = ledger, answered' = answered, tx.pc # "idle",
             tx'.key = tx.key, tx'.file = tx.file, tx'.template = tx.template
      PROVE  LedgerInv'
  BY <1>6 DEF LockedKey, AnsweredKnown, Fresh
<1>7. ASSUME ledger' = ledger, answered' = answered, tx' = Idle PROVE LedgerInv'
  BY <1>7 DEF LockedKey, AnsweredKnown, Idle
<1>8. CASE PrepareItem
  BY <1>6, <1>8 DEF PrepareItem
<1>9. CASE FinishPreparing
  BY <1>6, <1>9 DEF FinishPreparing
<1>10. CASE RefuseUnconfigured
  BY <1>7, <1>10 DEF RefuseUnconfigured
<1>11. ASSUME NEW stage \in Stages, Flush(stage) PROVE LedgerInv'
  BY <1>6, <1>11 DEF Flush, Follows
<1>12. CASE Commit
  <2>1. tx.key \in Keys /\ tx.file \in Files /\ tx.template \in Templates /\ Fresh(tx.key)
    BY <1>12 DEF Commit, LockedKey
  <2>2. (ledger \in [Keys -> Request])' /\ AnsweredKnown'
    BY <1>12, <2>1, RememberStep DEF Commit
  <2> QED BY <1>12, <2>2 DEF Commit, LockedKey, Idle
<1>13. CASE Fail
  BY <1>7, <1>13 DEF Fail
<1>14. CASE UNCHANGED reportVars
  BY <1>1, <1>14 DEF reportVars, reportState
<1> QED BY <1>2, <1>3, <1>4, <1>5, <1>8, <1>9, <1>10, <1>11, <1>12, <1>13, <1>14
        DEF ReportNext

\* A key stands for one request, for ever: it is never accepted for another
\* batch or template, whether or not its request made the report itself
\* (report_request, _generate_report).
THEOREM OneRequest == ReportSpec => []OneRequestPerKey
<1>1. ReportInit => LedgerInv
  BY DEF ReportInit, LedgerInv, Request, LockedKey, AnsweredKnown, Idle
<1>2. LedgerInv /\ [ReportNext]_reportVars => LedgerInv'
  BY LedgerStep
<1>3. LedgerInv => OneRequestPerKey
  <2> SUFFICES ASSUME LedgerInv, NEW a \in answered, NEW b \in answered, a.key = b.key
               PROVE  a = b
    BY DEF OneRequestPerKey
  <2>1. [file |-> a.file, template |-> a.template] = [file |-> b.file, template |-> b.template]
    BY DEF LedgerInv, AnsweredKnown
  <2>2. a.file = b.file /\ a.template = b.template
    BY <2>1
  <2>3. /\ a \in [key : Keys, file : Files, template : Templates]
        /\ b \in [key : Keys, file : Files, template : Templates]
    BY DEF LedgerInv, AnsweredKnown
  <2> QED BY <2>2, <2>3
<1> QED BY <1>1, <1>2, <1>3, PTL DEF ReportSpec

-----------------------------------------------------------------------------
(* The transaction *)

LEMMA NoReportRow == NoReport \in ReportRow
<1>1. <<>> \in Seq(Item)
  BY EmptySeq
<1>2. <<>> \in UNION {[cited -> 0..Never] : cited \in SUBSET Docs}
  <2>1. <<>> \in [{} -> 0..Never]
    OBVIOUS
  <2> QED BY <2>1
<1>3. {} \in SUBSET UNION {BadRows[f] : f \in Files}
  OBVIOUS
<1>4. 0 \in 0..MaxConfigs
  BY ReportAssumption
<1> QED BY <1>1, <1>2, <1>3, <1>4 DEF NoReport, ReportRow

\* Nobody holds the lock.
LEMMA IdleTx ==
    ASSUME tx' = Idle
    PROVE  TxInv'
<1>1. Idle \in Transaction
  BY NoReportRow, EmptySeq, ReportAssumption DEF Idle, Transaction, Stages
<1>2. /\ Idle.pc = "idle" /\ Idle.draft = NoReport
      /\ Idle.prepared = <<>>
  BY DEF Idle
<1>3. PreparedIsCurrent'
  BY <1>2 DEF PreparedIsCurrent
<1> QED BY <1>1, <1>2, <1>3 DEF TxInv, PreparedItems, Draft

\* A step that leaves the transaction alone, and what it has read as true as it
\* was.
LEMMA TxFrame ==
    ASSUME TxInv, tx' = tx,
           tx.pc # "idle" => /\ report' = report /\ config' = config
                             /\ \A finding : Prepared(finding)' = Prepared(finding)
    PROVE  TxInv'
<1>1. CASE tx.pc = "idle"
  BY <1>1, IdleTx DEF TxInv
<1>2. CASE tx.pc # "idle"
  <2>1. (tx \in Transaction)'
    BY DEF TxInv
  <2>2. PreparedItems /\ Draft /\ report' = report /\ config' = config
    BY <1>2 DEF TxInv
  <2>3. PreparedItems'
    BY <2>2 DEF PreparedItems
  <2>4. Draft'
    BY <2>2 DEF Draft
  <2>5. PreparedIsCurrent'
    BY <1>2 DEF TxInv, PreparedIsCurrent
  <2> QED BY <1>2, <2>1, <2>2, <2>3, <2>4, <2>5 DEF TxInv
<1> QED BY <1>1, <1>2

\* Steps that change no policy change no item.
LEMMA SamePolicies ==
    ASSUME UNCHANGED vars, NEW finding
    PROVE  Prepared(finding)' = Prepared(finding)
<1>1. doc' = doc /\ bindings' = bindings
  BY DEF vars
<1>2. Versions!Published' = Versions!Published
  BY <1>1 DEF Versions!Published
<1> QED BY <1>1, <1>2, PreparedStays

LEMMA BeginTx ==
    ASSUME ReportInv, NEW k \in Keys, NEW f \in Files, NEW t \in Templates, Begin(k, f, t)
    PROVE  TxInv'
<1>1. tx' = [Idle EXCEPT !.pc = "preparing", !.file = f, !.key = k, !.template = t]
  BY DEF Begin
<1>2. /\ tx'.pc = "preparing" /\ tx'.file = f /\ tx'.prepared = <<>> /\ tx'.draft = NoReport
      /\ report'[f] = NoReport
  BY <1>1 DEF Begin, Idle
<1>3. (tx \in Transaction)'
  <2>1. <<>> \in Seq(Item) /\ 0 \in 0..MaxConfigs
    BY EmptySeq, ReportAssumption
  <2>2. tx' = [pc |-> "preparing", file |-> f, key |-> k, template |-> t,
               prepared |-> <<>>, config |-> 0, draft |-> NoReport]
    BY <1>1 DEF Idle
  <2> QED BY <2>1, <2>2, NoReportRow DEF Transaction, Stages
<1>4. Len(Findings[f]) \in Nat /\ Len(<<>>) = 0
  BY LenProperties, ReportAssumption
<1>5. PreparedItems'
  BY <1>2, <1>4 DEF PreparedItems
<1>6. PreparedIsCurrent' /\ Draft'
  BY <1>2 DEF PreparedIsCurrent, Draft
<1> QED BY <1>2, <1>3, <1>5, <1>6 DEF TxInv

LEMMA PrepareTx ==
    ASSUME ReportInv, IInv, PrepareItem
    PROVE  TxInv'
<1> DEFINE F == Findings[tx.file]
           n == Len(tx.prepared)
           item == Prepared(F[n + 1])
<1>1. /\ tx.pc = "preparing" /\ n < Len(F)
      /\ tx' = [tx EXCEPT !.prepared = Append(tx.prepared, item)]
      /\ report' = report /\ UNCHANGED vars
  BY DEF PrepareItem
<1>2. /\ tx \in Transaction /\ tx.file \in Files /\ tx.prepared \in Seq(Item)
      /\ n \in Nat /\ DOMAIN tx.prepared = 1..n
  BY <1>1, LenProperties DEF ReportInv, LedgerInv, LockedKey, TxInv, Transaction
<1>3. F \in Seq(Finding) /\ Len(F) \in Nat
  BY <1>2, ReportAssumption, LenProperties
<1>4. F[n + 1] \in Finding
  BY <1>1, <1>2, <1>3, ElementOfSeq
<1>5. item \in Item /\ item.finding = F[n + 1]
  BY <1>4, PreparedItem
<1> HIDE DEF F, n, item
<1>6. /\ tx'.prepared = Append(tx.prepared, item)
      /\ tx'.pc = tx.pc /\ tx'.file = tx.file /\ tx'.draft = tx.draft
  BY <1>1, <1>2 DEF Transaction
<1>7. /\ tx'.prepared \in Seq(Item) /\ Len(tx'.prepared) = n + 1
      /\ DOMAIN tx'.prepared = 1..(n + 1)
      /\ \A m \in 1..n : tx'.prepared[m] = tx.prepared[m]
      /\ tx'.prepared[n + 1] = item
  BY <1>2, <1>5, <1>6 DEF n
<1>8. (tx \in Transaction)'
  BY <1>1, <1>2, <1>6, <1>7 DEF Transaction
<1>9. PreparedItems'
  <2>1. ASSUME NEW m \in 1..(n + 1) PROVE tx'.prepared[m].finding = F[m]
    <3>1. m \in 1..n \/ m = n + 1
      BY <1>2
    <3>2. \A i \in 1..n : tx.prepared[i].finding = F[i]
      BY <1>1 DEF ReportInv, TxInv, PreparedItems, F, n
    <3> QED BY <1>5, <1>7, <3>1, <3>2
  <2>2. n + 1 <= Len(F)
    BY <1>1, <1>2, <1>3
  <2> QED BY <1>1, <1>6, <1>7, <2>1, <2>2 DEF PreparedItems, F
<1>10. PreparedIsCurrent'
  <2>1. \A finding : Prepared(finding)' = Prepared(finding)
    BY <1>1, SamePolicies
  <2>2. ASSUME NEW m \in 1..(n + 1)
        PROVE  tx'.prepared[m] = Prepared(tx'.prepared[m].finding)
    <3>1. m \in 1..n \/ m = n + 1
      BY <1>2
    <3>2. \A i \in 1..n : tx.prepared[i] = Prepared(tx.prepared[i].finding)
      BY <1>2 DEF ReportInv, TxInv, PreparedIsCurrent
    <3>3. item = Prepared(item.finding)
      BY <1>5 DEF item
    <3> QED BY <1>7, <3>1, <3>2, <3>3
  <2> QED BY <1>1, <1>6, <1>7, <2>1, <2>2 DEF PreparedIsCurrent
<1>11. Draft' /\ report'[tx'.file] = NoReport
  BY <1>1, <1>6 DEF ReportInv, TxInv, Draft
<1> QED BY <1>1, <1>6, <1>8, <1>9, <1>10, <1>11 DEF TxInv

LEMMA SameFindings ==
    ASSUME NEW s, NEW f,
           \A k \in DOMAIN s : \E n \in DOMAIN Findings[f] : s[k].finding = Findings[f][n],
           \A n \in DOMAIN Findings[f] : \E k \in DOMAIN s : s[k].finding = Findings[f][n]
    PROVE  FindingsOf(s) = FindingSet(f)
<1>1. ASSUME NEW x \in FindingsOf(s) PROVE x \in FindingSet(f)
  BY <1>1 DEF FindingsOf, FindingSet
<1>2. ASSUME NEW x \in FindingSet(f) PROVE x \in FindingsOf(s)
  BY <1>2 DEF FindingsOf, FindingSet
<1> QED BY <1>1, <1>2

LEMMA FinishTx ==
    ASSUME ReportInv, FinishPreparing
    PROVE  TxInv'
<1> DEFINE F == Findings[tx.file]
           s == Ordered(tx.prepared)
           N == DOMAIN tx.prepared
<1>1. /\ tx.pc = "preparing" /\ Len(tx.prepared) = Len(F) /\ config > 0
      /\ tx' = [tx EXCEPT !.pc = "prepared", !.prepared = s, !.config = config]
      /\ report' = report /\ config' = config /\ UNCHANGED vars
  BY DEF FinishPreparing, HasConfig
<1>2. /\ tx \in Transaction /\ tx.file \in Files /\ tx.prepared \in Seq(Item)
      /\ config \in 0..MaxConfigs
  BY <1>1 DEF ReportInv, LedgerInv, LockedKey, TxInv, Transaction, Bounds
<1>3. F \in Seq(Finding)
  BY <1>2, ReportAssumption
<1>4. N = 1..Len(F) /\ DOMAIN F = 1..Len(F) /\ N = 1..Len(tx.prepared)
  BY <1>1, <1>2, <1>3, LenProperties
<1>5. /\ s \in Seq(Item) /\ DOMAIN s = N
      /\ \A k \in N : \E n \in N : s[k] = tx.prepared[n]
      /\ \A n \in N : \E k \in N : s[k] = tx.prepared[n]
      /\ Ordered(s) = s
  BY <1>2, <1>4, OrderedItems, LenProperties
<1> HIDE DEF F, s, N
<1>6. /\ tx'.pc = "prepared" /\ tx'.prepared = s /\ tx'.config = config
      /\ tx'.file = tx.file /\ tx'.draft = tx.draft
  BY <1>1, <1>2 DEF Transaction
<1>7. (tx \in Transaction)'
  BY <1>1, <1>2, <1>5 DEF Transaction, Stages
<1>8. PreparedItems'
  <2>1. \A n \in N : tx.prepared[n].finding = F[n]
    BY <1>1, <1>4 DEF ReportInv, TxInv, PreparedItems, F
  <2>2. ASSUME NEW k \in N PROVE \E n \in N : s[k].finding = F[n]
    <3>1. PICK n \in N : s[k] = tx.prepared[n]
      BY <1>5
    <3> QED BY <2>1, <3>1
  <2>3. ASSUME NEW n \in N PROVE \E k \in N : s[k].finding = F[n]
    <3>1. PICK k \in N : s[k] = tx.prepared[n]
      BY <1>5
    <3> QED BY <2>1, <3>1
  <2>4. DOMAIN F = N /\ DOMAIN s = N
    BY <1>4, <1>5
  <2>5. FindingsOf(s) = FindingSet(tx.file)
    BY <2>2, <2>3, <2>4, SameFindings DEF F
  <2>6. config' > 0 /\ tx'.pc # "preparing"
    BY <1>1, <1>6
  <2> QED BY <1>5, <1>6, <2>5, <2>6 DEF PreparedItems
<1>9. PreparedIsCurrent'
  <2>1. \A finding : Prepared(finding)' = Prepared(finding)
    BY <1>1, SamePolicies
  <2>2. \A n \in N : tx.prepared[n] = Prepared(tx.prepared[n].finding)
    BY DEF ReportInv, TxInv, PreparedIsCurrent, N
  <2>3. ASSUME NEW k \in N PROVE s[k] = Prepared(s[k].finding)
    <3>1. PICK n \in N : s[k] = tx.prepared[n]
      BY <1>5
    <3> QED BY <2>2, <3>1
  <2>4. tx'.config = config'
    BY <1>1, <1>6
  <2> QED BY <1>5, <1>6, <2>1, <2>3, <2>4 DEF PreparedIsCurrent
<1>10. Draft' /\ report'[tx'.file] = NoReport
  BY <1>1, <1>6 DEF ReportInv, TxInv, Draft
<1> QED BY <1>6, <1>7, <1>8, <1>9, <1>10 DEF TxInv

\* While nobody may change the policies, an item's citations have the expiry
\* dates of their documents.
LEMMA CitationsNow ==
    ASSUME ReportInv, IInv, NEW n \in DOMAIN tx.prepared, NEW c \in tx.prepared[n].citations
    PROVE  /\ c.binding \in bindings
           /\ c.binding.document \in Versions!Published
           /\ c.expiry = doc[c.binding.document].expiry
<1>1. tx.prepared \in Seq(Item)
  BY DEF ReportInv, TxInv, Transaction
<1>2. tx.prepared[n] \in Item
  BY <1>1, ElementOfSeq, LenProperties
<1>3. tx.prepared[n].finding \in Finding
  BY <1>2 DEF Item
<1>4. tx.prepared[n] = Prepared(tx.prepared[n].finding)
  BY DEF ReportInv, TxInv, PreparedIsCurrent
<1> QED BY <1>3, <1>4, PreparedItem

LEMMA ManifestNow ==
    ASSUME ReportInv, IInv
    PROVE  /\ PolicyManifest(tx.prepared) \in UNION {[cited -> 0..Never] : cited \in SUBSET Docs}
           /\ PolicyManifest(tx.prepared) = [d \in CitedDocuments(tx.prepared) |-> doc[d].expiry]
<1> DEFINE E == [d \in Docs |-> doc[d].expiry]
           D == CitedDocuments(tx.prepared)
<1>1. tx.prepared \in Seq(Item)
  BY DEF ReportInv, TxInv, Transaction
<1>2. ASSUME NEW n \in DOMAIN tx.prepared, NEW c \in tx.prepared[n].citations
      PROVE  c.binding.document \in Docs /\ c.expiry = E[c.binding.document]
  BY CitationsNow DEF Versions!Published
<1>3. PolicyManifest(tx.prepared) = [d \in D |-> E[d]]
  <2> HIDE DEF E, D
  <2> QED BY <1>1, <1>2, ManifestAgrees DEF D
<1>4. D \subseteq Docs
  BY <1>2 DEF CitedDocuments
<1>5. \A d \in D : E[d] = doc[d].expiry /\ E[d] \in 0..Never
  BY <1>4 DEF IInv, Documents, Document
<1> HIDE DEF D, E
<1>6. [d \in D |-> E[d]] \in [D -> 0..Never]
  BY <1>5
<1>7. [d \in D |-> E[d]] = [d \in D |-> doc[d].expiry]
  BY <1>5
<1> QED BY <1>3, <1>4, <1>6, <1>7 DEF D

\* Every flush adds what it should.
LEMMA FlushTx ==
    ASSUME ReportInv, IInv, NEW stage \in Stages, Flush(stage)
    PROVE  TxInv'
<1> DEFINE Flushing == {"created", "itemized", "listed", "planned", "done"}
           d == tx.draft
           n == Len(d.items)
<1>1. /\ tx' = [tx EXCEPT !.pc = stage, !.draft = Flushed(stage)]
      /\ Follows(stage)
      /\ report' = report /\ config' = config /\ UNCHANGED vars
  BY DEF Flush
<1>2. /\ tx \in Transaction /\ tx.prepared \in Seq(Item) /\ d \in ReportRow
      /\ tx.file \in Files /\ tx.template \in Templates
      /\ d.items \in Seq(Item) /\ n \in Nat
  <2>1. tx.pc # "idle" /\ tx \in Transaction
    BY <1>1 DEF Follows, ReportInv, TxInv
  <2>2. d \in ReportRow
    BY <2>1 DEF Transaction
  <2>3. d.items \in Seq(Item)
    BY <2>2 DEF ReportRow
  <2> QED BY <2>1, <2>2, <2>3, LenProperties DEF ReportInv, LedgerInv, LockedKey, Transaction
<1>3. /\ tx'.pc = stage /\ tx'.draft = Flushed(stage) /\ tx'.file = tx.file
      /\ tx'.prepared = tx.prepared /\ tx'.config = tx.config /\ tx'.template = tx.template
  BY <1>1, <1>2 DEF Transaction
<1>4. stage \in Flushing /\ tx.pc \in Stages \ {"idle", "preparing"}
  BY <1>1 DEF Follows, Stages
<1>5. PreparedItems'
  BY <1>1, <1>3, <1>4 DEF ReportInv, TxInv, PreparedItems, Stages
<1>6. PreparedIsCurrent'
  <2>1. \A finding : Prepared(finding)' = Prepared(finding)
    BY <1>1, SamePolicies
  <2>2. PreparedIsCurrent
    BY DEF ReportInv, TxInv
  <2> QED BY <1>1, <1>3, <1>4, <2>1, <2>2 DEF PreparedIsCurrent
<1>7. Draft
  BY DEF ReportInv, TxInv
<1>8. ASSUME Flushed(stage) \in ReportRow, Draft' PROVE TxInv'
  <2>1. (tx \in Transaction)'
    BY <1>1, <1>2, <1>8 DEF Transaction
  <2>2. report'[tx'.file] = NoReport /\ tx'.pc # "idle"
    BY <1>1, <1>3, <1>4 DEF ReportInv, TxInv
  <2> QED BY <1>5, <1>6, <1>8, <2>1, <2>2 DEF TxInv
<1>9. CASE stage = "created"
  <2>1. Flushed(stage) = [NoReport EXCEPT !.status = "in_progress", !.template = tx.template,
                                          !.manifest = PolicyManifest(tx.prepared)]
    BY <1>9 DEF Flushed
  <2>2. Flushed(stage) \in ReportRow
    BY <1>2, <2>1, ManifestNow, NoReportRow DEF ReportRow
  <2>3. /\ Flushed(stage).template = tx.template /\ Flushed(stage).items = <<>>
        /\ Flushed(stage).manifest = PolicyManifest(tx.prepared)
    BY <2>1 DEF NoReport
  <2>4. Len(<<>>) = 0 /\ Len(tx.prepared) \in Nat
    BY <1>2, LenProperties
  <2>5. Draft'
    BY <1>3, <1>9, <2>3, <2>4 DEF Draft
  <2> QED BY <1>8, <2>2, <2>5
<1>10. CASE stage = "itemized"
  <2> DEFINE item == tx.prepared[n + 1]
  <2>1. /\ tx.pc \in {"created", "itemized"} /\ n < Len(tx.prepared)
        /\ Flushed(stage) = [d EXCEPT !.items = Append(d.items, item)]
    BY <1>1, <1>10 DEF Follows, Flushed
  <2>2. item \in Item /\ Len(tx.prepared) \in Nat
    BY <1>2, <2>1, ElementOfSeq, LenProperties
  <2> HIDE DEF d
  <2>3. /\ Append(d.items, item) \in Seq(Item) /\ Len(Append(d.items, item)) = n + 1
        /\ \A m \in 1..n : Append(d.items, item)[m] = d.items[m]
        /\ Append(d.items, item)[n + 1] = item
    BY <1>2, <2>2
  <2>4. Flushed(stage) \in ReportRow
    BY <1>2, <2>1, <2>3 DEF ReportRow
  <2>5. /\ Flushed(stage).template = d.template /\ Flushed(stage).manifest = d.manifest
        /\ Flushed(stage).items = Append(d.items, item)
    BY <1>2, <2>1 DEF ReportRow
  <2>6. /\ d.template = tx.template /\ d.manifest = PolicyManifest(tx.prepared)
        /\ \A m \in 1..n : d.items[m] = tx.prepared[m]
    BY <1>7, <2>1 DEF Draft, d
  <2>7. ASSUME NEW m \in 1..(n + 1) PROVE Append(d.items, item)[m] = tx.prepared[m]
    <3>1. m \in 1..n \/ m = n + 1
      BY <1>2
    <3> QED BY <2>3, <2>6, <3>1
  <2>8. n + 1 <= Len(tx.prepared)
    BY <1>2, <2>1, <2>2
  <2>9. Draft'
    BY <1>3, <1>10, <2>3, <2>5, <2>6, <2>7, <2>8 DEF Draft
  <2> QED BY <1>8, <2>4, <2>9
<1>11. CASE stage = "listed"
  <2>1. /\ tx.pc \in {"created", "itemized"} /\ ~(n < Len(tx.prepared))
        /\ Flushed(stage) = [d EXCEPT !.errors = BadRows[tx.file]]
    BY <1>1, <1>11 DEF Follows, Flushed
  <2>2. BadRows[tx.file] \subseteq UNION {BadRows[f] : f \in Files}
    BY <1>2
  <2>3. Flushed(stage) \in ReportRow
    BY <1>2, <2>1, <2>2 DEF ReportRow
  <2>4. /\ Flushed(stage).template = d.template /\ Flushed(stage).manifest = d.manifest
        /\ Flushed(stage).items = d.items /\ Flushed(stage).errors = BadRows[tx.file]
    BY <1>2, <2>1 DEF ReportRow
  <2>5. n <= Len(tx.prepared) /\ Len(tx.prepared) \in Nat
    BY <1>2, <1>7, <2>1, LenProperties DEF Draft
  <2>6. n = Len(tx.prepared)
    BY <1>2, <2>1, <2>5
  <2>7. Draft'
    BY <1>3, <1>7, <1>11, <2>1, <2>4, <2>6 DEF Draft
  <2> QED BY <1>8, <2>3, <2>7
<1>12. CASE stage = "planned"
  <2>1. tx.pc = "listed" /\ Flushed(stage) = [d EXCEPT !.plan = tx.config]
    BY <1>1, <1>12 DEF Follows, Flushed
  <2>2. tx.config \in 0..MaxConfigs
    BY <1>2 DEF Transaction
  <2>3. Flushed(stage) \in ReportRow
    BY <1>2, <2>1, <2>2 DEF ReportRow
  <2>4. /\ Flushed(stage).template = d.template /\ Flushed(stage).manifest = d.manifest
        /\ Flushed(stage).items = d.items /\ Flushed(stage).errors = d.errors
        /\ Flushed(stage).plan = tx.config
    BY <1>2, <2>1 DEF ReportRow
  <2>5. Draft'
    BY <1>3, <1>7, <1>12, <2>1, <2>4 DEF Draft
  <2> QED BY <1>8, <2>3, <2>5
<1>13. CASE stage = "done"
  <2>1. tx.pc = "planned" /\ Flushed(stage) = [d EXCEPT !.status = "completed"]
    BY <1>1, <1>13 DEF Follows, Flushed
  <2>2. Flushed(stage) \in ReportRow
    BY <1>2, <2>1 DEF ReportRow
  <2>3. /\ Flushed(stage).template = d.template /\ Flushed(stage).manifest = d.manifest
        /\ Flushed(stage).items = d.items /\ Flushed(stage).errors = d.errors
        /\ Flushed(stage).plan = d.plan /\ Flushed(stage).status = "completed"
    BY <1>2, <2>1 DEF ReportRow
  <2>4. Draft'
    BY <1>3, <1>7, <1>13, <2>1, <2>3 DEF Draft
  <2> QED BY <1>8, <2>2, <2>4
<1> QED BY <1>4, <1>9, <1>10, <1>11, <1>12, <1>13

\* Every step keeps what is said of the transaction.
LEMMA TxStep ==
    ASSUME ReportInv, IInv, [ReportNext]_reportVars
    PROVE  TxInv'
<1>1. TxInv
  BY DEF ReportInv
<1>2. CASE PolicyStep
  <2>1. report' = report /\ config' = config /\ tx' = tx
    BY <1>2 DEF PolicyStep, reportState
  <2>2. CASE LockFree
    BY <1>1, <2>1, <2>2, TxFrame DEF LockFree
  <2>3. ASSUME NEW e \in Docs, Versions!Fail(e), UNCHANGED <<bindings, confirmed>>
        PROVE  TxInv'
    <3>1. \A finding : Prepared(finding)' = Prepared(finding)
      BY <2>3, FailureUnseen DEF IInv
    <3> QED BY <1>1, <2>1, <3>1, TxFrame
  <2> QED BY <1>2, <2>2, <2>3 DEF PolicyStep
<1>3. ASSUME tx' = tx, tx.pc = "idle" PROVE TxInv'
  BY <1>1, <1>3, TxFrame
<1>4. ASSUME NEW f \in Files, CompleteValidation(f) PROVE TxInv'
  BY <1>3, <1>4 DEF CompleteValidation, LockFree
<1>5. CASE SaveConfig
  BY <1>3, <1>5 DEF SaveConfig, LockFree
<1>6. ASSUME NEW k \in Keys, NEW f \in Files, NEW t \in Templates,
             Begin(k, f, t) \/ Reuse(k, f, t) \/ Replay(k, f, t)
      PROVE  TxInv'
  <2>1. CASE Begin(k, f, t)
    BY <2>1, BeginTx
  <2>2. CASE Reuse(k, f, t)
    BY <1>3, <2>2 DEF Reuse, LockFree
  <2>3. CASE Replay(k, f, t)
    BY <1>3, <2>3 DEF Replay, LockFree
  <2> QED BY <1>6, <2>1, <2>2, <2>3
<1>7. CASE PrepareItem
  BY <1>7, PrepareTx
<1>8. CASE FinishPreparing
  BY <1>8, FinishTx
<1>9. CASE RefuseUnconfigured \/ Commit \/ Fail
  BY <1>9, IdleTx DEF RefuseUnconfigured, Commit, Fail
<1>10. ASSUME NEW stage \in Stages, Flush(stage) PROVE TxInv'
  BY <1>10, FlushTx
<1>11. CASE UNCHANGED reportVars
  <2>1. UNCHANGED vars /\ report' = report /\ config' = config /\ tx' = tx
    BY <1>11 DEF reportVars, reportState
  <2>2. \A finding : Prepared(finding)' = Prepared(finding)
    BY <2>1, SamePolicies
  <2> QED BY <1>1, <2>1, <2>2, TxFrame
<1> QED BY <1>2, <1>4, <1>5, <1>6, <1>7, <1>8, <1>9, <1>10, <1>11 DEF ReportNext
-----------------------------------------------------------------------------
(* Reports *)

\* A known key stays what it is, and only a commit adds a report.
LEMMA OnlyCommit ==
    ASSUME ReportInv, [ReportNext]_reportVars
    PROVE  /\ Commit \/ report' = report
           /\ \A k \in Keys : Fresh(k) \/ ledger'[k] = ledger[k]
           /\ config <= config' /\ config' \in 0..MaxConfigs
           /\ validated' \subseteq Files /\ failures' \in 0..MaxFailures
<1> USE DEF ReportInv, Bounds
<1>1. CASE PolicyStep
  BY <1>1 DEF PolicyStep, reportState
<1>2. ASSUME NEW f \in Files, CompleteValidation(f)
      PROVE  /\ report' = report /\ ledger' = ledger /\ config' = config
             /\ validated' \subseteq Files /\ failures' = failures
  BY <1>2 DEF CompleteValidation
<1>3. CASE SaveConfig
  <2>1. config' = config + 1 /\ config < MaxConfigs
    BY <1>3 DEF SaveConfig
  <2>2. config' \in 0..MaxConfigs /\ config <= config'
    BY <2>1, ReportAssumption
  <2> QED BY <1>3, <2>2 DEF SaveConfig
<1>4. ASSUME NEW k \in Keys, NEW f \in Files, NEW t \in Templates,
             Begin(k, f, t) \/ Reuse(k, f, t) \/ Replay(k, f, t)
      PROVE  /\ report' = report /\ config' = config /\ validated' = validated
             /\ failures' = failures
             /\ \A key \in Keys : Fresh(key) \/ ledger'[key] = ledger[key]
  BY <1>4 DEF Begin, Reuse, Replay, Remember, LedgerInv
<1>5. ASSUME UNCHANGED <<report, ledger, config, validated, failures>>
      PROVE  /\ report' = report
             /\ \A k \in Keys : Fresh(k) \/ ledger'[k] = ledger[k]
             /\ config <= config' /\ config' \in 0..MaxConfigs
             /\ validated' \subseteq Files /\ failures' \in 0..MaxFailures
  BY <1>5
<1>6. CASE PrepareItem \/ FinishPreparing \/ RefuseUnconfigured
  BY <1>5, <1>6 DEF PrepareItem, FinishPreparing, RefuseUnconfigured
<1>7. ASSUME NEW stage \in Stages, Flush(stage)
      PROVE  UNCHANGED <<report, ledger, config, validated, failures>>
  BY <1>7 DEF Flush
<1>8. CASE Commit
  <2>1. tx.key \in Keys /\ Fresh(tx.key)
    BY <1>8 DEF Commit, LedgerInv, LockedKey
  <2>2. \A k \in Keys : Fresh(k) \/ ledger'[k] = ledger[k]
    BY <1>8, <2>1 DEF Commit, Remember, LedgerInv
  <2> QED BY <1>8, <2>2 DEF Commit
<1>9. CASE Fail
  <2>1. failures' = failures + 1 /\ failures < MaxFailures
    BY <1>9 DEF Fail
  <2>2. failures' \in 0..MaxFailures
    BY <2>1, ReportAssumption
  <2> QED BY <1>9, <2>2 DEF Fail, RolledBack
<1>10. CASE UNCHANGED reportVars
  BY <1>5, <1>10 DEF reportVars, reportState
<1> QED BY <1>1, <1>2, <1>3, <1>4, <1>5, <1>6, <1>7, <1>8, <1>9, <1>10 DEF ReportNext

\* What a commit makes visible.
LEMMA CommittedDraft ==
    ASSUME ReportInv, Commit
    PROVE  /\ tx.file \in Files /\ report' = [report EXCEPT ![tx.file] = tx.draft]
           /\ tx.draft \in ReportRow /\ tx.prepared \in Seq(Item)
           /\ tx.draft.status = "completed" /\ tx.draft.items = tx.prepared
           /\ Ordered(tx.prepared) = tx.prepared
           /\ FindingsOf(tx.prepared) = FindingSet(tx.file)
           /\ tx.draft.manifest = PolicyManifest(tx.prepared)
           /\ tx.draft.errors = BadRows[tx.file]
           /\ tx.draft.plan = config /\ config > 0
           /\ tx.key \in Keys
           /\ ledger'[tx.key] = [file |-> tx.file, template |-> tx.draft.template]
<1>1. /\ tx.pc = "done" /\ report' = [report EXCEPT ![tx.file] = tx.draft]
      /\ ledger' = [ledger EXCEPT ![tx.key] = [file |-> tx.file, template |-> tx.template]]
  BY DEF Commit, Remember
<1>2. /\ tx \in Transaction /\ tx.file \in Files /\ tx.key \in Keys
      /\ ledger \in [Keys -> Request]
  BY <1>1 DEF ReportInv, TxInv, LedgerInv, LockedKey
<1>3. tx.draft \in ReportRow /\ tx.prepared \in Seq(Item)
  BY <1>2 DEF Transaction
<1>4. Draft /\ PreparedItems /\ PreparedIsCurrent
  BY DEF ReportInv, TxInv
<1>5. tx.draft.items = tx.prepared
  <2>1. tx.draft.items \in Seq(Item)
    BY <1>3 DEF ReportRow
  <2>2. /\ Len(tx.draft.items) = Len(tx.prepared)
        /\ \A n \in 1..Len(tx.draft.items) : tx.draft.items[n] = tx.prepared[n]
    BY <1>1, <1>4 DEF Draft
  <2> QED BY <1>3, <2>1, <2>2, SeqEqual
<1>6. /\ tx.draft.status = "completed" /\ tx.draft.manifest = PolicyManifest(tx.prepared)
      /\ tx.draft.errors = BadRows[tx.file] /\ tx.draft.plan = tx.config
      /\ tx.draft.template = tx.template
  BY <1>1, <1>4 DEF Draft
<1>7. /\ Ordered(tx.prepared) = tx.prepared /\ config > 0
      /\ FindingsOf(tx.prepared) = FindingSet(tx.file)
  BY <1>1, <1>4 DEF PreparedItems, Stages
<1>8. tx.config = config
  BY <1>1, <1>4 DEF PreparedIsCurrent, Stages
<1> QED BY <1>1, <1>2, <1>3, <1>5, <1>6, <1>7, <1>8

LEMMA BoundsStep ==
    ASSUME ReportInv, [ReportNext]_reportVars
    PROVE  Bounds'
<1>1. /\ Commit \/ report' = report
      /\ config <= config' /\ config' \in 0..MaxConfigs
      /\ validated' \subseteq Files /\ failures' \in 0..MaxFailures
  BY OnlyCommit
<1>2. /\ report \in [Files -> ReportRow] /\ config \in 0..MaxConfigs
      /\ \A f \in Files : Completed(f) => report[f].plan \in 1..config
  BY DEF ReportInv, Bounds
<1>3. CASE report' = report
  <2>1. ASSUME NEW f \in Files, Completed(f)' PROVE report[f].plan \in 1..config'
    <3>1. report[f].plan \in 1..config
      BY <1>2, <1>3, <2>1 DEF Completed
    <3>2. config \in Int /\ config' \in Int
      BY <1>1, <1>2
    <3> QED BY <1>1, <3>1, <3>2
  <2> QED BY <1>1, <1>2, <1>3, <2>1 DEF Bounds
<1>4. CASE Commit
  <2>1. /\ tx.file \in Files /\ report' = [report EXCEPT ![tx.file] = tx.draft]
        /\ tx.draft \in ReportRow /\ tx.draft.plan = config /\ config > 0
    BY <1>4, CommittedDraft
  <2>2. (report \in [Files -> ReportRow])'
    BY <1>2, <2>1
  <2>3. config' = config
    BY <1>4 DEF Commit
  <2>4. ASSUME NEW f \in Files, Completed(f)' PROVE report'[f].plan \in 1..config'
    <3>1. CASE f = tx.file
      BY <1>2, <2>1, <2>3, <3>1
    <3>2. CASE f # tx.file
      <4>1. report'[f] = report[f]
        BY <1>2, <2>1, <3>2
      <4> QED BY <1>2, <2>3, <2>4, <4>1 DEF Completed
    <3> QED BY <3>1, <3>2
  <2> QED BY <1>1, <2>2, <2>4 DEF Bounds
<1> QED BY <1>1, <1>3, <1>4

LEMMA WholeReports ==
    ASSUME \A f \in Files : report[f] # NoReport => Whole(f)
    PROVE  ReportWhole
<1>1. ASSUME NEW f \in Files
      PROVE  Snapshot(f) = [items |-> Ordered(report[f].items), manifest |-> report[f].manifest,
                            errors |-> report[f].errors]
  BY DEF Snapshot
<1>2. ASSUME NEW f \in Files, Whole(f)
      PROVE  LET read == Snapshot(f)
             IN  /\ Completed(f)
                 /\ read.items = report[f].items
                 /\ {read.items[n].finding : n \in DOMAIN read.items}
                         = {Findings[f][n] : n \in DOMAIN Findings[f]}
                 /\ read.errors = BadRows[f]
                 /\ \A c \in Citations(read.items) :
                         read.manifest[c.binding.document] = c.expiry
                 /\ report[f].plan > 0
                 /\ \E k \in Keys : ledger[k] = [file |-> f, template |-> report[f].template]
  <2> DEFINE read == Snapshot(f)
  <2>1. /\ read.items = report[f].items /\ read.errors = report[f].errors
        /\ read.manifest = report[f].manifest
    BY <1>1, <1>2 DEF Whole
  <2> HIDE DEF read
  <2>2. FindingsOf(read.items) = FindingSet(f)
    BY <1>2, <2>1 DEF Whole
  <2>3. {read.items[n].finding : n \in DOMAIN read.items}
            = {Findings[f][n] : n \in DOMAIN Findings[f]}
    BY <2>2 DEF FindingsOf, FindingSet
  <2>4. \A c \in Citations(read.items) : read.manifest[c.binding.document] = c.expiry
    BY <1>2, <2>1 DEF Whole
  <2>5. /\ Completed(f) /\ read.errors = BadRows[f] /\ report[f].plan > 0
        /\ \E k \in Keys : ledger[k] = [file |-> f, template |-> report[f].template]
    BY <1>2, <2>1 DEF Whole, Completed
  <2> QED BY <2>1, <2>3, <2>4, <2>5 DEF read
<1> QED BY <1>2 DEF ReportWhole

LEMMA WholeStep ==
    ASSUME ReportInv, IInv, [ReportNext]_reportVars, NEW f \in Files, report'[f] # NoReport
    PROVE  Whole(f)'
<1>1. /\ Commit \/ report' = report
      /\ \A k \in Keys : Fresh(k) \/ ledger'[k] = ledger[k]
  BY OnlyCommit
<1>2. CASE report'[f] = report[f]
  <2>1. Whole(f)
    BY <1>2 DEF ReportInv
  <2>2. PICK k \in Keys : ledger[k] = [file |-> f, template |-> report[f].template]
    BY <2>1 DEF Whole
  <2>3. ledger[k].file = f /\ ~Fresh(k)
    BY <2>2, ReportAssumption DEF Fresh
  <2>4. ledger'[k] = [file |-> f, template |-> report'[f].template]
    BY <1>1, <1>2, <2>2, <2>3
  <2>5. /\ Citations(report'[f].items) = Citations(report[f].items)
        /\ report'[f].status = "completed"
        /\ Ordered(report'[f].items) = report'[f].items
        /\ FindingsOf(report'[f].items) = FindingSet(f)
        /\ report'[f].errors = BadRows[f]
        /\ report'[f].plan > 0
    BY <1>2, <2>1 DEF Whole
  <2>6. \A c \in Citations(report'[f].items) :
            report'[f].manifest[c.binding.document] = c.expiry
    BY <1>2, <2>1 DEF Whole
  <2> QED BY <2>4, <2>5, <2>6 DEF Whole
<1>3. CASE Commit /\ report'[f] # report[f]
  <2>1. /\ tx.file \in Files /\ report' = [report EXCEPT ![tx.file] = tx.draft]
        /\ report \in [Files -> ReportRow]
    BY <1>3, CommittedDraft DEF ReportInv, Bounds
  <2>2. f = tx.file /\ report'[f] = tx.draft
    BY <1>3, <2>1
  <2>3. /\ tx.draft.status = "completed" /\ tx.draft.items = tx.prepared
        /\ Ordered(tx.prepared) = tx.prepared
        /\ FindingsOf(tx.prepared) = FindingSet(f)
        /\ tx.draft.manifest = PolicyManifest(tx.prepared)
        /\ tx.draft.errors = BadRows[f]
        /\ tx.draft.plan > 0
        /\ \E k \in Keys : ledger'[k] = [file |-> f, template |-> tx.draft.template]
    BY <1>3, <2>2, CommittedDraft
  <2>4. ASSUME NEW c \in Citations(tx.prepared)
        PROVE  tx.draft.manifest[c.binding.document] = c.expiry
    <3>1. PICK n \in DOMAIN tx.prepared : c \in tx.prepared[n].citations
      BY <2>4 DEF Citations
    <3>2. c.binding.document \in CitedDocuments(tx.prepared)
      BY <2>4 DEF Citations, CitedDocuments
    <3>3. c.expiry = doc[c.binding.document].expiry
      BY <3>1, CitationsNow
    <3> QED BY <2>3, <3>2, <3>3, ManifestNow
  <2> QED BY <2>2, <2>3, <2>4 DEF Whole
<1> QED BY <1>1, <1>2, <1>3

LEMMA CitationsStep ==
    ASSUME ReportInv, IInv, [ReportNext]_reportVars
    PROVE  CitationsStand'
<1>1. [Next]_vars
  <2>1. CASE ReportNext
    BY <2>1, PolicyStepOrStutter
  <2>2. CASE UNCHANGED reportVars
    BY <2>2 DEF reportVars
  <2> QED BY <2>1, <2>2
<1> DEFINE Stands(c) == /\ c.binding \in bindings
                        /\ c.binding.document \in Versions!Published
                        /\ c.expiry \in {doc[c.binding.document].expiry, Never}
<1>2. ASSUME NEW c, Stands(c) PROVE Stands(c)'
  <2>1. CASE \E rule \in Rules, date \in Dates, selection \in Selections :
                SaveBindings(rule, date, selection)
    <3>1. doc' = doc /\ bindings \subseteq bindings'
      BY <2>1 DEF SaveBindings
    <3> QED BY <1>2, <3>1 DEF Versions!Published
  <2>2. CASE PublishStep
    <3>1. bindings' = bindings /\ Versions!Next
      BY <2>2 DEF PublishStep
    <3>2. /\ c.binding.document \in Versions!Published'
          /\ \/ doc'[c.binding.document].expiry = doc[c.binding.document].expiry
             \/ doc[c.binding.document].expiry = Never
      BY <1>2, <3>1, ExpiryStands DEF IInv
    <3> QED BY <1>2, <3>1, <3>2
  <2>3. CASE UNCHANGED vars
    <3>1. doc' = doc /\ bindings' = bindings
      BY <2>3 DEF vars
    <3> QED BY <1>2, <3>1 DEF Versions!Published
  <2> QED BY <1>1, <2>1, <2>2, <2>3 DEF Next
<1>3. CitationsStand <=> \A f \in Files : \A c \in Citations(report[f].items) : Stands(c)
  <2>1. \A f \in Files : \A c \in Citations(report[f].items) : c.binding.document \in Docs
    <3>1. ASSUME NEW f \in Files, NEW c \in Citations(report[f].items)
          PROVE  c.binding.document \in Docs
      <4>1. report[f].items \in Seq(Item)
        BY DEF ReportInv, Bounds, ReportRow
      <4>2. PICK n \in DOMAIN report[f].items : c \in report[f].items[n].citations
        BY <3>1 DEF Citations
      <4>3. report[f].items[n] \in Item
        BY <4>1, ElementOfSeq, LenProperties
      <4> QED BY <4>2, <4>3 DEF Item, Citation, Binding
    <3> QED BY <3>1
  <2> QED BY <2>1 DEF CitationsStand, Versions!Published
<1>4. \A f \in Files : \A c \in Citations(report[f].items) : Stands(c)
  BY <1>3 DEF ReportInv
<1>5. ASSUME NEW f \in Files, NEW c \in Citations(report'[f].items) PROVE Stands(c)
  <2>1. CASE report'[f] = report[f]
    BY <1>4, <1>5, <2>1
  <2>2. CASE Commit /\ report'[f] # report[f]
    <3>1. /\ tx.file \in Files /\ report' = [report EXCEPT ![tx.file] = tx.draft]
          /\ report \in [Files -> ReportRow] /\ tx.draft.items = tx.prepared
      BY <2>2, CommittedDraft DEF ReportInv, Bounds
    <3>2. report'[f].items = tx.prepared
      BY <2>2, <3>1
    <3>3. PICK n \in DOMAIN tx.prepared : c \in tx.prepared[n].citations
      BY <1>5, <3>2 DEF Citations
    <3> QED BY <3>3, CitationsNow
  <2> QED BY <2>1, <2>2, OnlyCommit
<1>6. \A f \in Files : \A c \in Citations(report'[f].items) : Stands(c)'
  BY <1>2, <1>5
<1> QED BY <1>6 DEF CitationsStand, Versions!Published

LEMMA ReportStep ==
    ASSUME ReportInv, IInv, [ReportNext]_reportVars
    PROVE  ReportInv'
<1>1. LedgerInv'
  BY LedgerStep DEF ReportInv
<1>2. \A f \in Files : report'[f] # NoReport => Whole(f)'
  BY WholeStep
<1> QED BY <1>1, <1>2, BoundsStep, TxStep, CitationsStep DEF ReportInv

LEMMA LedgerInit == ReportInit => LedgerInv
  BY DEF ReportInit, LedgerInv, Request, LockedKey, AnsweredKnown, Idle

LEMMA ReportInvariance == ReportSpec => [](ReportInv /\ IInv)
<1>1. ReportInit => ReportInv
  <2> SUFFICES ASSUME ReportInit PROVE ReportInv
    OBVIOUS
  <2>1. /\ validated = {} /\ config = 0 /\ report = [f \in Files |-> NoReport]
        /\ tx = Idle /\ failures = 0
    BY DEF ReportInit
  <2>2. Bounds
    <3>1. report \in [Files -> ReportRow]
      BY <2>1, NoReportRow
    <3>2. \A f \in Files : ~Completed(f)
      BY <2>1 DEF Completed, NoReport
    <3> QED BY <2>1, <3>1, <3>2, ReportAssumption DEF Bounds
  <2>3. TxInv
    <3>1. Idle \in Transaction
      BY NoReportRow, EmptySeq, ReportAssumption DEF Idle, Transaction, Stages
    <3>2. /\ Idle.pc = "idle" /\ Idle.draft = NoReport
          /\ Idle.prepared = <<>>
      BY DEF Idle
    <3>3. PreparedIsCurrent
      BY <2>1, <3>2 DEF PreparedIsCurrent
    <3> QED BY <2>1, <3>1, <3>2, <3>3 DEF TxInv, PreparedItems, Draft
  <2>4. CitationsStand
    <3>1. \A f \in Files : report[f].items = <<>>
      BY <2>1 DEF NoReport
    <3>2. Citations(<<>>) = {}
      BY DEF Citations
    <3> QED BY <3>1, <3>2 DEF CitationsStand
  <2>5. \A f \in Files : report[f] = NoReport
    BY <2>1
  <2> QED BY <2>2, <2>3, <2>4, <2>5, LedgerInit DEF ReportInv
<1>2. ReportInv /\ IInv /\ [ReportNext]_reportVars => ReportInv'
  BY ReportStep
<1>3. ReportSpec => []IInv
  BY PoliciesUntouched, Invariance, PTL
<1> QED BY <1>1, <1>2, <1>3, PTL DEF ReportSpec

-----------------------------------------------------------------------------

\* Reports, transactions and the ledger have their types, and the plan of a
\* completed report names a version of the configuration that exists.
THEOREM ReportTypeCorrect == ReportSpec => []ReportTypeOK
<1>1. ReportInv /\ IInv => ReportTypeOK
  BY DEF ReportInv, IInv, Bounds, LedgerInv, AnsweredKnown, TxInv, ReportTypeOK
<1> QED BY <1>1, ReportInvariance, PTL

\* Until it commits, what a transaction has prepared is what the policies in
\* force say now, and its configuration is the latest (_prepare_report under
\* lock_tenant_nowait).
THEOREM OneMoment == ReportSpec => []PreparedIsCurrent
<1>1. ReportInv => PreparedIsCurrent
  BY DEF ReportInv, TxInv
<1> QED BY <1>1, ReportInvariance, PTL

\* A report is whole, with its plan, its manifest and its key, or absent
\* (_generate_report, in one transaction).
THEOREM WholeOrAbsent == ReportSpec => []ReportWhole
<1>1. ReportInv => ReportWhole
  BY WholeReports DEF ReportInv
<1> QED BY <1>1, ReportInvariance, PTL

\* What a report cites stays bound and published; the end of its validity is
\* what the report says, or was set later for one that had none
\* (_persist_item, against publish_policy_document).
THEOREM CitationsKept == ReportSpec => []CitationsStand
<1>1. ReportInv => CitationsStand
  BY DEF ReportInv
<1> QED BY <1>1, ReportInvariance, PTL
=============================================================================
