------------------------ MODULE BatchLifecycleProofs ------------------------
(***************************************************************************)
(* Proofs about BatchLifecycle: rows are what their mapping makes of the   *)
(* uploaded workbook, and what a validation found can be found again from  *)
(* what it has frozen.                                                     *)
(***************************************************************************)
EXTENDS BatchLifecycle, TLAPS, FiniteSetTheorems, WellFoundedInduction

-----------------------------------------------------------------------------
(* The selection of a rule version *)

\* A finite set of naturals has a greatest element: one with the fewest above.
LEMMA MaxExists ==
    ASSUME NEW S, S \subseteq Nat, IsFiniteSet(S), S # {}
    PROVE  \E m \in S : \A x \in S : x <= m
<1> DEFINE Above(m) == {x \in S : m < x}
           T == {Above(m) : m \in S}
<1>1. T \subseteq FiniteSubsetsOf(S) /\ T # {}
  <2>1. T \subseteq FiniteSubsetsOf(S)
    BY FS_Subset DEF FiniteSubsetsOf
  <2>2. PICK m \in S : TRUE
    OBVIOUS
  <2> QED BY <2>1, <2>2
<1> HIDE DEF T
<1>2. PICK least \in T : \A t \in T : ~(<<t, least>> \in StrictSubsetOrdering(S))
  BY <1>1, WFMin, FS_StrictSubsetOrderingWellFounded
<1>3. PICK m \in S : least = Above(m)
  BY <1>2 DEF T
<1>4. ASSUME NEW x \in S, m < x PROVE FALSE
  <2>1. Above(x) \in T
    BY DEF T
  <2>2. Above(x) \subseteq Above(m) /\ Above(x) # Above(m)
    <3>1. x \in Above(m) /\ x \notin Above(x)
      BY <1>4
    <3>2. ASSUME NEW y \in Above(x) PROVE y \in Above(m)
      <4>1. y \in Nat /\ x \in Nat /\ m \in Nat /\ x < y /\ m < x
        BY <1>4
      <4> QED BY <4>1
    <3> QED BY <3>1, <3>2
  <2>3. Above(x) \in SUBSET S /\ Above(m) \in SUBSET S
    OBVIOUS
  <2>4. ~(<<Above(x), Above(m)>> \in StrictSubsetOrdering(S))
    BY <1>2, <1>3, <2>1
  <2> HIDE DEF Above
  <2> QED BY <2>2, <2>3, <2>4 DEF StrictSubsetOrdering
<1> QED BY <1>4

\* Of the versions in effect at a date one is selected.
LEMMA SomeSelected ==
    ASSUME NEW T \in Seq(RuleVersion), NEW date, Eligible(T, date) # {}
    PROVE  Selected(T, date) # {}
<1> DEFINE E == Eligible(T, date)
<1>1. E \subseteq 1..Len(T) /\ Len(T) \in Nat
  BY DEF Eligible
<1>2. ASSUME NEW v \in E PROVE T[v].from \in Dates
  <2>1. T[v] \in RuleVersion
    BY <1>1
  <2> QED BY <2>1 DEF RuleVersion
<1> HIDE DEF E
<1> DEFINE F == {T[v].from : v \in E}
<1>4. F \subseteq Dates /\ F # {}
  <2>1. PICK v \in E : TRUE
    BY DEF E
  <2> QED BY <1>2, <2>1 DEF F
<1> HIDE DEF F
<1>5. PICK last \in F : \A x \in F : x <= last
  <2>1. IsFiniteSet(F) /\ F \subseteq Nat
    BY <1>4, DatesAssumption, FS_Subset
  <2> QED BY <1>4, <2>1, MaxExists
<1> DEFINE L == {v \in E : T[v].from = last}
<1>6. L \subseteq 1..Len(T) /\ L # {}
  BY <1>1 DEF F, L
<1>7. PICK v \in L : \A w \in L : w <= v
  <2> HIDE DEF L
  <2>1. IsFiniteSet(L) /\ L \subseteq Nat
    <3>1. IsFiniteSet(1..Len(T))
      BY <1>1, FS_Interval
    <3>2. IsFiniteSet(L)
      BY <1>6, <3>1, FS_Subset
    <3>3. L \subseteq Nat
      BY <1>6
    <3> QED BY <3>2, <3>3
  <2> QED BY <1>6, <2>1, MaxExists
<1>8. ASSUME NEW w \in E PROVE NoLater(T, w, v)
  <2>1. T[w].from \in F /\ T[v].from = last
    BY DEF F, L
  <2>2. T[w].from <= last /\ T[w].from \in Nat /\ last \in Nat
    BY <1>4, <1>5, <2>1, DatesAssumption
  <2>3. CASE T[w].from = last
    BY <1>7, <2>1, <2>3 DEF NoLater, L
  <2>4. CASE T[w].from # last
    BY <2>1, <2>2, <2>4 DEF NoLater
  <2> QED BY <2>3, <2>4
<1> QED BY <1>8 DEF Selected, E, L

\* Versions that contain the selected one select the same.
LEMMA SelectedAgain ==
    ASSUME NEW T \in Seq(RuleVersion), NEW M, M \subseteq DOMAIN T, NEW date,
           Selected(T, date) \subseteq M
    PROVE  Selected([v \in M |-> T[v]], date) = Selected(T, date)
<1> DEFINE K == [v \in M |-> T[v]]
<1>1. Eligible(K, date) = Eligible(T, date) \intersect M
  BY DEF Eligible
<1>2. ASSUME NEW v \in M, NEW w \in M PROVE NoLater(K, w, v) <=> NoLater(T, w, v)
  BY DEF NoLater
<1>3. ASSUME NEW v \in DOMAIN T PROVE T[v].from \in Nat /\ v \in Nat
  <2>1. T[v] \in RuleVersion /\ v \in Nat
    OBVIOUS
  <2> QED BY <2>1, DatesAssumption DEF RuleVersion
<1> HIDE DEF K
<1>4. Selected(T, date) \subseteq Selected(K, date)
  BY <1>1, <1>2 DEF Selected
<1>5. ASSUME NEW v \in Selected(K, date) PROVE v \in Selected(T, date)
  <2>1. v \in Eligible(T, date) /\ v \in M
    BY <1>1 DEF Selected
  <2>2. PICK m \in Selected(T, date) : TRUE
    BY <2>1, SomeSelected
  <2>3. m \in Eligible(K, date) /\ m \in M
    BY <1>1, <2>2 DEF Selected
  <2>4. NoLater(T, m, v)
    BY <1>2, <2>1, <2>3 DEF Selected
  <2>5. NoLater(T, v, m)
    BY <2>1, <2>2 DEF Selected
  <2>6. v = m
    BY <1>3, <2>1, <2>3, <2>4, <2>5 DEF NoLater
  <2> QED BY <2>2, <2>6
<1> QED BY <1>4, <1>5 DEF K
-----------------------------------------------------------------------------
(* Types *)

\* What the steps preserve besides the types of TypeOK: the numbers of the
\* mappings are bounded, and a parsed file has one.
Structure ==
    /\ file \in [Files -> FileVersion]
    /\ mappings \in Seq(MappingVersion)
    /\ Len(mappings) <= MaxMappings
    /\ rules \in [RuleIds -> Seq(RuleVersion)]
    /\ run = [f \in Files |-> run[f]]

LEMMA AbsentType == Absent \in FileVersion /\ Absent.status = "absent"
BY BoundsAssumption DEF Absent, FileVersion

LEMMA InitStructure == Init => Structure
<1> SUFFICES ASSUME Init PROVE Structure
  OBVIOUS
<1>1. file \in [Files -> FileVersion]
  BY AbsentType DEF Init
<1>2. mappings = <<>> /\ Len(mappings) <= MaxMappings
  BY BoundsAssumption DEF Init
<1>3. rules \in [RuleIds -> Seq(RuleVersion)]
  BY DEF Init
<1>4. run = [f \in Files |-> run[f]]
  BY DEF Init
<1> QED BY <1>1, <1>2, <1>3, <1>4 DEF Structure

\* The file version that an upload begins.
LEMMA ImportType ==
    ASSUME NEW f \in Files, NEW c \in Contents
    PROVE  [Absent EXCEPT !.status = "importing", !.content = c,
                          !.revision = 1, !.root = f] \in FileVersion
<1>1. 1 \in 0..MaxFiles
  BY BoundsAssumption DEF Files
<1> QED BY <1>1, AbsentType DEF FileVersion

LEMMA RevisionType ==
    ASSUME NEW copied \in FileVersion, NEW v \in FileVersion, NEW f \in Files,
           NEW n \in 2..MaxFiles, NEW reason \in Reasons, NEW key \in Keys
    PROVE  [copied EXCEPT !.content = v.content, !.revision = n, !.source = f,
                          !.root = v.root, !.reason = reason, !.key = key]
                \in FileVersion
<1>1. v.content \in Contents \union {None} /\ v.root \in {0} \union Files
  BY DEF FileVersion
<1>2. n \in 0..MaxFiles
  BY BoundsAssumption
<1>3. f \in {0} \union Files /\ reason \in Reasons \union {None} /\ key \in Keys \union {None}
  OBVIOUS
<1> DEFINE vc == v.content
           vr == v.root
<1>4. vc \in Contents \union {None} /\ vr \in {0} \union Files
  BY <1>1
<1> HIDE DEF vc, vr
<1>5. [copied EXCEPT !.content = vc, !.revision = n, !.source = f,
                     !.root = vr, !.reason = reason, !.key = key] \in FileVersion
  BY <1>2, <1>3, <1>4 DEF FileVersion
<1> QED BY <1>5 DEF vc, vr

\* The rows of a file version once parsed.
LEMMA ParsedType ==
    ASSUME NEW old \in FileVersion, NEW c \in Contents, NEW config \in MapConfigs,
           NEW v \in 0..MaxMappings
    PROVE  [[[old EXCEPT !.status = "parsed"] EXCEPT !.mapping = v]
                EXCEPT !.rows = Cells[c][config]] \in FileVersion
<1>1. Cells[c][config] \in Seq(Records \union {Failed})
  BY CellsAssumption
<1> QED BY <1>1 DEF FileVersion

LEMMA StatusType ==
    ASSUME NEW old \in FileVersion,
           NEW status \in {"absent", "importing", "aborted", "unparsed", "parsed"}
    PROVE  [old EXCEPT !.status = status] \in FileVersion
BY DEF FileVersion

\* Files that are stored, or being uploaded, have a content of the instance.
HasContent == \A f \in Files :
    file[f].status \in {"importing", "unparsed", "parsed"} => file[f].content \in Contents

\* A parsed file has a mapping of its header, and the rows it makes.
HasMapping == \A f \in Files : Parsed(f) =>
    /\ file[f].mapping \in DOMAIN mappings
    /\ mappings[file[f].mapping].header = HeaderOf[file[f].content]
    /\ file[f].rows = Cells[file[f].content][mappings[file[f].mapping].config]

\* A validated batch, and those it was compared with, are parsed; its manifest
\* names saved versions of rules.
FrozenParsed == \A f \in Files : Validated(f) =>
    /\ Parsed(f)
    /\ run[f].deps \subseteq Files
    /\ \A g \in run[f].deps : Parsed(g)
    /\ DOMAIN run[f].manifest \subseteq RuleIds
    /\ \A i \in DOMAIN run[f].manifest : run[f].manifest[i] \subseteq DOMAIN rules[i]

LEMMA InitParts == Init => HasContent /\ HasMapping /\ FrozenParsed
BY AbsentType DEF Init, HasContent, HasMapping, FrozenParsed, Parsed, Validated

IInv == Structure /\ HasContent /\ HasMapping /\ FrozenParsed /\ ReplayFromManifest

LEMMA UnparsedNotFrozen ==
    ASSUME FrozenParsed, NEW f \in Files, ~Parsed(f)
    PROVE  ~Frozen(f)
<1>1. ASSUME NEW g \in Files, f \in run[g].deps PROVE FALSE
  <2>1. Validated(g)
    BY <1>1 DEF Validated, NoRun
  <2> QED BY <1>1, <2>1 DEF FrozenParsed
<1> QED BY <1>1 DEF FrozenParsed, Frozen

-----------------------------------------------------------------------------
(* One file version changes that no validation has used *)

LEMMA FileStep ==
    ASSUME IInv, NEW f \in Files, ~Frozen(f), NEW r \in FileVersion,
           file' = [file EXCEPT ![f] = r], UNCHANGED <<mappings, rules, run>>,
           r.status \in {"importing", "unparsed", "parsed"} => r.content \in Contents,
           r.status = "parsed" =>
                /\ r.mapping \in DOMAIN mappings
                /\ mappings[r.mapping].header = HeaderOf[r.content]
                /\ r.rows = Cells[r.content][mappings[r.mapping].config]
    PROVE  IInv'
<1>1. Structure'
  BY DEF IInv, Structure
<1>2. file'[f] = r /\ \A g \in Files : g # f => file'[g] = file[g]
  BY DEF IInv, Structure
<1>3. HasContent'
  BY <1>2 DEF IInv, HasContent
<1>4. HasMapping'
  BY <1>2 DEF IInv, HasMapping, Parsed
<1>5. ASSUME NEW g \in Files, Validated(g)
      PROVE  g # f /\ f \notin run[g].deps
  BY <1>5 DEF Frozen
<1>6. FrozenParsed'
  BY <1>2, <1>5 DEF IInv, FrozenParsed, Parsed, Validated
<1>7. ASSUME NEW g \in Files, Validated(g)'
      PROVE  /\ run'[g].mapping = file'[g].mapping
             /\ run'[g].results = Results(g, Kept(g)', KeptEvidence(g)')
  <2>1. Validated(g) /\ run'[g] = run[g] /\ g # f
    BY <1>5, <1>7 DEF Validated
  <2>2. Kept(g)' = Kept(g)
    BY DEF Kept
  <2>3. ASSUME NEW h \in {g} \union run[g].deps PROVE file'[h] = file[h]
    BY <1>2, <1>5, <2>1 DEF IInv, FrozenParsed
  <2>4. KeptEvidence(g)' = KeptEvidence(g)
    BY <2>1, <2>3 DEF KeptEvidence, Evidence
  <2>5. file'[g] = file[g]
    BY <1>2, <2>1
  <2> QED BY <2>1, <2>2, <2>4, <2>5 DEF IInv, ReplayFromManifest
<1>8. ReplayFromManifest'
  BY <1>7 DEF ReplayFromManifest
<1> QED BY <1>1, <1>3, <1>4, <1>6, <1>8 DEF IInv

LEMMA ImportBeginStep ==
    ASSUME IInv, NEW f \in Files, NEW c \in Contents, ImportBegin(f, c)
    PROVE  IInv'
<1> DEFINE r == [Absent EXCEPT !.status = "importing", !.content = c,
                               !.revision = 1, !.root = f]
<1>1. r \in FileVersion
  BY ImportType
<1>2. r.status = "importing" /\ r.content = c
  BY DEF Absent
<1>3. ~Frozen(f)
  BY UnparsedNotFrozen DEF IInv, ImportBegin, New, Parsed
<1>4. file' = [file EXCEPT ![f] = r] /\ UNCHANGED <<mappings, rules, run>>
  BY DEF ImportBegin
<1> HIDE DEF r
<1> QED BY <1>1, <1>2, <1>3, <1>4, FileStep

LEMMA ImportCommitStep ==
    ASSUME IInv, NEW f \in Files, ImportCommit(f)
    PROVE  IInv'
<1> DEFINE r == [file[f] EXCEPT !.status = "unparsed"]
<1>1. file[f] \in FileVersion
  BY DEF IInv, Structure
<1>2. r \in FileVersion
  BY <1>1, StatusType
<1>3. r.status = "unparsed" /\ r.content \in Contents
  BY <1>1 DEF IInv, HasContent, ImportCommit, FileVersion
<1>4. ~Frozen(f)
  BY UnparsedNotFrozen DEF IInv, ImportCommit, Parsed
<1>5. file' = [file EXCEPT ![f] = r] /\ UNCHANGED <<mappings, rules, run>>
  BY DEF ImportCommit
<1> HIDE DEF r
<1> QED BY <1>2, <1>3, <1>4, <1>5, FileStep

LEMMA ImportAbortStep ==
    ASSUME IInv, NEW f \in Files, ImportAbort(f)
    PROVE  IInv'
<1> DEFINE r == [Absent EXCEPT !.status = "aborted"]
<1>1. r \in FileVersion
  BY AbsentType, StatusType
<1>2. r.status = "aborted"
  BY DEF Absent
<1>3. ~Frozen(f)
  BY UnparsedNotFrozen DEF IInv, ImportAbort, Parsed
<1>4. file' = [file EXCEPT ![f] = r] /\ UNCHANGED <<mappings, rules, run>>
  BY DEF ImportAbort
<1> HIDE DEF r
<1> QED BY <1>1, <1>2, <1>3, <1>4, FileStep

LEMMA ReviseStep ==
    ASSUME IInv, NEW f \in Files, NEW g \in Files, NEW n \in 2..MaxFiles,
           NEW reason \in Reasons, NEW key \in Keys, Revise(f, g, n, reason, key)
    PROVE  IInv'
<1> DEFINE copied == IF CopiesParsed(reason) THEN file[f]
                     ELSE [Absent EXCEPT !.status = "unparsed"]
           r == [copied EXCEPT !.content = file[f].content, !.revision = n,
                               !.source = f, !.root = file[f].root,
                               !.reason = reason, !.key = key]
<1>1. file[f] \in FileVersion /\ Stored(f)
  BY DEF IInv, Structure, Revise
<1>2. file[f].content \in Contents
  BY <1>1 DEF IInv, HasContent, Stored
<1>3. copied \in FileVersion
  BY <1>1, AbsentType, StatusType
<1>4. copied.status = "parsed" => copied = file[f] /\ Parsed(f)
  BY AbsentType DEF Absent, Revise
<1>5. file' = [file EXCEPT ![g] = r] /\ UNCHANGED <<mappings, rules, run>>
  BY DEF Revise
<1>6. ~Frozen(g)
  BY UnparsedNotFrozen DEF IInv, Revise, New, Parsed
<1> HIDE DEF copied
<1>7. r \in FileVersion
  BY <1>1, <1>3, RevisionType
<1>8. /\ r.status = copied.status /\ r.content = file[f].content
      /\ r.mapping = copied.mapping /\ r.rows = copied.rows
  BY <1>3 DEF FileVersion
<1> HIDE DEF r
<1>9. r.status = "parsed" =>
        /\ r.mapping \in DOMAIN mappings
        /\ mappings[r.mapping].header = HeaderOf[r.content]
        /\ r.rows = Cells[r.content][mappings[r.mapping].config]
  BY <1>4, <1>8 DEF IInv, HasMapping
<1> QED BY <1>2, <1>5, <1>6, <1>7, <1>8, <1>9, FileStep

LEMMA ParseStep ==
    ASSUME IInv, NEW f \in Files, NEW v \in DOMAIN mappings, Parse(f, v)
    PROVE  IInv'
<1> DEFINE c == file[f].content
           config == mappings[v].config
           r == [[[file[f] EXCEPT !.status = "parsed"] EXCEPT !.mapping = v]
                    EXCEPT !.rows = Cells[c][config]]
<1>1. file[f] \in FileVersion /\ c \in Contents
  BY DEF IInv, Structure, HasContent, Parse, Stored
<1>2. v \in 0..MaxMappings /\ config \in MapConfigs
  <2>1. mappings[v] \in MappingVersion
    BY DEF IInv, Structure
  <2>2. v \in 1..Len(mappings) /\ Len(mappings) \in Nat
    BY DEF IInv, Structure
  <2>3. Len(mappings) <= MaxMappings /\ MaxMappings \in Nat
    BY BoundsAssumption DEF IInv, Structure
  <2>4. v \in 0..MaxMappings
    BY <2>2, <2>3
  <2> QED BY <2>1, <2>4 DEF MappingVersion
<1>3. file' = [file EXCEPT ![f] = r] /\ UNCHANGED <<mappings, rules, run>>
  BY DEF Parse
<1>4. mappings[v].header = HeaderOf[c] /\ ~Frozen(f)
  BY DEF Parse, MatchesHeader
<1>5. r.content = c /\ r.mapping = v /\ r.rows = Cells[c][config]
  BY <1>1 DEF FileVersion
<1> HIDE DEF c
<1>6. r \in FileVersion
  BY <1>1, <1>2, ParsedType
<1> HIDE DEF r
<1> QED BY <1>1, <1>3, <1>4, <1>5, <1>6, FileStep

-----------------------------------------------------------------------------
(* The other steps *)

LEMMA SaveMappingStep ==
    ASSUME IInv, NEW f \in Files, NEW config \in MapConfigs, SaveMapping(f, config)
    PROVE  IInv'
<1> DEFINE m == [header |-> HeaderOf[file[f].content], config |-> config]
<1>1. mappings' = Append(mappings, m) /\ UNCHANGED <<file, rules, run>>
  BY DEF SaveMapping
<1>2. m \in MappingVersion
  BY DEF MappingVersion, IInv, HasContent, SaveMapping, Stored
<1> HIDE DEF m
<1>3. /\ mappings' \in Seq(MappingVersion)
      /\ Len(mappings') <= MaxMappings
  BY <1>1, <1>2, BoundsAssumption DEF IInv, Structure, SaveMapping
<1>4. Structure'
  BY <1>1, <1>3 DEF IInv, Structure
<1>5. ASSUME NEW v \in DOMAIN mappings
      PROVE  v \in DOMAIN mappings' /\ mappings'[v] = mappings[v]
  BY <1>1 DEF IInv, Structure
<1>6. HasContent' /\ HasMapping'
  BY <1>1, <1>5 DEF IInv, HasContent, HasMapping, Parsed
<1>7. FrozenParsed'
  BY <1>1 DEF IInv, FrozenParsed, Parsed, Validated
<1>8. ReplayFromManifest'
  BY <1>1 DEF IInv, ReplayFromManifest, Kept, KeptEvidence, Evidence, Validated
<1> QED BY <1>4, <1>6, <1>7, <1>8 DEF IInv

LEMMA SaveRuleStep ==
    ASSUME IInv, NEW i \in RuleIds, NEW from \in Dates, NEW definition \in Definitions,
           SaveRule(i, from, definition)
    PROVE  IInv'
<1> DEFINE saved == [from |-> from, definition |-> definition]
<1>1. rules' = [rules EXCEPT ![i] = Append(rules[i], saved)] /\ UNCHANGED <<file, mappings, run>>
  BY DEF SaveRule
<1>2. saved \in RuleVersion
  BY DEF RuleVersion
<1> HIDE DEF saved
<1>3. rules \in [RuleIds -> Seq(RuleVersion)]
  BY DEF IInv, Structure
<1>4. Structure'
  BY <1>1, <1>2, <1>3 DEF IInv, Structure
<1>5. ASSUME NEW j \in RuleIds, NEW v \in DOMAIN rules[j]
      PROVE  v \in DOMAIN rules'[j] /\ rules'[j][v] = rules[j][v]
  <2>1. rules[j] \in Seq(RuleVersion)
    BY <1>3
  <2>2. CASE j = i
    BY <1>1, <1>2, <1>3, <2>1, <2>2
  <2>3. CASE j # i
    BY <1>1, <1>3, <2>3
  <2> QED BY <2>2, <2>3
<1>6. HasContent' /\ HasMapping'
  BY <1>1 DEF IInv, HasContent, HasMapping, Parsed
<1>7. FrozenParsed'
  BY <1>1, <1>5 DEF IInv, FrozenParsed, Parsed, Validated
<1>8. ASSUME NEW f \in Files, Validated(f)'
      PROVE  /\ run'[f].mapping = file'[f].mapping
             /\ run'[f].results = Results(f, Kept(f)', KeptEvidence(f)')
  <2>1. Validated(f)
    BY <1>1, <1>8 DEF Validated
  <2>2. Kept(f)' = Kept(f)
    BY <1>1, <1>5, <2>1 DEF IInv, FrozenParsed, Kept
  <2>3. KeptEvidence(f)' = KeptEvidence(f)
    BY <1>1 DEF KeptEvidence, Evidence
  <2> QED BY <1>1, <2>1, <2>2, <2>3 DEF IInv, ReplayFromManifest
<1>9. ReplayFromManifest'
  BY <1>8 DEF ReplayFromManifest
<1> QED BY <1>4, <1>6, <1>7, <1>9 DEF IInv

\* What a run keeps of the rules gives the results that all versions gave.
LEMMA ValidateReplays ==
    ASSUME IInv, NEW f \in Files, NEW kept, NEW evidence,
           evidence[f].rows = file[f].rows,
           kept = [i \in Families |-> [v \in Manifest(f, i) |-> rules[i][v]]]
    PROVE  Results(f, [i \in Families |-> Candidates(i)], evidence)
                = Results(f, kept, evidence)
<1> DEFINE all == [i \in Families |-> Candidates(i)]
<1>1. ASSUME NEW i \in Families
      PROVE  /\ Candidates(i) = rules[i] /\ rules[i] \in Seq(RuleVersion)
             /\ Manifest(f, i) \subseteq DOMAIN rules[i]
  <2>1. rules[i] \in Seq(RuleVersion)
    BY DEF IInv, Structure, Families
  <2>2. Candidates(i) = rules[i]
    BY <2>1 DEF Candidates
  <2> QED BY <2>1, <2>2 DEF Manifest, Selected, Eligible
<1>2. ASSUME NEW k \in GoodRows(evidence[f].rows), NEW i \in Families
      PROVE  /\ Selected(kept[i], evidence[f].rows[k].expense_date)
                    = Selected(all[i], evidence[f].rows[k].expense_date)
             /\ \A v \in Selected(all[i], evidence[f].rows[k].expense_date) : kept[i][v] = all[i][v]
  <2> DEFINE date == evidence[f].rows[k].expense_date
  <2>1. Selected(rules[i], date) \subseteq Manifest(f, i)
    BY <1>1 DEF Manifest
  <2>2. Selected([v \in Manifest(f, i) |-> rules[i][v]], date) = Selected(rules[i], date)
    BY <1>1, <2>1, SelectedAgain
  <2> QED BY <1>1, <2>1, <2>2
<1>3. DOMAIN all = Families /\ DOMAIN kept = Families
  OBVIOUS
<1> HIDE DEF all
<1>4. ASSUME NEW k \in GoodRows(evidence[f].rows)
      PROVE  /\ Applicable(kept, evidence[f].rows[k].expense_date)
                    = Applicable(all, evidence[f].rows[k].expense_date)
             /\ SomeMissing(kept, evidence[f].rows[k].expense_date)
                    = SomeMissing(all, evidence[f].rows[k].expense_date)
  <2> DEFINE date == evidence[f].rows[k].expense_date
             of(candidates, i) == {candidates[i][v].definition : v \in Selected(candidates[i], date)}
  <2>1. ASSUME NEW i \in Families PROVE of(kept, i) = of(all, i)
    <3> DEFINE S == Selected(kept[i], date)
               T == Selected(all[i], date)
               K == kept[i]
               A == all[i]
    <3>1. S = T /\ \A v \in T : K[v].definition = A[v].definition
      BY <1>2
    <3>2. {K[v].definition : v \in S} = {A[v].definition : v \in T}
      <4> HIDE DEF S, T, K, A
      <4> QED BY <3>1
    <3> QED BY <3>2
  <2>2. Applicable(kept, date) = Applicable(all, date)
    <3>1. {of(kept, i) : i \in Families} = {of(all, i) : i \in Families}
      <4> HIDE DEF of
      <4> QED BY <2>1
    <3> QED BY <1>3, <3>1 DEF Applicable
  <2>3. SomeMissing(kept, date) = SomeMissing(all, date)
    BY <1>2, <1>3 DEF SomeMissing
  <2> QED BY <2>2, <2>3
<1> QED BY <1>4 DEF Results, all

LEMMA ValidateStep ==
    ASSUME IInv, NEW f \in Files, Validate(f)
    PROVE  IInv'
<1> DEFINE deps == Dependencies(f)
           manifest == [i \in Families |-> Manifest(f, i)]
           evidence == Evidence({f} \union deps)
           results == Results(f, [i \in Families |-> Candidates(i)], evidence)
           at == 1 + Cardinality({g \in Files : Validated(g)})
           new == [at |-> at, mapping |-> file[f].mapping, manifest |-> manifest,
                   deps |-> deps, results |-> results]
<1>1. run' = [run EXCEPT ![f] = new] /\ UNCHANGED <<file, mappings, rules>>
  BY DEF Validate
<1>2. /\ new.mapping = file[f].mapping /\ new.manifest = manifest
      /\ new.deps = deps /\ new.results = results
  OBVIOUS
<1>3. deps \subseteq Files /\ \A g \in deps : Parsed(g)
  BY DEF Dependencies
<1>4. DOMAIN manifest = Families /\ Families \subseteq RuleIds
  BY DEF Families
<1>5. ASSUME NEW i \in Families PROVE manifest[i] \subseteq DOMAIN rules[i]
  <2>1. rules[i] \in Seq(RuleVersion)
    BY <1>4 DEF IInv, Structure
  <2>2. DOMAIN Candidates(i) = DOMAIN rules[i]
    BY DEF Candidates
  <2> QED BY <2>2 DEF Manifest, Selected, Eligible
<1>6. evidence[f].rows = file[f].rows
  BY DEF Evidence
<1>7. results = Results(f, [i \in Families |-> [v \in manifest[i] |-> rules[i][v]]], evidence)
  BY <1>4, <1>6, ValidateReplays
<1> HIDE DEF new, results
<1>8. run'[f] = new /\ \A g \in Files : g # f => run'[g] = run[g]
  BY <1>1 DEF IInv, Structure
<1>9. Structure'
  BY <1>1 DEF IInv, Structure
<1>10. HasContent' /\ HasMapping'
  BY <1>1 DEF IInv, HasContent, HasMapping, Parsed
<1>11. ASSUME NEW g \in Files
       PROVE  Kept(g)' = [i \in DOMAIN run'[g].manifest |->
                            [v \in run'[g].manifest[i] |-> rules[i][v]]]
  BY <1>1 DEF Kept
<1>12. ASSUME NEW g \in Files
       PROVE  KeptEvidence(g)' = Evidence({g} \union run'[g].deps)
  BY <1>1 DEF KeptEvidence, Evidence
<1>13. FrozenParsed'
  <2>1. ASSUME NEW g \in Files, Validated(g)'
        PROVE  /\ Parsed(g)'
               /\ run'[g].deps \subseteq Files
               /\ \A h \in run'[g].deps : Parsed(h)'
               /\ DOMAIN run'[g].manifest \subseteq RuleIds
               /\ \A i \in DOMAIN run'[g].manifest : run'[g].manifest[i] \subseteq DOMAIN rules'[i]
    <3>1. CASE g = f
      <4>1. Parsed(f)
        BY DEF Validate
      <4> HIDE DEF deps, manifest
      <4> QED BY <1>1, <1>2, <1>3, <1>4, <1>5, <1>8, <3>1, <4>1 DEF Parsed
    <3>2. CASE g # f
      <4>1. Validated(g)
        BY <1>8, <2>1, <3>2 DEF Validated, NoRun
      <4> QED BY <1>1, <1>8, <3>2, <4>1 DEF IInv, FrozenParsed, Parsed
    <3> QED BY <3>1, <3>2
  <2> QED BY <2>1 DEF FrozenParsed
<1>14. ASSUME NEW g \in Files, Validated(g)'
       PROVE  /\ run'[g].mapping = file'[g].mapping
              /\ run'[g].results = Results(g, Kept(g)', KeptEvidence(g)')
  <2>1. CASE g = f
    <3>1. Kept(g)' = [i \in Families |-> [v \in manifest[i] |-> rules[i][v]]]
      <4> HIDE DEF manifest
      <4> QED BY <1>2, <1>4, <1>8, <1>11, <2>1
    <3>2. KeptEvidence(g)' = evidence
      <4> HIDE DEF deps
      <4> QED BY <1>2, <1>8, <1>12, <2>1
    <3> QED BY <1>1, <1>2, <1>7, <1>8, <2>1, <3>1, <3>2
  <2>2. CASE g # f
    <3>1. Validated(g) /\ run'[g] = run[g]
      BY <1>8, <1>14, <2>2 DEF Validated, NoRun
    <3>2. Kept(g)' = Kept(g) /\ KeptEvidence(g)' = KeptEvidence(g)
      BY <1>11, <1>12, <3>1 DEF Kept, KeptEvidence
    <3> QED BY <1>1, <3>1, <3>2 DEF IInv, ReplayFromManifest
  <2> QED BY <2>1, <2>2
<1>15. ReplayFromManifest'
  BY <1>14 DEF ReplayFromManifest
<1> QED BY <1>9, <1>10, <1>13, <1>15 DEF IInv

-----------------------------------------------------------------------------
(* The theorems *)

LEMMA InitInv == Init => IInv
BY InitStructure, InitParts DEF Init, IInv, ReplayFromManifest, Validated

LEMMA StutterStep == IInv /\ UNCHANGED vars => IInv'
<1> SUFFICES ASSUME IInv, UNCHANGED vars PROVE IInv'
  OBVIOUS
<1>1. UNCHANGED <<file, mappings, rules, run>>
  BY DEF vars
<1>2. Structure'
  BY <1>1 DEF IInv, Structure
<1>3. HasContent' /\ HasMapping' /\ FrozenParsed'
  BY <1>1 DEF IInv, HasContent, HasMapping, FrozenParsed, Parsed, Validated
<1>4. ReplayFromManifest'
  BY <1>1 DEF IInv, ReplayFromManifest, Kept, KeptEvidence, Evidence, Validated
<1> QED BY <1>2, <1>3, <1>4 DEF IInv

THEOREM Invariance == Spec => []IInv
<1>1. IInv /\ [Next]_vars => IInv'
  <2> SUFFICES ASSUME IInv, [Next]_vars PROVE IInv'
    OBVIOUS
  <2>1. ASSUME NEW f \in Files, NEW c \in Contents, ImportBegin(f, c) PROVE IInv'
    BY <2>1, ImportBeginStep
  <2>2. ASSUME NEW f \in Files, ImportCommit(f) PROVE IInv'
    BY <2>2, ImportCommitStep
  <2>3. ASSUME NEW f \in Files, ImportAbort(f) PROVE IInv'
    BY <2>3, ImportAbortStep
  <2>4. ASSUME NEW f \in Files, NEW g \in Files, NEW n \in 2..MaxFiles,
               NEW reason \in Reasons, NEW key \in Keys, Revise(f, g, n, reason, key)
        PROVE  IInv'
    BY <2>4, ReviseStep
  <2>5. ASSUME NEW f \in Files, NEW config \in MapConfigs, SaveMapping(f, config) PROVE IInv'
    BY <2>5, SaveMappingStep
  <2>6. ASSUME NEW f \in Files, NEW v \in DOMAIN mappings, Parse(f, v) PROVE IInv'
    BY <2>6, ParseStep
  <2>7. ASSUME NEW f \in Files, Validate(f) PROVE IInv'
    BY <2>7, ValidateStep
  <2>8. ASSUME NEW i \in RuleIds, NEW from \in Dates, NEW definition \in Definitions,
               SaveRule(i, from, definition)
        PROVE  IInv'
    BY <2>8, SaveRuleStep
  <2>9. CASE UNCHANGED vars
    BY <2>9, StutterStep
  <2> QED BY <2>1, <2>2, <2>3, <2>4, <2>5, <2>6, <2>7, <2>8, <2>9 DEF Next
<1> QED BY <1>1, InitInv, PTL DEF Spec

\* The types, which the invariant strengthens with where contents, mappings and
\* manifests come from (TypeOK).
THEOREM TypeCorrect == Spec => []TypeOK
<1>1. IInv => TypeOK
  <2> SUFFICES ASSUME IInv PROVE TypeOK
    OBVIOUS
  <2>1. ASSUME NEW f \in Files, Validated(f)
        PROVE  /\ run[f].mapping \in DOMAIN mappings
               /\ \A i \in DOMAIN run[f].manifest : run[f].manifest[i] \subseteq DOMAIN rules[i]
    BY <2>1 DEF IInv, FrozenParsed, HasMapping, ReplayFromManifest
  <2> QED BY <2>1 DEF IInv, Structure, TypeOK
<1> QED BY <1>1, Invariance, PTL

\* The rows of a parsed batch, revised or not, are what its mapping version
\* makes of the workbook (parse_batch, _copy_rows).
THEOREM RowsFollowMapping == Spec => []ParsedByMapping
<1>1. IInv => ParsedByMapping
  BY DEF IInv, HasMapping, ParsedByMapping
<1> QED BY <1>1, Invariance, PTL

\* What a validation found can be found again from the rule versions of its
\* manifest, its frozen dependencies and the rows as they are now
\* (_freeze_rule_manifest, _validate_not_frozen_by_validation).
THEOREM Replayable == Spec => []ReplayFromManifest
<1>1. IInv => ReplayFromManifest
  BY DEF IInv
<1> QED BY <1>1, Invariance, PTL

-----------------------------------------------------------------------------
(* The revisions of a content *)

\* The file versions of a content.
VersionsIn(c) == {g \in Files : Stored(g) /\ file[g].content = c}

\* An upload that has begun will be revision 1.
UploadsFirst == \A f \in Files : file[f].status = "importing" => file[f].revision = 1

ChainInv == UploadsFirst /\ RevisionChain

LEMMA FilesFinite ==
    ASSUME NEW S \in SUBSET Files
    PROVE  IsFiniteSet(S) /\ Cardinality(S) \in Nat
<1>1. IsFiniteSet(Files)
  BY BoundsAssumption, FS_Interval DEF Files
<1> QED BY <1>1, FS_Subset, FS_CardinalityType

\* RevisionChain, content by content.
LEMMA ChainParts ==
    RevisionChain <=>
        \A f \in Files : Stored(f) =>
            LET same == VersionsIn(file[f].content)
            IN  /\ {file[g].revision : g \in same} = 1..Cardinality(same)
                /\ \A g \in same : file[g].root = file[f].root
                /\ file[f].revision > 1 =>
                    file[f].source \in same /\ file[file[f].source].revision < file[f].revision
BY DEF RevisionChain, VersionsIn

\* Of a stored file version no step changes these.
SameVersion(f) ==
    /\ file'[f].content = file[f].content /\ file'[f].revision = file[f].revision
    /\ file'[f].root = file[f].root /\ file'[f].source = file[f].source

LEMMA SameChain ==
    ASSUME RevisionChain,
           \A f \in Files : Stored(f)' <=> Stored(f),
           \A f \in Files : Stored(f) => SameVersion(f)
    PROVE  RevisionChain'
<1> SUFFICES ASSUME NEW f \in Files, Stored(f)'
             PROVE  LET same == VersionsIn(file[f].content)'
                    IN  /\ {file'[g].revision : g \in same} = 1..Cardinality(same)
                        /\ \A g \in same : file'[g].root = file'[f].root
                        /\ file'[f].revision > 1 =>
                            /\ file'[f].source \in same
                            /\ file'[file'[f].source].revision < file'[f].revision
  BY DEF RevisionChain, VersionsIn
<1> DEFINE same == VersionsIn(file[f].content)
<1>1. Stored(f)
  OBVIOUS
<1>2. VersionsIn(file[f].content)' = same
  BY <1>1 DEF VersionsIn, SameVersion
<1>3. \A g \in same : g \in Files /\ SameVersion(g)
  BY DEF VersionsIn
<1>4. /\ {file[g].revision : g \in same} = 1..Cardinality(same)
      /\ \A g \in same : file[g].root = file[f].root
      /\ file[f].revision > 1 =>
            file[f].source \in same /\ file[file[f].source].revision < file[f].revision
  BY <1>1, ChainParts
<1>5. {file'[g].revision : g \in same} = {file[g].revision : g \in same}
  BY <1>3 DEF SameVersion
<1>6. SameVersion(f)
  BY <1>1
<1> HIDE DEF same
<1> QED BY <1>2, <1>3, <1>4, <1>5, <1>6 DEF SameVersion

\* A version is added to those of a content.
LEMMA AddVersion ==
    ASSUME RevisionChain, NEW f \in Files, ~Stored(f), Stored(f)',
           \A g \in Files \ {f} : file'[g] = file[g],
           NEW c, file'[f].content = c,
           file'[f].revision = Cardinality(VersionsIn(c)) + 1,
           \A g \in VersionsIn(c) : file[g].root = file'[f].root,
           file'[f].revision > 1 =>
                /\ file'[f].source \in VersionsIn(c)
                /\ file[file'[f].source].revision < file'[f].revision
    PROVE  RevisionChain'
<1> SUFFICES ASSUME NEW g \in Files, Stored(g)'
             PROVE  LET same == VersionsIn(file[g].content)'
                    IN  /\ {file'[h].revision : h \in same} = 1..Cardinality(same)
                        /\ \A h \in same : file'[h].root = file'[g].root
                        /\ file'[g].revision > 1 =>
                            /\ file'[g].source \in same
                            /\ file'[file'[g].source].revision < file'[g].revision
  BY DEF RevisionChain, VersionsIn
<1> DEFINE old == VersionsIn(c)
<1>1. \A h \in Files \ {f} : Stored(h)' <=> Stored(h)
  BY DEF Stored
<1>2. \A e : VersionsIn(e)' = IF e = c THEN VersionsIn(e) \union {f} ELSE VersionsIn(e)
  <2>1. ASSUME NEW e, NEW h \in Files
        PROVE  h \in VersionsIn(e)' <=> h \in VersionsIn(e) \/ (e = c /\ h = f)
    BY <1>1 DEF VersionsIn
  <2>2. \A e : VersionsIn(e)' \subseteq Files /\ VersionsIn(e) \subseteq Files
    BY DEF VersionsIn
  <2> QED BY <2>1, <2>2
<1>3. \A e : f \notin VersionsIn(e) /\ VersionsIn(e) \subseteq Files
  BY DEF VersionsIn
<1>4. \A e : \A h \in VersionsIn(e) : file'[h] = file[h]
  BY <1>3
<1>5. CASE file'[g].content # c
  <2> DEFINE same == VersionsIn(file[g].content)
  <2>1. g # f /\ Stored(g) /\ file'[g] = file[g]
    BY <1>1, <1>5
  <2>2. VersionsIn(file[g].content)' = same
    BY <1>2, <1>5, <2>1
  <2>3. /\ {file[h].revision : h \in same} = 1..Cardinality(same)
        /\ \A h \in same : file[h].root = file[g].root
        /\ file[g].revision > 1 =>
              file[g].source \in same /\ file[file[g].source].revision < file[g].revision
    BY <2>1, ChainParts
  <2>4. \A h \in same : file'[h] = file[h]
    BY <1>4
  <2> HIDE DEF same
  <2> QED BY <2>1, <2>2, <2>3, <2>4
<1>6. CASE file'[g].content = c
  <2> DEFINE new == old \union {f}
             K == Cardinality(old)
  <2>1. VersionsIn(file[g].content)' = new
    BY <1>2, <1>6
  <2>2. IsFiniteSet(old) /\ K \in Nat
    BY <1>3, FilesFinite
  <2>3. Cardinality(new) = K + 1
    BY <1>3, <2>2, FS_AddElement
  <2>4. {file[h].revision : h \in old} = 1..K
    <3>1. CASE old = {}
      BY <3>1, FS_EmptySet
    <3>2. CASE old # {}
      <4>1. PICK h \in old : TRUE
        BY <3>2
      <4>2. h \in Files /\ Stored(h) /\ file[h].content = c
        BY <4>1 DEF VersionsIn
      <4> QED BY <4>2, ChainParts
    <3> QED BY <3>1, <3>2
  <2>5. \A h \in old : file'[h] = file[h]
    BY <1>4
  <2>6. ASSUME g # f
        PROVE  /\ g \in old
               /\ \A h \in old : file[h].root = file[g].root
               /\ file[g].revision > 1 =>
                    file[g].source \in old /\ file[file[g].source].revision < file[g].revision
    <3>1. Stored(g) /\ file[g].content = c
      BY <1>1, <1>6, <2>6
    <3> QED BY <3>1, ChainParts DEF VersionsIn
  <2> HIDE DEF old, K
  <2>7. {file'[h].revision : h \in new} = 1..(K + 1)
    <3>1. {file'[h].revision : h \in old} = 1..K
      BY <2>4, <2>5
    <3>2. {file'[h].revision : h \in new} = {file'[h].revision : h \in old} \union {file'[f].revision}
      OBVIOUS
    <3>3. file'[f].revision = K + 1
      BY DEF old, K
    <3>4. 1..(K + 1) = 1..K \union {K + 1}
      BY <2>2
    <3> QED BY <3>1, <3>2, <3>3, <3>4
  <2>8. \A h \in new : file'[h].root = file'[g].root
    <3>1. \A h \in old : file'[h].root = file'[f].root
      BY <2>5 DEF old
    <3> QED BY <2>5, <2>6, <3>1
  <2>9. file'[g].revision > 1 =>
            /\ file'[g].source \in new
            /\ file'[file'[g].source].revision < file'[g].revision
    <3>1. CASE g = f
      BY <2>5, <3>1 DEF old
    <3>2. CASE g # f
      BY <2>5, <2>6, <3>2
    <3> QED BY <3>1, <3>2
  <2> QED BY <2>1, <2>3, <2>7, <2>8, <2>9
<1> QED BY <1>5, <1>6

LEMMA ChainInit == Init => ChainInv
BY AbsentType DEF Init, ChainInv, UploadsFirst, RevisionChain, Stored

\* The revisions of the content of a stored file are those of its chain.
LEMMA RevisionsOf ==
    ASSUME RevisionChain, NEW c, VersionsIn(c) # {}
    PROVE  {file[g].revision : g \in VersionsIn(c)} = 1..Cardinality(VersionsIn(c))
<1>1. PICK f \in VersionsIn(c) : TRUE
  OBVIOUS
<1>2. f \in Files /\ Stored(f) /\ file[f].content = c
  BY <1>1 DEF VersionsIn
<1> QED BY <1>2, ChainParts

\* A content without an original has no file version.
LEMMA NoOriginal ==
    ASSUME RevisionChain, NEW c, Original(c) = {}
    PROVE  VersionsIn(c) = {}
<1> SUFFICES ASSUME VersionsIn(c) # {} PROVE FALSE
  OBVIOUS
<1>1. {file[g].revision : g \in VersionsIn(c)} = 1..Cardinality(VersionsIn(c))
  BY RevisionsOf
<1>2. Cardinality(VersionsIn(c)) \in Nat
  BY FilesFinite DEF VersionsIn
<1>3. 1..Cardinality(VersionsIn(c)) # {}
  BY <1>1
<1>4. 1 \in {file[g].revision : g \in VersionsIn(c)}
  BY <1>1, <1>2, <1>3
<1> QED BY <1>4 DEF VersionsIn, Original

LEMMA ChainImportBegin ==
    ASSUME IInv, ChainInv, NEW f \in Files, NEW c \in Contents, ImportBegin(f, c)
    PROVE  ChainInv'
<1>1. /\ \A g \in Files \ {f} : file'[g] = file[g]
      /\ file'[f].status = "importing" /\ file'[f].revision = 1
  BY AbsentType DEF IInv, Structure, ImportBegin, Absent
<1>2. ~Stored(f) /\ ~Stored(f)'
  BY <1>1 DEF ImportBegin, New, Stored
<1>3. \A g \in Files : (Stored(g)' <=> Stored(g)) /\ (Stored(g) => SameVersion(g))
  BY <1>1, <1>2 DEF Stored, SameVersion
<1>4. RevisionChain'
  BY <1>3, SameChain DEF ChainInv
<1>5. UploadsFirst'
  BY <1>1 DEF ChainInv, UploadsFirst
<1> QED BY <1>4, <1>5 DEF ChainInv

LEMMA ChainImportCommit ==
    ASSUME IInv, ChainInv, NEW f \in Files, ImportCommit(f)
    PROVE  ChainInv'
<1> DEFINE c == file[f].content
<1>1. /\ \A g \in Files \ {f} : file'[g] = file[g]
      /\ file'[f].status = "unparsed" /\ SameVersion(f)
  BY DEF IInv, Structure, FileVersion, ImportCommit, SameVersion
<1>2. ~Stored(f) /\ Stored(f)' /\ file'[f].content = c
  BY <1>1 DEF ImportCommit, Stored, SameVersion
<1>3. VersionsIn(c) = {}
  BY NoOriginal DEF ImportCommit, Insertable, ChainInv
<1>4. file'[f].revision = 1
  BY <1>1 DEF ChainInv, UploadsFirst, ImportCommit, SameVersion
<1>5. Cardinality(VersionsIn(c)) = 0
  BY <1>3, FS_EmptySet
<1> HIDE DEF c
<1>6. RevisionChain'
  BY <1>1, <1>2, <1>3, <1>4, <1>5, AddVersion DEF ChainInv
<1>7. UploadsFirst'
  BY <1>1 DEF ChainInv, UploadsFirst
<1> QED BY <1>6, <1>7 DEF ChainInv

LEMMA ChainImportAbort ==
    ASSUME IInv, ChainInv, NEW f \in Files, ImportAbort(f)
    PROVE  ChainInv'
<1>1. (\A g \in Files \ {f} : file'[g] = file[g]) /\ file'[f].status = "aborted"
  BY DEF IInv, Structure, ImportAbort, Absent
<1>2. \A g \in Files : (Stored(g)' <=> Stored(g)) /\ (Stored(g) => SameVersion(g))
  BY <1>1 DEF ImportAbort, Stored, SameVersion
<1>3. RevisionChain'
  BY <1>2, SameChain DEF ChainInv
<1>4. UploadsFirst'
  BY <1>1 DEF ChainInv, UploadsFirst
<1> QED BY <1>3, <1>4 DEF ChainInv

LEMMA ChainParse ==
    ASSUME IInv, ChainInv, NEW f \in Files, NEW v \in DOMAIN mappings, Parse(f, v)
    PROVE  ChainInv'
<1>1. /\ \A g \in Files \ {f} : file'[g] = file[g]
      /\ file'[f].status = "parsed" /\ SameVersion(f)
  BY DEF IInv, Structure, FileVersion, Parse, SameVersion
<1>2. \A g \in Files : (Stored(g)' <=> Stored(g)) /\ (Stored(g) => SameVersion(g))
  BY <1>1 DEF Parse, Stored, SameVersion
<1>3. RevisionChain'
  BY <1>2, SameChain DEF ChainInv
<1>4. UploadsFirst'
  BY <1>1 DEF ChainInv, UploadsFirst
<1> QED BY <1>3, <1>4 DEF ChainInv

\* What a revision is, of the file that it derives from.
LEMMA RevisedVersion ==
    ASSUME IInv, NEW f \in Files, NEW g \in Files, NEW n \in 2..MaxFiles,
           NEW reason \in Reasons, NEW key \in Keys, Revise(f, g, n, reason, key)
    PROVE  /\ \A h \in Files \ {g} : file'[h] = file[h]
           /\ ~Stored(g) /\ Stored(g)' /\ g # f
           /\ file'[g].status \in {"unparsed", "parsed"}
           /\ file'[g].content = file[f].content /\ file'[g].revision = n
           /\ file'[g].source = f /\ file'[g].root = file[f].root
<1> DEFINE copied == IF CopiesParsed(reason) THEN file[f]
                     ELSE [Absent EXCEPT !.status = "unparsed"]
<1>1. file[f] \in FileVersion /\ Stored(f) /\ New(g)
  BY DEF IInv, Structure, Revise
<1>2. copied \in FileVersion
  BY <1>1, AbsentType, StatusType
<1>3. copied.status \in {"unparsed", "parsed"}
  BY <1>1, AbsentType DEF Stored, FileVersion
<1>4. file' = [file EXCEPT ![g] =
                [copied EXCEPT !.content = file[f].content, !.revision = n, !.source = f,
                               !.root = file[f].root, !.reason = reason, !.key = key]]
  BY DEF Revise
<1> HIDE DEF copied
<1>5. /\ \A h \in Files \ {g} : file'[h] = file[h]
      /\ file'[g].status = copied.status
      /\ file'[g].content = file[f].content /\ file'[g].revision = n
      /\ file'[g].source = f /\ file'[g].root = file[f].root
  BY <1>2, <1>4 DEF IInv, Structure, FileVersion
<1> QED BY <1>1, <1>3, <1>5 DEF Stored, New

LEMMA ChainRevise ==
    ASSUME IInv, ChainInv, NEW f \in Files, NEW g \in Files, NEW n \in 2..MaxFiles,
           NEW reason \in Reasons, NEW key \in Keys, Revise(f, g, n, reason, key)
    PROVE  ChainInv'
<1> DEFINE c == file[f].content
           same == VersionsIn(c)
           K == Cardinality(same)
<1>1. /\ \A h \in Files \ {g} : file'[h] = file[h]
      /\ ~Stored(g) /\ Stored(g)' /\ g # f
      /\ file'[g].status \in {"unparsed", "parsed"}
      /\ file'[g].content = c /\ file'[g].revision = n
      /\ file'[g].source = f /\ file'[g].root = file[f].root
  BY RevisedVersion
<1>2. Stored(f) /\ f \in same
  BY DEF Revise, VersionsIn
<1>3. /\ {file[h].revision : h \in same} = 1..K
      /\ \A h \in same : file[h].root = file[f].root
  BY <1>2, ChainParts DEF ChainInv
<1>4. /\ \E h \in same : n = file[h].revision + 1
      /\ \A h \in same : file[h].revision < n
  BY DEF Revise, NextRevision, VersionsIn
<1>5. K \in Nat
  BY FilesFinite DEF VersionsIn
<1> HIDE DEF same, K
<1>6. n = K + 1
  <2>1. PICK h \in same : n = file[h].revision + 1
    BY <1>4
  <2>2. file[h].revision \in 1..K
    BY <1>3
  <2>3. K \in {file[x].revision : x \in same}
    BY <1>3, <1>5, <2>2
  <2>4. K < n
    BY <1>4, <2>3
  <2> QED BY <1>5, <2>1, <2>2, <2>4
<1>7. RevisionChain'
  BY <1>1, <1>2, <1>3, <1>4, <1>6, AddVersion DEF ChainInv, same, K
<1>8. UploadsFirst'
  BY <1>1 DEF ChainInv, UploadsFirst
<1> QED BY <1>7, <1>8 DEF ChainInv

LEMMA ChainUnchanged ==
    ASSUME ChainInv, UNCHANGED file
    PROVE  ChainInv'
<1>1. UploadsFirst'
  BY DEF ChainInv, UploadsFirst
<1>2. \A g \in Files : (Stored(g)' <=> Stored(g)) /\ (Stored(g) => SameVersion(g))
  BY DEF Stored, SameVersion
<1>3. RevisionChain'
  BY <1>2, SameChain DEF ChainInv
<1> QED BY <1>1, <1>3 DEF ChainInv

\* The revisions of a content are 1, 2, ... without a gap or a number given
\* twice, all of the lineage of the upload, and each derives from an earlier
\* one (import_batch, create_file_revision).
THEOREM RevisionsChain == Spec => []RevisionChain
<1>1. IInv /\ ChainInv /\ [Next]_vars => ChainInv'
  <2> SUFFICES ASSUME IInv, ChainInv, [Next]_vars PROVE ChainInv'
    OBVIOUS
  <2>1. ASSUME NEW f \in Files, NEW c \in Contents, ImportBegin(f, c) PROVE ChainInv'
    BY <2>1, ChainImportBegin
  <2>2. ASSUME NEW f \in Files, ImportCommit(f) PROVE ChainInv'
    BY <2>2, ChainImportCommit
  <2>3. ASSUME NEW f \in Files, ImportAbort(f) PROVE ChainInv'
    BY <2>3, ChainImportAbort
  <2>4. ASSUME NEW f \in Files, NEW g \in Files, NEW n \in 2..MaxFiles,
               NEW reason \in Reasons, NEW key \in Keys, Revise(f, g, n, reason, key)
        PROVE  ChainInv'
    BY <2>4, ChainRevise
  <2>5. ASSUME NEW f \in Files, NEW config \in MapConfigs, SaveMapping(f, config)
        PROVE  ChainInv'
    BY <2>5, ChainUnchanged DEF SaveMapping
  <2>6. ASSUME NEW f \in Files, NEW v \in DOMAIN mappings, Parse(f, v) PROVE ChainInv'
    BY <2>6, ChainParse
  <2>7. ASSUME NEW f \in Files, Validate(f) PROVE ChainInv'
    BY <2>7, ChainUnchanged DEF Validate
  <2>8. ASSUME NEW i \in RuleIds, NEW from \in Dates, NEW definition \in Definitions,
               SaveRule(i, from, definition)
        PROVE  ChainInv'
    BY <2>8, ChainUnchanged DEF SaveRule
  <2>9. CASE UNCHANGED vars
    BY <2>9, ChainUnchanged DEF vars
  <2> QED BY <2>1, <2>2, <2>3, <2>4, <2>5, <2>6, <2>7, <2>8, <2>9 DEF Next
<1>2. Spec => []ChainInv
  BY <1>1, ChainInit, Invariance, PTL DEF Spec
<1>3. ChainInv => RevisionChain
  BY DEF ChainInv
<1> QED BY <1>2, <1>3, PTL

-----------------------------------------------------------------------------
(* What was validated before *)

ValidatedFiles == {f \in Files : Validated(f)}

\* The validations are numbered in their order, and each is compared with a
\* revision of the lineage of every earlier one, no lower than the one that
\* was validated.
SeenInv ==
    /\ \A f \in ValidatedFiles : run[f].at \in 1..Cardinality(ValidatedFiles)
    /\ \A f, g \in ValidatedFiles :
        run[g].at < run[f].at /\ file[g].root # file[f].root
        => \E h \in run[f].deps :
            file[h].root = file[g].root /\ file[h].revision >= file[g].revision

LEMMA SeenInit == Init => SeenInv
BY DEF Init, SeenInv, ValidatedFiles, Validated

\* A stored file version keeps its content, number, root and source.
LEMMA VersionsStay ==
    ASSUME IInv, [Next]_vars, NEW h \in Files, Stored(h)
    PROVE  SameVersion(h)
<1>1. ASSUME NEW f \in Files, NEW c \in Contents, ImportBegin(f, c) PROVE SameVersion(h)
  BY <1>1 DEF IInv, Structure, ImportBegin, New, Stored, SameVersion
<1>2. ASSUME NEW f \in Files, ImportCommit(f) PROVE SameVersion(h)
  BY <1>2 DEF IInv, Structure, ImportCommit, Stored, SameVersion
<1>3. ASSUME NEW f \in Files, ImportAbort(f) PROVE SameVersion(h)
  BY <1>3 DEF IInv, Structure, ImportAbort, Stored, SameVersion
<1>4. ASSUME NEW f \in Files, NEW g \in Files, NEW n \in 2..MaxFiles,
             NEW reason \in Reasons, NEW key \in Keys, Revise(f, g, n, reason, key)
      PROVE  SameVersion(h)
  BY <1>4, RevisedVersion DEF SameVersion
<1>5. ASSUME NEW f \in Files, NEW v \in DOMAIN mappings, Parse(f, v) PROVE SameVersion(h)
  BY <1>5 DEF IInv, Structure, FileVersion, Parse, SameVersion
<1>6. CASE UNCHANGED file
  BY <1>6 DEF SameVersion
<1> QED BY <1>1, <1>2, <1>3, <1>4, <1>5, <1>6 DEF Next, vars, SaveMapping, SaveRule, Validate

\* Validated batches, and those they were compared with, are stored.
LEMMA ValidatedStored ==
    ASSUME IInv, NEW f \in ValidatedFiles
    PROVE  /\ f \in Files /\ Stored(f)
           /\ \A h \in run[f].deps : h \in Files /\ Stored(h)
BY DEF IInv, FrozenParsed, ValidatedFiles, Parsed, Stored

LEMMA SeenUnlessValidated ==
    ASSUME IInv, SeenInv, [Next]_vars, UNCHANGED run
    PROVE  SeenInv'
<1>1. ValidatedFiles' = ValidatedFiles
  BY DEF ValidatedFiles, Validated
<1>2. ASSUME NEW f \in ValidatedFiles
      PROVE  SameVersion(f) /\ \A h \in run[f].deps : SameVersion(h)
  BY ValidatedStored, VersionsStay
<1>3. ASSUME NEW f \in ValidatedFiles, NEW g \in ValidatedFiles,
             run[g].at < run[f].at, file'[g].root # file'[f].root
      PROVE  \E h \in run[f].deps :
                file'[h].root = file'[g].root /\ file'[h].revision >= file'[g].revision
  <2>1. file[g].root # file[f].root
    BY <1>2, <1>3 DEF SameVersion
  <2>2. PICK h \in run[f].deps :
            file[h].root = file[g].root /\ file[h].revision >= file[g].revision
    BY <1>3, <2>1 DEF SeenInv
  <2>3. SameVersion(h) /\ SameVersion(g)
    BY <1>2, <2>2
  <2> QED BY <2>2, <2>3 DEF SameVersion
<1> QED BY <1>1, <1>3 DEF SeenInv

\* Of the lineage of a parsed file, unless it is f's own, f is compared with a
\* revision no lower.
LEMMA ComparedWith ==
    ASSUME IInv, NEW f \in Files, NEW g \in Files, Parsed(g), file[g].root # file[f].root
    PROVE  \E h \in Dependencies(f) :
                file[h].root = file[g].root /\ file[h].revision >= file[g].revision
<1> DEFINE lineage == {h \in Files : Parsed(h) /\ file[h].root = file[g].root}
           revisions == {file[h].revision : h \in lineage}
<1>1. \A h \in Files : file[h].revision \in 0..MaxFiles
  BY DEF IInv, Structure, FileVersion
<1>2. g \in lineage
  OBVIOUS
<1>3. revisions \subseteq Nat /\ IsFiniteSet(revisions) /\ revisions # {}
  <2>1. revisions \subseteq 0..MaxFiles
    BY <1>1
  <2>2. IsFiniteSet(0..MaxFiles)
    BY BoundsAssumption, FS_Interval
  <2>3. IsFiniteSet(revisions)
    <3> HIDE DEF revisions
    <3> QED BY <2>1, <2>2, FS_Subset
  <2>4. 0..MaxFiles \subseteq Nat
    BY BoundsAssumption
  <2>5. file[g].revision \in revisions
    BY <1>2
  <2> QED BY <2>1, <2>3, <2>4, <2>5
<1> HIDE DEF revisions
<1>4. PICK m \in revisions : \A x \in revisions : x <= m
  BY <1>3, MaxExists
<1>5. PICK h \in lineage : m = file[h].revision
  BY <1>4 DEF revisions
<1>6. \A x \in lineage : file[x].revision <= file[h].revision
  BY <1>4, <1>5 DEF revisions
<1>7. h \in Dependencies(f)
  BY <1>5, <1>6 DEF Dependencies
<1>8. file[h].revision >= file[g].revision
  BY <1>1, <1>2, <1>5, <1>6
<1> QED BY <1>5, <1>7, <1>8

LEMMA SeenValidate ==
    ASSUME IInv, SeenInv, NEW f \in Files, Validate(f)
    PROVE  SeenInv'
<1> DEFINE count == Cardinality(ValidatedFiles)
<1>1. /\ \A g \in Files \ {f} : run'[g] = run[g]
      /\ run'[f].at = 1 + count /\ run'[f].deps = Dependencies(f)
      /\ UNCHANGED file
  BY DEF IInv, Structure, Validate, ValidatedFiles
<1>2. count \in Nat /\ ValidatedFiles \in SUBSET Files /\ IsFiniteSet(ValidatedFiles)
  BY FilesFinite DEF ValidatedFiles
<1>3. f \notin ValidatedFiles
  BY DEF Validate, ValidatedFiles
<1> HIDE DEF count
<1>4. ValidatedFiles' = ValidatedFiles \union {f}
  <2>1. run'[f] # NoRun
    BY <1>1, <1>2 DEF NoRun
  <2> QED BY <1>1, <2>1 DEF ValidatedFiles, Validated
<1>5. Cardinality(ValidatedFiles)' = count + 1
  BY <1>2, <1>3, <1>4, FS_AddElement DEF count
<1>6. \A g \in ValidatedFiles : run'[g] = run[g] /\ run[g].at \in 1..count
  BY <1>1, <1>2, <1>3 DEF SeenInv, count
<1>7. ASSUME NEW x \in ValidatedFiles' PROVE run'[x].at \in 1..Cardinality(ValidatedFiles)'
  BY <1>1, <1>2, <1>4, <1>5, <1>6
<1>8. ASSUME NEW x \in ValidatedFiles', NEW y \in ValidatedFiles',
             run'[y].at < run'[x].at, file'[y].root # file'[x].root
      PROVE  \E h \in run'[x].deps :
                file'[h].root = file'[y].root /\ file'[h].revision >= file'[y].revision
  <2>1. y \in ValidatedFiles
    BY <1>1, <1>2, <1>4, <1>6, <1>8
  <2>2. CASE x = f
    <3>1. y \in Files /\ Parsed(y)
      BY <2>1 DEF IInv, FrozenParsed, ValidatedFiles
    <3> QED BY <1>1, <1>8, <2>2, <3>1, ComparedWith
  <2>3. CASE x # f
    BY <1>1, <1>4, <1>6, <1>8, <2>1, <2>3 DEF SeenInv
  <2> QED BY <2>2, <2>3
<1> QED BY <1>7, <1>8 DEF SeenInv

LEMMA SeenInvariance == Spec => []SeenInv
<1>1. IInv /\ SeenInv /\ [Next]_vars => SeenInv'
  <2> SUFFICES ASSUME IInv, SeenInv, [Next]_vars PROVE SeenInv'
    OBVIOUS
  <2>1. ASSUME NEW f \in Files, Validate(f) PROVE SeenInv'
    BY <2>1, SeenValidate
  <2>2. CASE UNCHANGED run
    BY <2>2, SeenUnlessValidated
  <2> QED BY <2>1, <2>2 DEF Next, vars, ImportBegin, ImportCommit, ImportAbort, Revise,
                            SaveMapping, Parse, SaveRule
<1> QED BY <1>1, SeenInit, Invariance, PTL DEF Spec

\* A set of naturals has a least element: the greatest distance from one of its
\* elements downwards.
LEMMA MinExists ==
    ASSUME NEW S, S \subseteq Nat, S # {}
    PROVE  \E m \in S : \A x \in S : m <= x
<1>1. PICK s \in S : TRUE
  OBVIOUS
<1> DEFINE D == {d \in 0..s : s - d \in S}
<1>2. D \subseteq Nat /\ IsFiniteSet(D) /\ D # {}
  <2>1. s \in Nat
    OBVIOUS
  <2>2. IsFiniteSet(0..s)
    BY <2>1, FS_Interval
  <2>3. 0 \in D
    BY <2>1
  <2>4. IsFiniteSet(D)
    BY <2>2, FS_Subset
  <2>5. D \subseteq Nat
    BY <2>1
  <2> HIDE DEF D
  <2> QED BY <2>3, <2>4, <2>5
<1>3. PICK d \in D : \A x \in D : x <= d
  <2> HIDE DEF D
  <2> QED BY <1>2, MaxExists
<1>4. ASSUME NEW x \in S PROVE s - d <= x
  <2>1. x \in Nat /\ s \in Nat /\ d \in Nat
    OBVIOUS
  <2>2. CASE x > s
    BY <2>1, <2>2
  <2>3. CASE x <= s
    <3>1. s - x \in 0..s /\ s - (s - x) = x
      BY <2>1, <2>3
    <3>2. s - x \in D
      BY <3>1
    <3>3. s - x <= d
      BY <1>3, <3>2
    <3> QED BY <2>1, <3>3
  <2> QED BY <2>1, <2>2, <2>3
<1> QED BY <1>4

\* Of the occurrences of an invoice one is the first.
LEMMA FirstOccurrence ==
    ASSUME NEW evidence, NEW invoice, Occurrences(evidence, invoice) # {},
           \A g \in DOMAIN evidence : /\ evidence[g].root \in Nat
                                      /\ DOMAIN evidence[g].rows \subseteq Nat
    PROVE  \E o \in Occurrences(evidence, invoice) :
                \A p \in Occurrences(evidence, invoice) : NotAfter(evidence, o, p)
<1> DEFINE all == Occurrences(evidence, invoice)
           roots == {evidence[o[1]].root : o \in all}
<1>1. \A o \in all : o[1] \in DOMAIN evidence /\ o[2] \in DOMAIN evidence[o[1]].rows
  BY DEF Occurrences, GoodRows
<1>2. \A o \in all : evidence[o[1]].root \in Nat /\ o[2] \in Nat
  BY <1>1
<1> HIDE DEF all
<1>3. roots \subseteq Nat /\ roots # {}
  BY <1>2 DEF all
<1>4. PICK r \in roots : \A x \in roots : r <= x
  <2> HIDE DEF roots
  <2> QED BY <1>3, MinExists
<1> DEFINE rows == {o[2] : o \in {p \in all : evidence[p[1]].root = r}}
<1>5. rows \subseteq Nat /\ rows # {}
  BY <1>2
<1>6. PICK k \in rows : \A x \in rows : k <= x
  <2> HIDE DEF rows
  <2> QED BY <1>5, MinExists
<1>7. PICK o \in all : evidence[o[1]].root = r /\ k = o[2]
  OBVIOUS
<1>8. ASSUME NEW p \in all PROVE NotAfter(evidence, o, p)
  <2>1. CASE evidence[p[1]].root = r
    BY <1>6, <1>7, <2>1 DEF NotAfter
  <2>2. CASE evidence[p[1]].root # r
    <3>1. r <= evidence[p[1]].root /\ r \in Nat /\ evidence[p[1]].root \in Nat
      BY <1>2, <1>3, <1>4
    <3> QED BY <1>7, <2>2, <3>1 DEF NotAfter
  <2> QED BY <2>1, <2>2
<1> QED BY <1>8 DEF all

\* A row whose invoice occurs in an earlier upload has a match.
LEMMA EarlierIsMatched ==
    ASSUME NEW evidence, NEW f, NEW k, NEW h \in DOMAIN evidence,
           DOMAIN evidence \subseteq Files,
           \A g \in DOMAIN evidence : /\ evidence[g].root \in Nat
                                      /\ DOMAIN evidence[g].rows \subseteq Nat,
           f \in DOMAIN evidence, evidence[h].root < evidence[f].root,
           evidence[f].rows[k].invoice_no # None,
           NEW j \in GoodRows(evidence[h].rows),
           evidence[h].rows[j].invoice_no = evidence[f].rows[k].invoice_no
    PROVE  DuplicateMatch(f, k, evidence) # None
<1> DEFINE invoice == evidence[f].rows[k].invoice_no
           all == Occurrences(evidence, invoice)
           first == CHOOSE o \in all : \A p \in all : NotAfter(evidence, o, p)
<1>1. <<h, j>> \in all
  BY DEF Occurrences
<1>2. all \subseteq Files \X Nat
  BY DEF Occurrences, GoodRows
<1>3. \E o \in all : \A p \in all : NotAfter(evidence, o, p)
  BY <1>1, FirstOccurrence
<1> HIDE DEF all
<1>4. first \in all /\ \A p \in all : NotAfter(evidence, first, p)
  BY <1>3
<1>5. NotAfter(evidence, first, <<h, j>>)
  BY <1>1, <1>4
<1> HIDE DEF first
<1>6. first # <<f, k>>
  BY <1>5 DEF NotAfter
<1>7. first # None
  BY <1>2, <1>4, NoneAssumption
<1> QED BY <1>6, <1>7 DEF DuplicateMatch, first, all

\* A row that repeats an invoice of an earlier upload is matched.
LEMMA RepeatsAreMatched ==
    ASSUME IInv, NEW f \in Files, Validated(f), NEW h \in run[f].deps,
           file[h].root < file[f].root, NEW k \in DOMAIN run[f].results, Repeats(f, k, h)
    PROVE  run[f].results[k].match # None
<1> DEFINE evidence == KeptEvidence(f)
<1>1. h \in Files /\ DOMAIN evidence = {f} \union run[f].deps /\ run[f].deps \subseteq Files
  BY DEF IInv, FrozenParsed, KeptEvidence, Evidence
<1>2. \A g \in DOMAIN evidence : evidence[g].root = file[g].root /\ evidence[g].rows = file[g].rows
  BY DEF KeptEvidence, Evidence
<1>3. ASSUME NEW g \in Files PROVE file[g].root \in Nat /\ DOMAIN file[g].rows \subseteq Nat
  <2>1. file[g].root \in {0} \union Files /\ file[g].rows \in Seq(Records \union {Failed})
    BY DEF IInv, Structure, FileVersion
  <2>2. file[g].root \in Nat
    BY <2>1 DEF Files
  <2>3. DOMAIN file[g].rows = 1..Len(file[g].rows)
    BY <2>1
  <2> QED BY <2>2, <2>3
<1>4. PICK j \in GoodRows(file[h].rows) : file[h].rows[j].invoice_no = file[f].rows[k].invoice_no
  BY DEF Repeats, Occurrences, Evidence
<1>5. run[f].results = Results(f, Kept(f), evidence)
  BY DEF IInv, ReplayFromManifest
<1> HIDE DEF evidence
<1>6. run[f].results[k].match = DuplicateMatch(f, k, evidence)
  BY <1>1, <1>2, <1>5 DEF Results, RowResult, Repeats
<1>7. DuplicateMatch(f, k, evidence) # None
  <2>1. file[f].rows[k].invoice_no # None
    BY DEF Repeats
  <2> QED BY <1>1, <1>2, <1>3, <1>4, <2>1, EarlierIsMatched
<1> QED BY <1>6, <1>7

\* What was validated before is seen by a later validation, in the revision
\* that was validated or a later one, and rows that repeat an invoice of an
\* earlier upload among it are matched with the first occurrence
\* (_load_duplicate_index, select_duplicate_match).
THEOREM EarlierValidationsSeen == Spec => []ValidatedIsSeen
<1>1. IInv /\ SeenInv => ValidatedIsSeen
  <2> SUFFICES ASSUME IInv, SeenInv, NEW f \in Files, NEW g \in Files,
                      Validated(f), Validated(g), run[g].at < run[f].at,
                      file[g].root # file[f].root
               PROVE  \E h \in run[f].deps :
                        /\ file[h].root = file[g].root
                        /\ file[h].revision >= file[g].revision
                        /\ file[h].root < file[f].root =>
                            \A k \in DOMAIN run[f].results :
                                Repeats(f, k, h) => run[f].results[k].match # None
    BY DEF ValidatedIsSeen
  <2>1. PICK h \in run[f].deps :
            file[h].root = file[g].root /\ file[h].revision >= file[g].revision
    BY DEF SeenInv, ValidatedFiles
  <2> QED BY <2>1, RepeatsAreMatched
<1> QED BY <1>1, Invariance, SeenInvariance, PTL

-----------------------------------------------------------------------------
(* What a step may do to file versions and validations *)

\* A file version that is stored is never removed, and keeps its content, its
\* number and the versions that it derives from (FileVersion rows are inserted
\* and parsed, nothing else).
THEOREM StoredVersionsStay ==
    Spec => [][\A f \in Files : Stored(f) => Stored(f)' /\ SameVersion(f)]_vars
<1>1. ASSUME IInv, [Next]_vars, NEW f \in Files, Stored(f) PROVE Stored(f)' /\ SameVersion(f)
  <2>1. SameVersion(f)
    BY <1>1, VersionsStay
  <2>2. CASE UNCHANGED file
    BY <1>1, <2>1, <2>2 DEF Stored
  <2>3. ASSUME NEW g \in Files, NEW c \in Contents, ImportBegin(g, c) PROVE Stored(f)'
    BY <1>1, <2>3 DEF IInv, Structure, ImportBegin, New, Stored
  <2>4. ASSUME NEW g \in Files, ImportCommit(g) \/ ImportAbort(g) PROVE Stored(f)'
    <3>1. g # f
      BY <1>1, <2>4 DEF ImportCommit, ImportAbort, Stored
    <3>2. file'[f] = file[f]
      BY <1>1, <2>4, <3>1 DEF IInv, Structure, ImportCommit, ImportAbort
    <3> QED BY <1>1, <3>2 DEF Stored
  <2>5. ASSUME NEW g \in Files, NEW h \in Files, NEW n \in 2..MaxFiles,
               NEW reason \in Reasons, NEW key \in Keys, Revise(g, h, n, reason, key)
        PROVE  Stored(f)'
    <3>1. h # f
      BY <1>1, <2>5 DEF Revise, New, Stored
    <3> QED BY <1>1, <2>5, <3>1 DEF IInv, Structure, Revise, Stored
  <2>6. ASSUME NEW g \in Files, NEW v \in DOMAIN mappings, Parse(g, v) PROVE Stored(f)'
    BY <1>1, <2>6 DEF IInv, Structure, FileVersion, Parse, Stored
  <2> QED BY <1>1, <2>1, <2>2, <2>3, <2>4, <2>5, <2>6
          DEF Next, vars, SaveMapping, SaveRule, Validate
<1>2. IInv /\ [Next]_vars => [\A f \in Files : Stored(f) => Stored(f)' /\ SameVersion(f)]_vars
  BY <1>1
<1> QED BY <1>2, Invariance, PTL DEF Spec

\* Parsed rows change only in a file that no validation has used.
LEMMA FrozenStays ==
    ASSUME IInv, [Next]_vars, NEW f \in Files, Validated(f), NEW g \in {f} \union run[f].deps
    PROVE  file'[g] = file[g]
<1>1. g \in Files /\ Parsed(g) /\ Frozen(g)
  BY DEF IInv, FrozenParsed, Frozen
<1>2. ASSUME NEW h \in Files, NEW c \in Contents, ImportBegin(h, c) PROVE file'[g] = file[g]
  BY <1>1, <1>2 DEF ImportBegin, New, Parsed
<1>3. ASSUME NEW h \in Files, ImportCommit(h) \/ ImportAbort(h) PROVE file'[g] = file[g]
  <2>1. h # g
    BY <1>1, <1>3 DEF ImportCommit, ImportAbort, Parsed
  <2> QED BY <1>1, <1>3, <2>1 DEF ImportCommit, ImportAbort, IInv, Structure
<1>4. ASSUME NEW e \in Files, NEW h \in Files, NEW n \in 2..MaxFiles,
             NEW reason \in Reasons, NEW key \in Keys, Revise(e, h, n, reason, key)
      PROVE  file'[g] = file[g]
  <2>1. h # g
    BY <1>1, <1>4 DEF Revise, New, Parsed
  <2> QED BY <1>1, <1>4, <2>1 DEF Revise, IInv, Structure
<1>5. ASSUME NEW h \in Files, NEW v \in DOMAIN mappings, Parse(h, v) PROVE file'[g] = file[g]
  <2>1. h # g
    BY <1>1, <1>5 DEF Parse
  <2> QED BY <1>1, <1>5, <2>1 DEF Parse, IInv, Structure
<1> QED BY <1>2, <1>3, <1>4, <1>5 DEF Next, vars, SaveMapping, SaveRule, Validate

\* Saved versions of a rule are never changed.
LEMMA KeptStays ==
    ASSUME IInv, [Next]_vars, NEW f \in Files, Validated(f), run'[f] = run[f]
    PROVE  Kept(f)' = Kept(f)
<1>1. CASE UNCHANGED rules
  BY <1>1 DEF Kept
<1>2. ASSUME NEW i \in RuleIds, NEW from \in Dates, NEW definition \in Definitions,
             SaveRule(i, from, definition)
      PROVE  Kept(f)' = Kept(f)
  <2> DEFINE saved == [from |-> from, definition |-> definition]
  <2>1. rules' = [rules EXCEPT ![i] = Append(rules[i], saved)] /\ saved \in RuleVersion
    BY <1>2 DEF SaveRule, RuleVersion
  <2> HIDE DEF saved
  <2>2. ASSUME NEW j \in RuleIds, NEW v \in DOMAIN rules[j] PROVE rules'[j][v] = rules[j][v]
    <3>1. rules \in [RuleIds -> Seq(RuleVersion)] /\ rules[j] \in Seq(RuleVersion)
      BY DEF IInv, Structure
    <3>2. CASE j = i
      BY <2>1, <3>1, <3>2
    <3>3. CASE j # i
      BY <2>1, <3>1, <3>3
    <3> QED BY <3>2, <3>3
  <2> QED BY <2>2 DEF IInv, FrozenParsed, Kept
<1> QED BY <1>1, <1>2 DEF Next, vars, ImportBegin, ImportCommit, ImportAbort, Revise,
                      SaveMapping, Parse, Validate

\* A validation stands: its run is not written again, and the rows, the rule
\* versions and the evidence that it rests on no longer change (the freeze of
\* _validate_not_frozen_by_validation, and append-only rule versions).
THEOREM ValidationsStand ==
    Spec => [][\A f \in Files : Validated(f) =>
                    /\ run'[f] = run[f]
                    /\ file'[f] = file[f]
                    /\ Kept(f)' = Kept(f)
                    /\ KeptEvidence(f)' = KeptEvidence(f)]_vars
<1> DEFINE Stands(f) == /\ run'[f] = run[f]
                        /\ file'[f] = file[f]
                        /\ Kept(f)' = Kept(f)
                        /\ KeptEvidence(f)' = KeptEvidence(f)
<1>1. ASSUME IInv, [Next]_vars, NEW f \in Files, Validated(f) PROVE Stands(f)
  <2>1. run'[f] = run[f]
    BY <1>1 DEF Next, vars, ImportBegin, ImportCommit, ImportAbort, Revise, SaveMapping, Parse,
       SaveRule, Validate, IInv, Structure
  <2>2. \A g \in {f} \union run[f].deps : file'[g] = file[g]
    BY <1>1, FrozenStays
  <2>3. KeptEvidence(f)' = KeptEvidence(f)
    BY <2>1, <2>2 DEF KeptEvidence, Evidence
  <2> QED BY <1>1, <2>1, <2>2, <2>3, KeptStays
<1>2. IInv /\ [Next]_vars => [\A f \in Files : Validated(f) => Stands(f)]_vars
  BY <1>1
<1> QED BY <1>2, Invariance, PTL DEF Spec

-----------------------------------------------------------------------------
(* What the evaluator says of a record, for every rule and every record *)

RuleKinds == {"limit", "invoice_type", "timeliness", "invoice_title", "invoice_duplicate"}

UnifiedFields == UNION {RequiredFields[kind] : kind \in RuleKinds}

\* What the validators of rule definitions keep: a kind, and exemptions that
\* have an id and at least one condition, on unified fields.
WellFormed(definition) ==
    /\ definition.kind \in RuleKinds
    /\ DOMAIN definition.exemptions \subseteq Nat
    /\ \A i \in DOMAIN definition.exemptions :
        /\ definition.exemptions[i].exemption_id # None
        /\ DOMAIN definition.exemptions[i].all # {}
        /\ DOMAIN definition.exemptions[i].all \subseteq UnifiedFields

LEMMA KindsOfRules ==
    /\ DOMAIN RequiredFields = RuleKinds
    /\ DOMAIN FlaggedReason = RuleKinds
    /\ DOMAIN UnavailableReasons = RuleKinds
    /\ \A kind \in RuleKinds : RequiredFields[kind] # {}
BY DEF RequiredFields, FlaggedReason, UnavailableReasons, RuleKinds

\* No reason is taken for a missing value.
LEMMA ReasonsAreCodes ==
    /\ None # "EXEMPTION_MATCHED"
    /\ \A kind \in RuleKinds : /\ FlaggedReason[kind] # None
                               /\ None \notin GenericReasons \union UnavailableReasons[kind]
BY KindsOfRules, NoCodeAssumption DEF ReasonCodes

LEMMA UnavailableAccepted ==
    ASSUME NEW kind \in RuleKinds, NEW record, NEW fields, fields # {},
           NEW reason \in GenericReasons \union UnavailableReasons[kind]
    PROVE  Accepted(kind, record, Unavailable(reason, fields))
<1>1. reason # None
  BY ReasonsAreCodes
<1> QED BY <1>1 DEF Accepted, ReasonAccepted, FlaggedComplete, Unavailable, Evaluation

LEMMA PassedAccepted ==
    ASSUME NEW kind, NEW record PROVE Accepted(kind, record, Passed)
BY DEF Accepted, ReasonAccepted, FlaggedComplete, Passed, Evaluation

LEMMA FlaggedAccepted ==
    ASSUME NEW definition, definition.kind \in RuleKinds, NEW record,
           \A field \in RequiredFields[definition.kind] : record[field] # None
    PROVE  Accepted(definition.kind, record,
                    Flagged(definition, FlaggedReason[definition.kind]))
<1> DEFINE kind == definition.kind
           reason == FlaggedReason[kind]
<1>1. reason # None
  BY ReasonsAreCodes
<1>2. RequiredFields[kind] # {}
  BY KindsOfRules
<1> QED BY <1>1, <1>2 DEF Accepted, ReasonAccepted, FlaggedComplete, Flagged, Evaluation

\* What is decided before the rule's own comparison is accepted.
LEMMA EarlyAccepted ==
    ASSUME NEW definition, WellFormed(definition), NEW record,
           NEW evaluation \in UnavailableOrExempted(definition, record)
    PROVE  Accepted(definition.kind, record, evaluation)
<1> DEFINE kind == definition.kind
           fields == RequiredFields[kind]
           groups == Exemption(definition, record)
<1>1. kind \in RuleKinds /\ fields # {}
  BY KindsOfRules DEF WellFormed
<1>2. CASE evaluation \in {Unavailable("RULE_DISABLED", fields),
                           Unavailable("INFERRED_FIELD_NOT_ALLOWED", fields),
                           Unavailable(MissingReason(kind), fields)}
  <2>1. {"RULE_DISABLED", "INFERRED_FIELD_NOT_ALLOWED", MissingReason(kind)}
            \subseteq GenericReasons \union UnavailableReasons[kind]
    BY <1>1, KindsOfRules DEF GenericReasons, UnavailableReasons, MissingReason
  <2> HIDE DEF fields
  <2> QED BY <1>1, <1>2, <2>1, UnavailableAccepted
<1>3. ASSUME NEW group \in groups, evaluation = Exempted(definition, record, group)
      PROVE  Accepted(kind, record, evaluation)
  <2>1. group.exemption_id # None /\ DOMAIN group.all # {}
    BY DEF Exemption, WellFormed
  <2>2. CASE NotDirect(definition, record, DOMAIN group.all)
    <3>1. evaluation = Unavailable("INFERRED_FIELD_NOT_ALLOWED", DOMAIN group.all)
      BY <1>3, <2>2 DEF Exempted
    <3>2. "INFERRED_FIELD_NOT_ALLOWED" \in GenericReasons \union UnavailableReasons[kind]
      BY DEF GenericReasons
    <3> QED BY <1>1, <2>1, <3>1, <3>2, UnavailableAccepted
  <2>3. CASE ~NotDirect(definition, record, DOMAIN group.all)
    <3>1. evaluation = Evaluation("exempted", "EXEMPTION_MATCHED", DOMAIN group.all,
                                  group.exemption_id)
      BY <1>3, <2>3 DEF Exempted
    <3>2. None # "EXEMPTION_MATCHED"
      BY ReasonsAreCodes
    <3> QED BY <2>1, <3>1, <3>2 DEF Accepted, ReasonAccepted, FlaggedComplete, Evaluation
  <2> QED BY <2>2, <2>3
<1>4. \/ evaluation \in {Unavailable("RULE_DISABLED", fields),
                         Unavailable("INFERRED_FIELD_NOT_ALLOWED", fields),
                         Unavailable(MissingReason(kind), fields)}
      \/ \E group \in groups : evaluation = Exempted(definition, record, group)
  BY DEF UnavailableOrExempted
<1> QED BY <1>2, <1>3, <1>4

\* Everything the evaluator builds is accepted by the models of the evidence,
\* so that no saved rule and no record make a validation fail half-way
\* (evaluate_rule, the evidence classes of core/rules/models.py).
THEOREM EvidenceAlwaysAccepted ==
    ASSUME NEW definition, WellFormed(definition), NEW record, NEW match
    PROVE  Accepted(definition.kind, record, EvaluateRule(definition, record, match))
<1> DEFINE kind == definition.kind
           early == UnavailableOrExempted(definition, record)
           evaluation == EvaluateRule(definition, record, match)
<1>0. kind \in RuleKinds /\ RequiredFields[kind] # {}
  BY KindsOfRules DEF WellFormed
<1>1. CASE early # {}
  <2>1. evaluation = CHOOSE e \in early : TRUE
    BY <1>1 DEF EvaluateRule
  <2>2. evaluation \in early
    <3> HIDE DEF evaluation, early
    <3> QED BY <1>1, <2>1
  <2> QED BY <2>2, EarlyAccepted
<1>2. CASE early = {}
  <2>1. \A field \in RequiredFields[kind] : record[field] # None
    BY <1>2 DEF UnavailableOrExempted
  <2>2. \/ evaluation = Passed
        \/ evaluation = Flagged(definition, FlaggedReason[kind])
        \/ \E reason \in UnavailableReasons[kind] :
                evaluation = Unavailable(reason, RequiredFields[kind])
    <3>1. CASE kind = "limit"
      BY <1>2, <3>1 DEF EvaluateRule, EvaluateLimit, FlaggedReason, UnavailableReasons
    <3>2. CASE kind = "invoice_type"
      BY <1>2, <3>2 DEF EvaluateRule, EvaluateInvoiceType, FlaggedReason, UnavailableReasons
    <3>3. CASE kind = "timeliness"
      BY <1>2, <3>3 DEF EvaluateRule, EvaluateTimeliness, FlaggedReason, UnavailableReasons
    <3>4. CASE kind = "invoice_title"
      BY <1>2, <3>4 DEF EvaluateRule, EvaluateInvoiceTitle, FlaggedReason
    <3>5. CASE kind = "invoice_duplicate"
      BY <1>2, <3>5 DEF EvaluateRule, EvaluateInvoiceDuplicate, FlaggedReason
    <3> QED BY <1>0, <3>1, <3>2, <3>3, <3>4, <3>5 DEF RuleKinds
  <2>3. Accepted(kind, record, Passed)
        /\ Accepted(kind, record, Flagged(definition, FlaggedReason[kind]))
        /\ \A reason \in UnavailableReasons[kind] :
                Accepted(kind, record, Unavailable(reason, RequiredFields[kind]))
    BY <1>0, <2>1, PassedAccepted, FlaggedAccepted, UnavailableAccepted
  <2> HIDE DEF kind
  <2>4. Accepted(kind, record, evaluation)
    <3> HIDE DEF evaluation
    <3> QED BY <2>2, <2>3
  <2> QED BY <2>4 DEF kind
<1> QED BY <1>1, <1>2

\* A rule decides of a record unless it leaves it to a reviewer.
Decides(definition, record, match) ==
    EvaluateRule(definition, record, match).outcome # "unavailable"

\* The records differ in inferred values only.
SameColumns(record, other) ==
    /\ other.inferred = record.inferred
    /\ \A field \in UnifiedFields \ record.inferred : other[field] = record[field]

\* What is decided before the rule's own comparison is the only such result.
LEMMA EarlyEvaluation ==
    ASSUME NEW definition, NEW record, NEW match, NEW evaluation,
           UnavailableOrExempted(definition, record) = {evaluation}
    PROVE  EvaluateRule(definition, record, match) = evaluation
<1> DEFINE early == UnavailableOrExempted(definition, record)
<1>1. EvaluateRule(definition, record, match) = CHOOSE e \in early : TRUE
  BY DEF EvaluateRule
<1>2. (CHOOSE e \in early : TRUE) = evaluation
  <2> HIDE DEF early
  <2> QED BY DEF early
<1> QED BY <1>1, <1>2

\* The exemption that applies is the first that matches.
LEMMA FirstExemption ==
    ASSUME NEW definition, WellFormed(definition), NEW record,
           NEW group \in Exemption(definition, record)
    PROVE  /\ Exemption(definition, record) = {group}
           /\ \E i \in DOMAIN definition.exemptions :
                /\ group = definition.exemptions[i]
                /\ ExemptionMatches(group, record)
                /\ \A j \in DOMAIN definition.exemptions :
                    ExemptionMatches(definition.exemptions[j], record) => i <= j
<1> DEFINE matching == {i \in DOMAIN definition.exemptions :
                            ExemptionMatches(definition.exemptions[i], record)}
           firsts == {j \in matching : \A k \in matching : j <= k}
<1>1. Exemption(definition, record) = {definition.exemptions[i] : i \in firsts}
  BY DEF Exemption
<1>2. PICK i \in firsts : group = definition.exemptions[i]
  BY <1>1
<1>3. \A j \in firsts : j = i
  BY DEF WellFormed
<1> QED BY <1>1, <1>2, <1>3

LEMMA SomeExemption ==
    ASSUME NEW definition, WellFormed(definition), NEW record,
           NEW i \in DOMAIN definition.exemptions,
           ExemptionMatches(definition.exemptions[i], record)
    PROVE  Exemption(definition, record) # {}
<1> DEFINE matching == {j \in DOMAIN definition.exemptions :
                            ExemptionMatches(definition.exemptions[j], record)}
<1>1. matching \subseteq Nat /\ matching # {}
  BY DEF WellFormed
<1>2. PICK m \in matching : \A k \in matching : m <= k
  <2> HIDE DEF matching
  <2> QED BY <1>1, MinExists
<1> QED BY <1>2 DEF Exemption

\* An exemption that decides, where columns are required, rests on columns.
LEMMA DecidedExemption ==
    ASSUME NEW definition, WellFormed(definition), definition.require_direct,
           definition.enabled, NEW record, NEW match, Decides(definition, record, match),
           NEW group \in Exemption(definition, record)
    PROVE  DOMAIN group.all \intersect record.inferred = {}
<1> SUFFICES ASSUME NotDirect(definition, record, DOMAIN group.all) PROVE FALSE
  BY DEF NotDirect
<1>1. Exemption(definition, record) = {group}
  BY FirstExemption
<1>2. UnavailableOrExempted(definition, record) = {Exempted(definition, record, group)}
  BY <1>1 DEF UnavailableOrExempted
<1>3. EvaluateRule(definition, record, match)
        = Unavailable("INFERRED_FIELD_NOT_ALLOWED", DOMAIN group.all)
  BY <1>2, EarlyEvaluation DEF Exempted
<1> QED BY <1>3 DEF Decides, Unavailable, Evaluation

LEMMA SameExemption ==
    ASSUME NEW definition, WellFormed(definition), definition.require_direct,
           definition.enabled, NEW record, NEW other, NEW match, SameColumns(record, other),
           Decides(definition, record, match), Decides(definition, other, match),
           Exemption(definition, record) # {}
    PROVE  Exemption(definition, other) = Exemption(definition, record)
<1> DEFINE groups == definition.exemptions
<1>1. PICK group \in Exemption(definition, record) : TRUE
  OBVIOUS
<1>2. PICK i \in DOMAIN groups :
        /\ group = groups[i] /\ ExemptionMatches(group, record)
        /\ \A j \in DOMAIN groups : ExemptionMatches(groups[j], record) => i <= j
  BY FirstExemption
<1>3. ExemptionMatches(groups[i], other)
  <2>1. DOMAIN group.all \subseteq UnifiedFields \ record.inferred
    BY <1>2, DecidedExemption DEF WellFormed
  <2> QED BY <1>2, <2>1 DEF ExemptionMatches, SameColumns
<1>4. PICK second \in Exemption(definition, other) : TRUE
  BY <1>3, SomeExemption
<1>5. PICK j \in DOMAIN groups :
        /\ second = groups[j] /\ ExemptionMatches(second, other)
        /\ \A k \in DOMAIN groups : ExemptionMatches(groups[k], other) => j <= k
  BY FirstExemption
<1>6. ExemptionMatches(groups[j], record)
  <2>1. DOMAIN second.all \subseteq UnifiedFields \ record.inferred
    BY <1>5, DecidedExemption DEF WellFormed, SameColumns
  <2> QED BY <1>5, <2>1 DEF ExemptionMatches, SameColumns
<1>7. i = j
  BY <1>2, <1>3, <1>5, <1>6 DEF WellFormed
<1> QED BY <1>2, <1>5, <1>7, FirstExemption

\* A rule that requires columns and has no exemption for the record decides by
\* the columns of its required fields.
LEMMA DecidedByColumns ==
    ASSUME NEW definition, definition.require_direct, definition.enabled, NEW record, NEW match,
           Decides(definition, record, match), Exemption(definition, record) = {}
    PROVE  /\ UnavailableOrExempted(definition, record) = {}
           /\ RequiredFields[definition.kind] \intersect record.inferred = {}
<1> DEFINE early == UnavailableOrExempted(definition, record)
<1>1. ASSUME NEW reason, NEW fields, early = {Unavailable(reason, fields)} PROVE FALSE
  <2>1. EvaluateRule(definition, record, match) = Unavailable(reason, fields)
    BY <1>1, EarlyEvaluation
  <2> QED BY <2>1 DEF Decides, Unavailable, Evaluation
<1>2. early = {}
  BY <1>1 DEF UnavailableOrExempted
<1> QED BY <1>2 DEF UnavailableOrExempted, NotDirect

\* A rule that requires columns never decides by an inferred value, neither
\* through its entries nor through an exemption: what it decides of a record it
\* decides of every record that differs in inferred values only, or leaves that
\* one to a reviewer (the require_direct checks of core/rules/evaluator.py).
THEOREM InferredNeverDecides ==
    ASSUME NEW definition, WellFormed(definition), definition.require_direct,
           NEW record, NEW other, NEW match, SameColumns(record, other),
           Decides(definition, record, match), Decides(definition, other, match)
    PROVE  EvaluateRule(definition, other, match) = EvaluateRule(definition, record, match)
<1> DEFINE fields == RequiredFields[definition.kind]
<1>1. definition.enabled
  <2> SUFFICES ASSUME ~definition.enabled PROVE FALSE
    OBVIOUS
  <2>1. UnavailableOrExempted(definition, record) = {Unavailable("RULE_DISABLED", fields)}
    BY DEF UnavailableOrExempted
  <2>2. EvaluateRule(definition, record, match) = Unavailable("RULE_DISABLED", fields)
    BY <2>1, EarlyEvaluation
  <2> QED BY <2>2 DEF Decides, Unavailable, Evaluation
<1>2. SameColumns(other, record)
  BY DEF SameColumns
<1>3. CASE Exemption(definition, record) # {}
  <2>1. PICK group : Exemption(definition, record) = {group}
    BY <1>3, FirstExemption
  <2>2. Exemption(definition, other) = {group}
    BY <1>1, <1>3, <2>1, SameExemption
  <2>3. Exempted(definition, other, group) = Exempted(definition, record, group)
    BY DEF Exempted, NotDirect, SameColumns
  <2>4. /\ UnavailableOrExempted(definition, record) = {Exempted(definition, record, group)}
        /\ UnavailableOrExempted(definition, other) = {Exempted(definition, other, group)}
    BY <1>1, <2>1, <2>2 DEF UnavailableOrExempted
  <2> QED BY <2>3, <2>4, EarlyEvaluation
<1>4. CASE Exemption(definition, record) = {}
  <2>1. Exemption(definition, other) = {}
    BY <1>1, <1>2, <1>4, SameExemption
  <2>2. /\ UnavailableOrExempted(definition, record) = {}
        /\ UnavailableOrExempted(definition, other) = {}
        /\ fields \intersect record.inferred = {}
    BY <1>1, <1>4, <2>1, DecidedByColumns
  <2>3. \A field \in fields : other[field] = record[field]
    BY <2>2 DEF SameColumns, UnifiedFields, WellFormed
  <2>4. CASE definition.kind = "limit"
    <3>1. {"expense_type", "currency", "amount"} \subseteq fields
      BY <2>4 DEF RequiredFields
    <3>2. /\ other.expense_type = record.expense_type
          /\ other.currency = record.currency /\ other.amount = record.amount
      BY <2>3, <3>1
    <3> QED BY <2>2, <2>4, <3>2 DEF EvaluateRule, EvaluateLimit
  <2>5. CASE definition.kind = "invoice_type"
    <3>1. {"expense_type", "invoice_type"} \subseteq fields
      BY <2>5 DEF RequiredFields
    <3>2. other.expense_type = record.expense_type /\ other.invoice_type = record.invoice_type
      BY <2>3, <3>1
    <3> QED BY <2>2, <2>5, <3>2 DEF EvaluateRule, EvaluateInvoiceType
  <2>6. CASE definition.kind = "timeliness"
    <3>1. {"expense_type", "submission_date", "expense_date"} \subseteq fields
      BY <2>6 DEF RequiredFields
    <3>2. /\ other.expense_type = record.expense_type
          /\ other.submission_date = record.submission_date
          /\ other.expense_date = record.expense_date
      BY <2>3, <3>1
    <3> QED BY <2>2, <2>6, <3>2 DEF EvaluateRule, EvaluateTimeliness
  <2>7. CASE definition.kind = "invoice_title"
    <3>1. {"invoice_title"} \subseteq fields
      BY <2>7 DEF RequiredFields
    <3>2. other.invoice_title = record.invoice_title
      BY <2>3, <3>1
    <3> QED BY <2>2, <2>7, <3>2 DEF EvaluateRule, EvaluateInvoiceTitle
  <2>8. CASE definition.kind = "invoice_duplicate"
    BY <2>2, <2>8 DEF EvaluateRule, EvaluateInvoiceDuplicate
  <2> QED BY <2>4, <2>5, <2>6, <2>7, <2>8 DEF WellFormed, RuleKinds
<1> QED BY <1>3, <1>4
=============================================================================
