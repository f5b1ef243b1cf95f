--------------------------- MODULE BatchLifecycle ---------------------------
(***************************************************************************)
(* The batches of one tenant: upload, column mappings, parsing, derived    *)
(* revisions, rule versions and deterministic validation.                  *)
(*                                                                         *)
(* Every operation but the upload runs in one transaction that holds the   *)
(* tenant lock, and is one action.  An upload holds no lock: it has begun, *)
(* with its uploaded_at, before it commits, and others may upload the same *)
(* content, or validate, in between.                                       *)
(*                                                                         *)
(* A file version is known by its number.  Numbers are given out in the    *)
(* order in which uploads begin, so that the numbers of roots are ordered  *)
(* as their uploaded_at.                                                   *)
(***************************************************************************)
EXTENDS Integers, Sequences, FiniteSets, RuleEvaluator

CONSTANTS
    MaxFiles,    \* bound: file versions
    Contents,    \* workbooks, by content hash
    HeaderOf,    \* [Contents -> header signatures]
    MapConfigs,  \* the configurations a mapping version may have
    Cells,       \* [Contents -> [MapConfigs -> rows]]: what parsing makes of a workbook
    Failed,      \* a row that does not parse
    Keys,        \* idempotency keys of revision requests
    RuleIds,
    Definitions, \* rule definitions, as RuleEvaluator has them
    Kinds,       \* the kinds a rule set must have
    Dates,       \* effective dates
    MaxMappings, \* bound: mapping versions
    MaxRules     \* bound: versions of a rule

Files == 1..MaxFiles
Duplicate == "invoice_duplicate"
Reasons == {"ruleset_change", "mapping_change", "policy_change"}
Records == UNION {UNION {{Cells[c][m][k] : k \in DOMAIN Cells[c][m]} : m \in MapConfigs}
                  : c \in Contents} \ {Failed}

ASSUME BoundsAssumption == {MaxFiles, MaxMappings, MaxRules} \subseteq Nat
ASSUME CellsAssumption ==
    \A c \in Contents, m \in MapConfigs :
        /\ Cells[c][m] \in Seq(Records \union {Failed})
        /\ Len(Cells[c][m]) > 0
ASSUME DatesAssumption == Dates \subseteq Nat /\ IsFiniteSet(Dates)
ASSUME NoneAssumption ==
    None \notin Contents /\ None \notin Keys /\ None \notin Records /\ None \notin Files \X Nat

VARIABLES
    file,      \* file_version and expense_row
    mappings,  \* schema_mapping_version
    rules,     \* rule_config: the versions of each rule
    run        \* validation_run, validation_dependency, row_result and finding

vars == <<file, mappings, rules, run>>

FileVersion == [status : {"absent", "importing", "aborted", "unparsed", "parsed"},
                content : Contents \union {None},
                revision : 0..MaxFiles,
                source : {0} \union Files,
                root : {0} \union Files,
                reason : Reasons \union {None},
                key : Keys \union {None},
                mapping : 0..MaxMappings,
                rows : Seq(Records \union {Failed})]

MappingVersion == [header : {HeaderOf[c] : c \in Contents}, config : MapConfigs]

RuleVersion == [from : Dates, definition : Definitions]

\* The rows are empty as long as the file is not parsed.
Absent == [status |-> "absent", content |-> None, revision |-> 0, source |-> 0,
           root |-> 0, reason |-> None, key |-> None, mapping |-> 0, rows |-> <<>>]

NoRun == [at |-> 0, mapping |-> 0, manifest |-> <<>>, deps |-> {}, results |-> <<>>]

Init ==
    /\ file = [f \in Files |-> Absent]
    /\ mappings = <<>>
    /\ rules = [i \in RuleIds |-> <<>>]
    /\ run = [f \in Files |-> NoRun]

-----------------------------------------------------------------------------
(* File versions *)

Stored(f) == file[f].status \in {"unparsed", "parsed"}
Parsed(f) == file[f].status = "parsed"
Validated(f) == run[f] # NoRun

\* The number of the next file version.
New(f) == file[f].status = "absent" /\ \A g \in 1..(f - 1) : file[g].status # "absent"

\* _get_existing: revision 1 of the content, committed.
Original(c) == {f \in Files : Stored(f) /\ file[f].content = c /\ file[f].revision = 1}

\* import_batch finds no batch of this content, and begins to store one.
ImportBegin(f, c) ==
    /\ New(f)
    /\ Original(c) = {}
    /\ file' = [file EXCEPT ![f] = [Absent EXCEPT !.status = "importing", !.content = c,
                                                 !.revision = 1, !.root = f]]
    /\ UNCHANGED <<mappings, rules, run>>

\* The unique index on revision 1 of a content lets the insert through.
Insertable(f) == Original(file[f].content) = {}

ImportCommit(f) ==
    /\ file[f].status = "importing"
    /\ Insertable(f)
    /\ file' = [file EXCEPT ![f].status = "unparsed"]
    /\ UNCHANGED <<mappings, rules, run>>

\* The insert violates the unique index, and import_batch rolls back and
\* returns the batch of the upload that came first; or the upload fails.
ImportAbort(f) ==
    /\ file[f].status = "importing"
    /\ file' = [file EXCEPT ![f] = [Absent EXCEPT !.status = "aborted"]]
    /\ UNCHANGED <<mappings, rules, run>>

\* Mutant: the revision after that of the source.
AfterSource(f, n) == n = file[f].revision + 1

\* The highest revision of the content, plus one.
NextRevision(f, n) ==
    LET same == {g \in Files : Stored(g) /\ file[g].content = file[f].content}
    IN  /\ \E g \in same : n = file[g].revision + 1
        /\ \A g \in same : file[g].revision < n

HasGoodRow(f) == \E k \in DOMAIN file[f].rows : file[f].rows[k] # Failed

\* ruleset_change and policy_change copy what was parsed; mapping_change only
\* the raw rows.
CopiesParsed(reason) == reason \in {"ruleset_change", "policy_change"}

\* create_file_revision.  A request whose key this source has seen returns that
\* revision, or is refused: it changes nothing.
Revise(f, g, n, reason, key) ==
    LET copied == IF CopiesParsed(reason)
                  THEN file[f]
                  ELSE [Absent EXCEPT !.status = "unparsed"]
    IN  /\ Stored(f)
        /\ New(g)
        /\ NextRevision(f, n)
        /\ ~\E h \in Files : file[h].source = f /\ file[h].key = key
        /\ CopiesParsed(reason) => Parsed(f) /\ HasGoodRow(f)
        /\ file' = [file EXCEPT ![g] =
                [copied EXCEPT !.content = file[f].content, !.revision = n,
                               !.source = f, !.root = file[f].root,
                               !.reason = reason, !.key = key]]
        /\ UNCHANGED <<mappings, rules, run>>

-----------------------------------------------------------------------------
(* Mappings and parsing *)

\* The mapping versions of a header.
VersionsOf(header) == {v \in DOMAIN mappings : mappings[v].header = header}

\* save_mapping_version: a new version, unless the latest of this header has
\* the same configuration.
SaveMapping(f, config) ==
    LET header == HeaderOf[file[f].content]
    IN  /\ Stored(f)
        /\ Len(mappings) < MaxMappings
        /\ ~\E v \in VersionsOf(header) :
                mappings[v].config = config /\ \A w \in VersionsOf(header) : w <= v
        /\ mappings' = Append(mappings, [header |-> header, config |-> config])
        /\ UNCHANGED <<file, rules, run>>

\* Mutant: only the file's own validation freezes it.
FrozenByRun(f) == Validated(f)

\* _validate_not_frozen_by_validation
Frozen(f) == Validated(f) \/ \E g \in Files : f \in run[g].deps

\* Mutant: a mapping of any header is applied.
AnyHeader(f, v) == TRUE

MatchesHeader(f, v) == mappings[v].header = HeaderOf[file[f].content]

\* parse_batch: a mapping version that is applied already is applied no more.
Parse(f, v) ==
    /\ Stored(f)
    /\ ~Frozen(f)
    /\ MatchesHeader(f, v)
    /\ ~(Parsed(f) /\ file[f].mapping = v)
    /\ file' = [file EXCEPT ![f].status = "parsed",
                            ![f].mapping = v,
                            ![f].rows = Cells[file[f].content][mappings[v].config]]
    /\ UNCHANGED <<mappings, rules, run>>

-----------------------------------------------------------------------------
(* Rules *)

\* save_rule_version: a new version, unless it is what the latest one says.
SaveRule(i, from, definition) ==
    LET saved == [from |-> from, definition |-> definition]
    IN  /\ Len(rules[i]) < MaxRules
        /\ ~(rules[i] # <<>> /\ rules[i][Len(rules[i])] = saved)
        /\ rules' = [rules EXCEPT ![i] = Append(rules[i], saved)]
        /\ UNCHANGED <<file, mappings, run>>

KindsOf(i) == {rules[i][v].definition.kind : v \in DOMAIN rules[i]}

\* _load_rule_families: each rule has one kind, and each kind one rule.
RulesetValid ==
    /\ \A i \in RuleIds : Cardinality(KindsOf(i)) <= 1
    /\ \A kind \in Kinds : Cardinality({i \in RuleIds : kind \in KindsOf(i)}) = 1

\* The versions of a rule that may be selected, by their numbers.
Candidates(i) == [v \in DOMAIN rules[i] |-> rules[i][v]]

\* Of a rule's candidates, those in effect at a date.
Eligible(candidates, date) == {v \in DOMAIN candidates : candidates[v].from <= date}

\* Version w took effect before v, or on the same day and was saved before it.
NoLater(candidates, w, v) ==
    \/ candidates[w].from < candidates[v].from
    \/ candidates[w].from = candidates[v].from /\ w <= v

\* select_effective_rule_version: of the versions in effect at the date the one
\* that took effect last, and of these the last; no version if none is.
Selected(candidates, date) ==
    {v \in Eligible(candidates, date) :
        \A w \in Eligible(candidates, date) : NoLater(candidates, w, v)}

-----------------------------------------------------------------------------
(* Validation.  Results is a function of what a run freezes: the rows and    *)
(* roots of file versions (evidence), and rule versions (candidates).        *)

GoodRows(rows) == {k \in DOMAIN rows : rows[k] # Failed}

Evidence(files) == [g \in files |-> [root |-> file[g].root, rows |-> file[g].rows]]

\* Mutant: of a lineage whose highest revision is not parsed, nothing.
HighestIfParsed(f) ==
    {g \in Files : /\ Parsed(g)
                   /\ file[g].root # file[f].root
                   /\ \A h \in Files : Stored(h) /\ file[h].root = file[g].root
                                        => file[h].revision <= file[g].revision}

\* _load_duplicate_index: of every other lineage the highest parsed revision.
Dependencies(f) ==
    {g \in Files : /\ Parsed(g)
                   /\ file[g].root # file[f].root
                   /\ \A h \in Files : Parsed(h) /\ file[h].root = file[g].root
                                        => file[h].revision <= file[g].revision}

\* Where an invoice number occurs in the evidence.
Occurrences(evidence, invoice) ==
    UNION {{<<g, k>> : k \in {j \in GoodRows(evidence[g].rows) :
                                evidence[g].rows[j].invoice_no = invoice}}
           : g \in DOMAIN evidence}

\* In the order of the roots' uploads, then of the rows.
NotAfter(evidence, o, p) ==
    \/ evidence[o[1]].root < evidence[p[1]].root
    \/ evidence[o[1]].root = evidence[p[1]].root /\ o[2] <= p[2]

\* select_duplicate_match: the first occurrence, unless it is row k of f itself.
DuplicateMatch(f, k, evidence) ==
    LET invoice == evidence[f].rows[k].invoice_no
        all == Occurrences(evidence, invoice)
        first == CHOOSE o \in all : \A p \in all : NotAfter(evidence, o, p)
    IN  IF invoice = None \/ first = <<f, k>> THEN None ELSE first

\* The duplicate rule is neither disabled nor exempted, and finds an invoice.
LooksForDuplicates(definition, record) ==
    definition.kind = Duplicate /\ UnavailableOrExempted(definition, record) = {}

\* What a rule says of row k of f.
Evaluate(definition, f, k, evidence) ==
    EvaluateRule(definition, evidence[f].rows[k], DuplicateMatch(f, k, evidence)).outcome

\* What the selected versions of the rules say of row k of f, and the earlier
\* occurrence of its invoice; a rule without a version is unavailable.
RowResult(f, k, definitions, missing, evidence) ==
    [verdict |-> Verdict({Evaluate(d, f, k, evidence) : d \in definitions}
                         \union IF missing THEN {"unavailable"} ELSE {}),
     match |-> IF \E d \in definitions : LooksForDuplicates(d, evidence[f].rows[k])
               THEN DuplicateMatch(f, k, evidence) ELSE None]

\* The definitions that apply at a date, and whether a rule has none.
Applicable(candidates, date) ==
    UNION {{candidates[i][v].definition : v \in Selected(candidates[i], date)}
           : i \in DOMAIN candidates}

SomeMissing(candidates, date) == \E i \in DOMAIN candidates : Selected(candidates[i], date) = {}

\* What validation finds in f.
Results(f, candidates, evidence) ==
    [k \in GoodRows(evidence[f].rows) |->
        LET date == evidence[f].rows[k].expense_date
        IN  RowResult(f, k, Applicable(candidates, date), SomeMissing(candidates, date), evidence)]

Families == {i \in RuleIds : rules[i] # <<>>}

\* Mutant: of each rule only the version of the last row's date.
OneVersion(f, i) ==
    UNION {Selected(Candidates(i), file[f].rows[k].expense_date) :
           k \in {j \in GoodRows(file[f].rows) : \A l \in GoodRows(file[f].rows) : l <= j}}

\* Mutant: versions are counted from 0.
FromZero(f, i) ==
    {v - 1 : v \in UNION {Selected(Candidates(i), file[f].rows[k].expense_date) :
                          k \in GoodRows(file[f].rows)}}

\* _freeze_rule_manifest: the versions of a rule that the rows select.
Manifest(f, i) ==
    UNION {Selected(Candidates(i), file[f].rows[k].expense_date) :
           k \in GoodRows(file[f].rows)}

\* validate_batch: all or nothing.  A batch that is validated already is not
\* validated again.
Validate(f) ==
    /\ Parsed(f)
    /\ ~Validated(f)
    /\ HasGoodRow(f)
    /\ RulesetValid
    /\ run' = [run EXCEPT ![f] =
            [at |-> 1 + Cardinality({g \in Files : Validated(g)}),
             mapping |-> file[f].mapping,
             manifest |-> [i \in Families |-> Manifest(f, i)],
             deps |-> Dependencies(f),
             results |-> Results(f, [i \in Families |-> Candidates(i)],
                                 Evidence({f} \union Dependencies(f)))]]
    /\ UNCHANGED <<file, mappings, rules>>

-----------------------------------------------------------------------------

Next ==
    \/ \E f \in Files :
        \/ \E c \in Contents : ImportBegin(f, c)
        \/ ImportCommit(f)
        \/ ImportAbort(f)
        \/ \E g \in Files, n \in 2..MaxFiles, reason \in Reasons, key \in Keys :
                Revise(f, g, n, reason, key)
        \/ \E config \in MapConfigs : SaveMapping(f, config)
        \/ \E v \in DOMAIN mappings : Parse(f, v)
        \/ Validate(f)
    \/ \E i \in RuleIds, from \in Dates, definition \in Definitions :
            SaveRule(i, from, definition)

Spec == Init /\ [][Next]_vars

-----------------------------------------------------------------------------
(* Properties *)

TypeOK ==
    /\ file \in [Files -> FileVersion]
    /\ mappings \in Seq(MappingVersion)
    /\ rules \in [RuleIds -> Seq(RuleVersion)]
    /\ \A f \in Files : Validated(f) =>
        /\ run[f].mapping \in DOMAIN mappings
        /\ \A i \in DOMAIN run[f].manifest : run[f].manifest[i] \subseteq DOMAIN rules[i]

\* The rule versions and the evidence that a run has kept, as they are now.
Kept(f) ==
    [i \in DOMAIN run[f].manifest |-> [v \in run[f].manifest[i] |-> rules[i][v]]]

KeptEvidence(f) == Evidence({f} \union run[f].deps)

\* Validating again, from the rule versions of the manifest, the frozen
\* dependencies and the rows as they are now, finds what was found: neither
\* later rules, parses and revisions nor the order of requests change it.
ReplayFromManifest ==
    \A f \in Files : Validated(f) =>
        /\ run[f].mapping = file[f].mapping
        /\ run[f].results = Results(f, Kept(f), KeptEvidence(f))

\* The file versions of a content are numbered from 1, and derive from the one
\* that was uploaded, however uploads and revisions interleave.
RevisionChain ==
    \A f \in Files : Stored(f) =>
        LET same == {g \in Files : Stored(g) /\ file[g].content = file[f].content}
        IN  /\ {file[g].revision : g \in same} = 1..Cardinality(same)
            /\ \A g \in same : file[g].root = file[f].root
            /\ file[f].revision > 1 =>
                file[f].source \in same /\ file[file[f].source].revision < file[f].revision

\* The rows of a parsed batch, however often copied, are what its mapping
\* version makes of the uploaded workbook.
ParsedByMapping ==
    \A f \in Files : Parsed(f) =>
        /\ mappings[file[f].mapping].header = HeaderOf[file[f].content]
        /\ file[f].rows = Cells[file[f].content][mappings[file[f].mapping].config]

\* Row k of the validated f repeats an invoice of g, and was compared.
Repeats(f, k, g) ==
    LET row == file[f].rows[k]
    IN  /\ \E d \in Applicable(Kept(f), row.expense_date) : LooksForDuplicates(d, row)
        /\ row.invoice_no # None
        /\ Occurrences(Evidence({g}), row.invoice_no) # {}

\* What was validated before is seen: of each lineage a revision no lower than
\* the one validated, and the rows that repeat an invoice of it are flagged
\* when its upload came first.
ValidatedIsSeen ==
    \A f, g \in Files :
        (/\ Validated(f) /\ Validated(g)
         /\ run[g].at < run[f].at
         /\ file[g].root # file[f].root)
        => \E h \in run[f].deps :
            /\ file[h].root = file[g].root
            /\ file[h].revision >= file[g].revision
            /\ file[h].root < file[f].root =>
                \A k \in DOMAIN run[f].results :
                    Repeats(f, k, h) => run[f].results[k].match # None

\* Of two validated batches with the same invoice the later one is flagged
\* (specs/004:181), also when it was validated before the earlier one was
\* parsed, and so before that one was a candidate (specs/004:177).
DuplicateNoticed ==
    \A f, g \in Files :
        (Validated(f) /\ Validated(g) /\ file[g].root < file[f].root)
        => \A k \in DOMAIN run[f].results :
            Repeats(f, k, g) => run[f].results[k].verdict = "flagged"
=============================================================================
