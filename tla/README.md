# ExpenseGuard in TLA+

ExpenseGuard audits expense batches: a configurator uploads expense files,
policy documents and rules, the system parses and validates every row, cites the
policy that each violated rule rests on, produces a report, lets a reviewer
decide on a sample of its items, and exports it. The backend is FastAPI with
SQLAlchemy on PostgreSQL (READ COMMITTED) and Qdrant as vector store. In the
tables below `B` stands for `src/backend/app`.

This directory holds TLA+ models of the parts of that system whose correctness
depends on the order of events, TLC configurations that check them on small
instances, and TLAPS proofs of their main invariants for all instances.

    tlc -config PolicyIndexSingle.cfg MCPolicyIndex
    tlapm PolicyIndexProofs.tla

`PROJECT.json` maps every definition to the source lines it models and lists all
runs, mutants, findings, hazards and theorems.

## 1. Inventory

Every request runs in one PostgreSQL transaction: `get_db` (`B/api/deps.py`)
commits when the handler is done and the response is on its way (FastAPI ends
dependencies with `yield` after the response), and rolls back on an exception. Most writers take
the tenant row and then the file version `FOR UPDATE NOWAIT`; a conflict is a
409. Workers of the index outbox and the recording of failures run in
transactions of their own, without the tenant lock.

| Component | State | Operations | Hard behaviour | What makes it correct |
|---|---|---|---|---|
| Policy publication and index (`B/core/policies/service.py`, `index_worker.py`) | documents, generations, per-generation document indexes, jobs (outbox) | publish, create building generation, retry, reconcile, claim, execute, record failure | Qdrant is outside the transaction; leases, crashes, terminal failures, generation switch | no vector of a published document missing; what search reads agrees with PostgreSQL; every publication settles |
| Vector store (`B/core/retrieval`) | Qdrant points | upsert, count, search | written twice, overwritten | a point per chunk and generation |
| Binding candidates and citations (`B/core/policies/candidates.py`, `query_service.py`) | none | search, re-check in PostgreSQL | index lags the database | only chunks valid on the date are offered |
| Rule-policy bindings (`B/core/policies/bindings.py`) | bindings with sort orders and excerpts | save a binding set | sets saved for different dates combine on a third | one complete citation group per date |
| Batch import and revisions (`B/core/batches`) | file versions by content hash and revision number | import, revise | concurrent imports, idempotency keys | one version per content, revisions form a chain |
| Schema mapping and parsing (`B/core/parsing`) | mapping versions, parsed rows, batch status | save mapping, parse, re-parse | frozen by validation | the rows a validation read never change |
| Rules and validation (`B/core/rules`, `B/core/validation`) | rule versions, runs, verdicts, dependencies | save rule, validate | duplicates across files, all or nothing | one verdict per row and rule; an invoice is accepted once |
| Row idempotency (`B/core/orchestration`) | processed rows, audit events | process a row once | replay after a crash, concurrent processors | effects of a row happen once |
| Report generation (`B/core/reports/service.py`) | report runs, items, request ledger | generate | retried requests, failures between flushes, policies that change next to it | one report per file version, whole or absent, of one moment; a key means one request |
| Report export (`B/core/reports/export_service.py`) | export rows, files on disk | create, download | file written before the commit, crash between them | a completed export names a file with its hash |
| Human review (`B/core/reviews`) | configurations, sampling plans, decisions | configure, plan, decide, summarise | replayed decisions, reports without a plan, summaries read while decisions are made | one decision per target, for ever; a plan is as large as its configuration says; all that is pending can be decided |
| Sessions (`B/core/security`) | users, sessions, audit log | log in, authenticate, log out | requests of one session write its row from what each has read | an ended session is over for good; one in use is not idle; the audit log tells |
| Tenancy (`B/core/tenancy`) | tenant rows | lock, scope | lock order | no deadlock, no cross-tenant row |
| Triggers and constraints (`B/db`) | the schema | immutability of published documents, completed runs and exports | constraints met only at commit | what is completed never changes |
| Routes, frontend, synthetic data, empty later phases | none of their own | | | |

Interactions: parsing reads what import wrote; validation freezes what parsing
wrote and the rules it used; publishing makes chunks that bindings cite; a report
joins verdicts, parse errors and the bindings applicable on each row's date;
sampling plans and exports are made from a completed report; decisions are made
on the items of a plan.

The hazards this leaves are in `PROJECT.json` under `hazards`, each at its line.

## 2. Plan

In this order, the most important behaviour first:

1. `PolicyIndex` (with `MCPolicyIndex`, `PolicyIndexProofs`): publication and
   the index outbox. Done; implements `PolicyVersions`.
2. `BatchLifecycle` (with `RuleEvaluator`, `MCBatchLifecycle`,
   `BatchLifecycleProofs`): import, mappings, parsing, revisions, rules and
   validation of one tenant. Done.
3. `RowOnce` and `RowIdempotency` (with `RowIdempotencyProofs`): an abstract
   at-most-once specification and the processing of rows that implements it.
   Done.
4. `PolicyVersions` and `PolicyBindings` (with `PolicyBindingsProofs`): what
   publication promises, and the binding sets and citations that rest on it.
   Done.
5. `ArtifactOnce` and `ReportExport` (with `ReportExportProofs`): an abstract
   specification of a workbook that is published once, and the rows, files,
   failures and crashes that implement it. Done.
6. `ReportLifecycle` (with `MCReportLifecycle`, `ReportLifecycleProofs`), which
   extends `PolicyBindings`: the request ledger and the generation of reports,
   while policies are published and bound. Done.
7. `ReviewDecisions` and `Sessions` (with `MCReviewDecisions`, `MCSessions`,
   `ReviewDecisionsProofs`, `SessionsProofs`). Done.

Every invariant and action property of the passing runs is now a theorem; two of
`PolicyIndex` (`ServedIntervalCurrent`, `SearchUnambiguous`) up to the first
switch of generations, for beyond it they are false. What is left to TLC is
liveness: `EveryPublicationSettles`, `EveryExportCompletes` and `EveryRowSettles`.

`ReportLifecycle` takes the findings of a batch as a constant. That is what
`BatchLifecycle` warrants: a validated file is frozen, and the results of a run
are never written again.

## 3. The policy index

### State and actions

`PolicyIndex` models one tenant. A document row keeps its status and
`expiry_date`; a generation row its status, frozen manifest and counters; a
document index row its status (its counters are the completed jobs of the
document); a job row its status, attempts and lease token. `points` is Qdrant:
point ids are chunk ids, a payload is the generation and the expiry it was
written with. `worker` is the memory of a worker process and what its open
transaction holds.

| Action | Code | Atomic because |
|---|---|---|
| `PublishDocument` | `publish_policy_document`, with `ensure_initial_active_generation` | tenant lock |
| `RetryFailedDocument`, `CreateBuilding`, `RetryFailedGeneration` | the functions of those names | tenant lock |
| `ReconcileActive` | `reconcile_active_generation` | tenant lock |
| `BuildingProgress`, `BuildingDelta`, `SwitchActive` | the three outcomes of `reconcile_building_generation` | tenant lock |
| `ClaimJob` | `claim_index_job` | one statement `SKIP LOCKED`, then a commit |
| `BeginExecute`, `UpsertPoint` or `UpsertFails`, `CompleteJob` or `LoseLease` | `execute_claimed_job` before, in and after the Qdrant call | the job row is locked from the first to the last |
| `RecordRetryableFailure` | `record_job_failure`, attempts left | job row lock |
| `BeginTerminalFailure`, then `FinishTerminalFailure` or `AbortTerminalFailure` | `record_job_failure` at the limit: the siblings are read without a lock and written at the flush | the rows written are locked only at the write |
| `Crash` | the worker's process dies, its transaction rolls back, Qdrant keeps what was written | |

An operation that raises changes nothing and has no action. A lease may expire
at any time (`ClaimJob` takes a running job), but taking the job of a worker
that is alive counts as one of `MaxCrashes`. A worker whose transaction is
waiting for Qdrant keeps the row lock, so its job cannot be claimed: the
`SKIP LOCKED` of `claim_index_job` is `LockHolders`. Documents start as drafts
(`upload_policy_document` leaves them there); an upload during the run is the
same as one that nobody has published yet.

Two orders matter and are modelled: `reconcile_active_generation` visits rows in
document order, so a predecessor finished in the same pass counts only when it
comes first (`WaitsForPredecessor`); and a published document's jobs are reset
in the active generation only (`PublishDocument`).

### What the runs show

| Run | Instance | Shows |
|---|---|---|
| `PolicyIndexSingle` | a two-chunk version, its successor, and a third version that follows on that one; 1 generation, 2 workers, 2 attempts, 2 failures, 1 crash | search reads complete, current and unambiguous points; leases are exclusive; publication is as `PolicyVersions` says |
| `PolicyIndexRebuild` | a version and its successor; 2 generations with own collections, 2 workers, 1 failure, 1 crash | the switch loses no vector, building leaves the active points alone, counters agree with what is published, manifests grow only by explicit deltas |
| `PolicyIndexSettles` | the same pair; 2 workers, 3 attempts, 1 failure, 1 crash | every publication ends published or failed |
| `PolicyIndexExhaustedLease` | the pair | `ExhaustedLeaseFails` fails, see below |

The bounds are the smallest in which the interesting cases meet: two chunks in
one document make siblings, a successor makes a payload refresh, a third version
makes the counts of one document disturb another and may be published before the
second, two generations make a switch and a delta, two workers race for a job, and `AttemptLimit = 2` separates a
retry from a terminal failure. `MaxFailures` and `MaxCrashes` bound the faults
of a behaviour, `MaxGen` the generations created, and `Never` the dates.
Deadlock is not checked: when every document is published and the bound on
generations is reached, the system rightly has nothing left to do.

### Fairness

Nothing in the repository schedules the workers: only tests call them and the
reconciliations. `FairSpec` is what a deployment must add, that workers claim and
proceed and that reconciliation is called again and again; it owes nothing to
operators, failures or crashes. The proceeding worker is one weakly fair disjunction, since exactly
one of its steps is possible at a time.

### What the code does not keep

One run is expected to fail, with TLC's counterexample as its evidence:

- `ExhaustedLeaseFails`: a worker that dies in a job's last attempt leaves the
  job running for ever, neither claimable nor failed.

The model shows six more, each by an instance that no run keeps:

- A failed version retried after an overlapping one was published: what
  `Publishable` offers breaks `IntervalsDisjoint`, so `ReconcileActive` is
  never enabled again (in the code, every call rolls back, for all documents).
- A predecessor's refresh that fails terminally: `RetryFailedDocument` wants a
  failed document and `RetryFailedGeneration` a building generation, so its
  successor waits for ever (`WaitsForPredecessor`).
- With two generations `ServedIntervalCurrent` fails: the building generation
  keeps the predecessor's open interval and the switch makes it the served one,
  where the candidate search (`B/core/policies/candidates.py`) drops it.
- A version that begins after its predecessor was closed waits for nobody:
  `WaitsForPredecessor` looks for one that ends on its first day. It is
  published while the predecessor's points still show an open interval, and a
  search for its days finds both until they are refreshed (candidates.py drops
  the stale ones). `SearchUnambiguous` says when the search is to be unambiguous
  in spite of that.
- `SwitchActive` looks at published documents only: one that is being indexed
  stays in the retired generation, where `SourceValid` refuses its jobs.
- With one collection for both generations `ActivePointsKept` and
  `NoSilentMissingVectors` fail: point ids are chunk ids. The routes name the one
  collection of the settings, and the specification wants the old generation
  left alone (specs/005 line 745).

And `CountsMatch` makes the points of a document that failed halfway hold up the
publication of all others until an operator retries it.

The properties of the passing runs hold in the instances stated. The theorems
about points have `OwnCollections` as an assumption, and those about the
intervals in the points end at the first switch (`FirstServes`).

### What is proved

`PolicyIndexProofs` proves, for every set of documents, chunks, dates, workers
and every bound:

- `TypeCorrect`: `Spec => []TypeOK`, with attempts within the limit. The
  strengthening `BusyWorkers` says that a worker that is not idle has a job.
- `LeaseSafe`: `Spec => []LeaseHeldThroughUpsert`. It needs that publish and
  retry never reset a locked row: publish refuses locked rows, but creating or
  appending jobs must meet none, so `LeaseInv` adds that drafts and absent
  generations have no job, and that the siblings a failing worker has read are
  jobs of its generation.
- `ActiveCounts`: `Spec => []ActiveCountsPublished`, whatever the collections.
  `GenerationsInv` is the argument from the switch backwards: one generation is
  active, documents are published into it, every published chunk has a job in
  it, and a frozen manifest is contained in the jobs of its generation and has
  the size `expected`.
- `NoMissingVectors`: `OwnCollections => (Spec => []NoSilentMissingVectors)`.
  `VectorInv` adds that a job that was ever completed has its point, which no
  other generation can overwrite.
- `ActivePointsStay` (with `OwnCollections`) and `ManifestFrozen` are the action
  properties `ActivePointsKept` and `BuildingManifestFrozen`. They need no
  invariant of their own.
- `VersionsApart`: published versions of a family do not overlap, and no interval
  is empty. It is part of `RowsInv`, with what index rows and jobs say of each
  other: the jobs of a completed index row are completed, for a failing worker's
  siblings are chunks of the document it fails.
- `IntervalsServed` and `SearchNotAmbiguous`: until the first generation is
  replaced, `ServedIntervalCurrent` and `SearchUnambiguous` hold; and
  `OnlyGenerationServes`: with one generation they always do. The date a worker
  puts into a point was read before the write and may be read by anybody, so
  `PointsFresh` follows it: whoever holds the job's row has read the date the
  document still has, since a publication that closes the interval needs the row
  as well, and queues the job again when it gets it. `PredecessorsClosed` is the
  wait of `Publishable`: what followed on a version was published after that
  version's points had been closed. `FirstComesFirst` keeps generations apart.
- `Refinement`: `Spec => ImplementsVersions`, that is `Versions!Spec` with
  `doc` mapped to itself: each step is a step of `PolicyVersions` or leaves the
  documents alone. It needs no more than `TypeInv`.

Assumptions are those of the module: finite sets of documents and chunks, every
document has a chunk, intervals are not empty, bounds are positive. Each
strengthened invariant was model-checked before it was proved. `FirstServes` is
no assumption that keeps interesting states out: all but the switch happens
before it, the building of the next generation included, whose points the two
theorems do not speak of. Only liveness is model-checked only.

## 4. Batches: upload, parsing, revisions, validation

### State and actions

`BatchLifecycle` models one tenant. `file` is `file_version` with its rows,
`mappings` the mapping versions, `rules` the versions of each rule, `run` the
validation runs with their manifest, dependencies and results. What parsing
makes of a workbook (`Cells`) is a constant, for it is a function. What a rule
says of one record is `RuleEvaluator`, which `BatchLifecycle` extends: the
evaluators of the five kinds, with exemptions, disabled rules, missing and
inferred fields, and what the models of the evidence accept
(`core/rules/models.py`). Of the exemptions that match, the one with the first id
is taken, even when a later one matches by columns and it does not.

| Action | Code | Atomic because |
|---|---|---|
| `ImportBegin`, then `ImportCommit` or `ImportAbort` | `import_batch` | no lock: the unique index decides at the commit |
| `Revise` | `create_file_revision` | tenant lock |
| `SaveMapping` | `save_mapping_version` | tenant lock |
| `Parse` | `parse_batch` | tenant lock, file lock |
| `SaveRule` | `save_rule_version` | tenant lock |
| `Validate` | `validate_batch` | tenant lock, file lock; its rows one by one are `RowIdempotency` |

A replayed request and a refused one change nothing and have no action. File
versions are numbered in the order their uploads begin, which is the order of
`uploaded_at` that duplicate detection uses; an upload that began earlier may
commit later.

### Runs

| Run | Instance | Shows |
|---|---|---|
| `BatchLifecycleReplay` | 2 workbooks that share an invoice, with different headers; 3 file versions, 2 keys, 3 mapping versions, a duplicate rule with 2 versions on 2 dates | revisions of a content form a chain; parsed rows are what their mapping makes of the upload; a validation sees every lineage validated before, and can be replayed from what it froze, whatever is parsed, revised or backdated later |
| `BatchLifecycleNoticed` | 2 file versions | `DuplicateNoticed` fails: of two batches with one invoice both may pass |

Two lineages are the fewest that can be duplicates, and a third file version is a
revision of one of them: it can make a dependency change after a validation, or
be the highest revision that is not parsed. A third mapping version parses one
workbook a second time. Two versions of a rule on two dates are what a backdated
version needs; that more rules and kinds change nothing is the theorem
`Replayable`, which holds for any. `MaxFiles`,
`MaxMappings` and `MaxRules` bound what is appended. Keys are symmetric, for they
are only compared, and the reason of a revision is left out of the view: it is
stored, and no step depends on it. There is no liveness here:
every operation is a request that somebody makes or not.

Both runs use the duplicate rule only. The evaluator is a function, and TLC
checks it when it evaluates two assumptions of `MCBatchLifecycle`, over 60 rules
(every kind, enabled or not, with or without `require_direct`, with none, one and
two exemptions) and all records with two or three values, or none, of each field
they read, where type, currency and invoice type may be inferred:

- `EvidenceIsAccepted`: whatever the evaluator builds, the validators of its
  evidence accept; a refusal would be an exception in the middle of a validation,
  and no run of the batch could ever complete.
- `InferredDecidesNothing`: a rule with `require_direct` gives records that
  differ in inferred values only the same decision, or leaves one of them to a
  reviewer, also through exemptions. Without the test of the exemption's own
  fields, or with the rule's fields in its place, it is false.

`save_rule_version` looks at one rule only, and rules are never removed: a second
rule of a kind makes `RulesetValid` false for ever, and no batch can be validated
any more. No run checks it.

### Proved

`BatchLifecycleProofs`, for any workbooks, mappings, rules, dates and bounds:

- `TypeCorrect`, with manifests and runs that name saved versions.
- `RowsFollowMapping`: `Spec => []ParsedByMapping`. Mappings are appended only,
  and a revision copies a parsed file with its mapping.
- `Replayable`: `Spec => []ReplayFromManifest`. The invariant adds that all a
  run depends on is parsed (`FrozenParsed`), so that `Frozen` keeps `Parse` from
  changing its evidence. The heart is `SelectedAgain`: the version that
  `select_effective_rule_version` takes among all is the one it takes among those
  of the manifest, for every row's choice is in it. A finite set of versions has
  a latest one by well-founded induction (`MaxExists`).
- `RevisionsChain`: `Spec => []RevisionChain`. Uploads take no lock, so
  `UploadsFirst` says that one in progress will be revision 1 and the unique
  index that it is the only one; a revision takes the number after the highest,
  which is the number of versions of its content plus one.
- `EarlierValidationsSeen`: `Spec => []ValidatedIsSeen`. `SeenInv` says that
  validations are numbered in their order and that each depends on a revision of
  every lineage validated before, none lower than the one that was. A parsed
  revision stays parsed, so the highest parsed one is never lower; and a row that
  repeats an invoice of an earlier upload among them has a match, because
  `select_duplicate_match` takes the first occurrence of all.
- `StoredVersionsStay` and `ValidationsStand`, what no step may do: remove or
  renumber a stored file version, or change a run, its rows, its rule versions or
  its evidence.
- `EvidenceAlwaysAccepted` and `InferredNeverDecides`: the two assumptions on the
  evaluator that TLC checks over bounded rules (above), for every rule that is
  `WellFormed` and every record. `WellFormed` is what the validators of rule
  definitions demand of exemptions: an id and at least one condition, on unified
  fields. That the first matching exemption is the one taken is `FirstExemption`,
  by the least index.

`NoneAssumption` and `NoCodeAssumption` say that `None` is neither a value nor a
reason code. TLC evaluates both.

## 5. Rows, once

`RowOnce` is what `row_result` promises: a row is settled once, with one verdict
and with the effects of its computation. `RowIdempotency` is
`process_row_once` (`B/core/orchestration/idempotency.py`) in sessions that
interleave under READ COMMITTED: `ComputeRow` is `fetch_row_result` and
`compute`, `InsertRow` and `ConflictRow` the two outcomes of `ON CONFLICT DO
NOTHING`, which waits for an uncommitted row (`Awaited`), `Commit` and `Fail` the
ends of the transaction. `Locked` and `Strict` tell the two callers apart:
`validate_batch` holds the tenant lock and raises when a row was not created;
the graph nodes of the recovery tests do neither.

| Run | Caller | Shows |
|---|---|---|
| `RowIdempotencyValidate` | validation, 2 sessions that the lock keeps apart, 2 failures | a batch that fails and is run again implements `RowOnce` |
| `RowIdempotencyConcurrent` | two nodes, no lock, 1 failure | callers learn the stored verdict; results and effects are committed together (`EffectsWithResult`); every row settles, so there is no circular wait |

The docstring of `idempotency.py` (line 22) says that the effects of a row are
committed at most once, concurrent writers included. The code does not keep that
without the lock and with callers that do not raise: two sessions compute one row,
one of them inserts it, and both commit the effects of their computation
(`RowIdempotencyConcurrent.cfg` with the invariant `EffectsOnce` shows it; no run
keeps that). specs/004 line 248 agrees with the code: looking first and inserting
last is not enough, the caller must hold the locks. For one that does,
`EffectsOnce` is part of `RowOnce`. What is left for the others is
`EffectsWithResult`: a row may get its effects twice, but never a result without
effects or effects without a result, whoever dies in between.

`FairSpec` makes each session proceed, for a failed validation is asked for again
and a graph resumed; `MaxFailures` bounds failures. The wait of `ON CONFLICT`
cannot become a circle because all sessions process rows in order; the mutant
that does not shows it.

`RowIdempotencyProofs` proves `TypeCorrect`, `OutcomesTrue` and `EffectsTogether`
(`Spec => []EffectsWithResult`) for every caller, and, for one that holds the lock
or raises on a conflict, `EffectsAtMostOnce` (`Spec => []EffectsOnce`) and
`Refinement` (`Spec => ImplementsRowOnce`). Both invariants follow an open
transaction. `BackedInv` says that the effects it holds are of rows it has
inserted or is about to (`Own`), or of rows that have a result by now; `EffectInv`
says of the stricter callers that they are of the first kind only, and that
nobody else has inserted those rows.

## 6. Versions and bindings

`PolicyVersions` is what the rest of the system needs to know of publication: a
version is indexed, then published, and never withdrawn; publication closes at
most one predecessor, at once, while it is itself still being indexed; versions
that are published are disjoint. Failures and retries come in any order.
`PolicyIndex` implements it (above), and `PolicyBindings` uses its steps as they
are.

`PolicyBindings` adds `rule_policy_binding`. `SaveBindings` is
`save_rule_policy_bindings` (tenant lock): every cited document is valid on the
day, and no binding of the rule applies on it. A request that repeats the set
that applies returns it and changes nothing; any other is refused. `Cited` is
`_resolve_citations` of the reports, a function of the state. `confirmed` records
what was saved for which day; the code keeps no such record, which is the point:
bindings have no day and no set. Clauses, offsets and hashes are left out: they
are checked against rows that never change.

Its invariants, that one version is cited, no document bound twice and no two
sets apply on a day, are checked in the run of `ReportLifecycle` (below), which
takes every step of this module: a version and its successor, which are the
least that can replace one another, and a dated document, which makes citations
end without a publication; three days, one rule (`SaveBindings` looks at no
other).

Two consequences of the code are not stated as properties. A set one of whose
documents has been closed by its successor is cited in part on later days, where
specs/005:98 wants a complete group or none. And by `Unbound` a rule whose set cites two
documents cannot be bound to the successor of one of them as long as the other
is valid, for every day then has a set and bindings are never removed; only a
new version of the rule can be bound to it (specs/005 line 288 wants a new
binding for a new version).

`PolicyBindingsProofs`, for any documents and days (`DatesAssumption` says they
are numbers): `OneVersion`, `BoundOnce`, `OneSet` and `TypeCorrect`. The argument
is that documents only close (`VersionsClose`), so that versions apart stay apart
(`ApartStep`) and a set that has ended on its day does not apply there again
(`NeverAgain`); `GroupsStand`, that the documents of a set are published and had
begun on its day, is what makes it inductive.

## 7. Exports

`ArtifactOnce` is what a report's workbook promises: published at most once, with
one audit entry, and answered with nothing else. `ReportExport` is
`B/core/reports/export_service.py` for one tenant. `row` is `report_export`,
`file` the file at the path that the report alone determines, `tx` the requests
in progress, `builds` numbers workbooks: two builds of one report differ in their
bytes, so the hash of one says which build it was. `served` is history: the
builds that a request which committed was answered with.

| Action | Code | Atomic because |
|---|---|---|
| `Find` or `Reuse` | `create_report_export` up to the row it finds | tenant lock |
| `Claim` or `ClaimConflict` | the first flush | one statement; the record of an older failure, which takes no lock, may have inserted the row since |
| `Build`, `Recover`, `RefuseFile` | `_recover_or_build` | tenant lock, and the file is moved into place in one step |
| `Commit` | the second flush, the audit entry and the commit of `get_db` | one transaction |
| `Fail`, `Crash` | an exception or a dead process at any step | rollback, which releases the lock |
| `ReadForFailure`, then `RecordFailure` | `_rollback_and_record_failure`, in a session of its own without lock | its write waits for a transaction that has written the row or holds its key (`Awaited`), and the trigger and the constraints reject what is too late |
| `Download` | `download_report_export` | reads only |
| `LoseFile` | the volume loses or damages a file | |

`in_progress` is never committed, so the committed row has three states.

| Run | Instance | Shows |
|---|---|---|
| `ReportExport` | 2 reports, 2 keys, 2 requests, 3 failures | implements `ArtifactOnce`; complete exports are never touched again, by a late failure record either; files stay what rows say; all reports are exported in the end |

Two requests make a late failure record meet a completion, two reports and two
keys make a key conflict, and three failures suffice for a request that fails, a
successor that dies between file and commit and a file that is lost.

`FairSpec`: a request that was accepted runs on, and a client repeats one that
failed or was refused, with a new key if need be (a key that a failed export of
another report holds is refused for ever). `EveryExportCompletes` excepts one
case: a damaged file that no row names yet is refused by every later request
(`Blocked`), for nothing in the code removes it.

The key of a request is stored only with the row it inserts (`Reuse` stores
none). A request that finds the export complete, or inserted by a failed request
with another key, succeeds, and its key is accepted for another report
afterwards, where specs/005-phase2-f4-report-generation.md:546 wants a 409. No
run checks this. The ledger of report generation has no such gap
(`OneRequestPerKey`, next section).

`ReportExportProofs`, for any reports, keys, requests and number of failures:
`TypeCorrect`, `FilesKept`, `CompletedStay` and `Refinement`
(`Spec => ImplementsArtifactOnce`). The invariant `ExportInv` says that one
request holds the lock, that its row is not complete while it does, and that the
workbook it has in hand is the one on disk unless the volume lost it: whoever
wants to replace the file needs the lock. The record of a failure is harmless
because of the trigger: its own read of the row may be stale. Liveness is
model-checked only.

## 8. Reports

`ReportLifecycle` is `generate_report` (`B/core/reports/service.py`)
for the validated batches of one tenant, next to everything that changes what a
report may cite: it extends `PolicyBindings` and takes its steps (`PolicyStep`).
`tx` is the one transaction that holds the tenant lock, with the items it has
prepared and the report as far as it is flushed (`draft`); `ledger` is
`report_request`; `answered` is history.

| Action | Code | Atomic because |
|---|---|---|
| `Begin`, `Reuse`, `Replay` | what a request finds: nothing, a report made with another key, its own key | tenant lock; `Reuse` and `Replay` read and write no more |
| `PrepareItem` | `_prepare_report`, one finding with its citations | a query of its own at READ COMMITTED |
| `FinishPreparing` or `RefuseUnconfigured` | the items are sorted, `require_latest_sampling_config` | |
| `Flush(stage)` | the flushes: report and key, each item with its citations, parse errors, plan, end | only the transaction itself sees them |
| `Commit` | `get_db` | |
| `Fail` | an exception or a dead process between any two of them | rollback |
| `PolicyStep` | publication, failure, retry, bindings | tenant lock, except the record of a failed indexing |
| `CompleteValidation`, `SaveConfig` | `validate_batch`, `create_sampling_config` | tenant lock |

The failure that is recorded after a rollback is an audit entry, and is left
out. So are refused requests, the rendering of findings and the fields a report
copies from rows that no longer change.

| Run | Instance | Shows |
|---|---|---|
| `ReportLifecycle` | a version, its successor and a dated document; 2 batches with 2 and 1 findings on 2 of 3 days, a row that was not parsed; 2 keys, 2 templates, 1 configuration, 1 failure | a report speaks of one moment (`PreparedIsCurrent`), is whole with its plan and key or absent (`ReportWhole`), its key stands for one request (`OneRequestPerKey`), and what it cites stands (`CitationsStand`); and the invariants of `PolicyBindings` |

`PreparedIsCurrent` is what the tenant lock is for: without it a publication
between two queries gives a report that cites two states of the policies, which
also breaks the manifest (`_policy_manifest` keeps one expiry date per
document). Two findings on the days of two versions are the least for that; two
batches and two keys make a key conflict, and one failure at every stage shows
what a rollback leaves. Keys and templates are only compared, so the run takes
their permutations as symmetry; there is no liveness in it. The second version
of the configuration that would tell a plan from the latest one is in the run of
`ReviewDecisions`.

### Proved

`ReportLifecycleProofs`, for any batches, findings, documents, rules, keys,
templates and bounds, from the assumptions of the modules:

- `PoliciesUntouched`: `ReportSpec => Spec`. A step of a report is a stutter of
  `PolicyBindings`, so that the theorems of section 6 hold here too
  (`ReportsCiteOneVersion` is one of them).
- `OneRequest`: the ledger only grows, because the transaction that will add a
  key has found it missing and holds the tenant lock since (`LockedKey`): its key
  is remembered only at the commit, many steps after the check.
- `OneMoment`: while a transaction prepares, the one policy step that can happen
  is the record of a failed indexing, and this changes the citations of no day
  (`FailureUnseen`).
- `WholeOrAbsent`: `TxInv` says, stage by stage, that the draft is what the
  flushes so far have written of the prepared items. Sorting loses no finding
  and invents none, and sorting again changes nothing: an item's place is
  counted from the items that precede it, a numbering without gaps (`Places`),
  for `Precedes` is total and transitive. The manifest has what the items cite,
  with one date for each document (`ManifestAgrees`).
- `CitationsKept`: publication closes only ends that are open, and only at the
  successor's date; a published document is neither withdrawn nor unbound.

`ReportInv` joins these parts and is inductive relative to the invariant of
`PolicyBindingsProofs`; both were model-checked together first.

### A consequence that is not a property

Publication closes the
predecessor at once (`B/core/policies/service.py:493`), but its successor is
valid only once it is indexed, and for ever not if indexing fails. A report made
in between for the days of the successor finds neither: it is generated, whole
and immutable, with items whose citations need manual work, and no later request
makes another report.

## 9. Reviews

`ReviewDecisions` is `B/core/reviews` for one tenant: versions of the sampling
configuration, the sampling plan each report gets, the decisions on findings
that need attention and on sampled rows that passed, the queue and the summary.

Every writer takes the tenant lock before its first read and keeps it until its
transaction ends, so a request is one step. Readers take no lock: `ReadNext` is
one statement of `get_review_summary`, and decisions are made in between.

| Action | Code |
|---|---|
| `CreateConfig`, `ReplayConfig` | `create_sampling_config`, with the version the caller expects |
| `CompleteReport` | `create_plan_for_new_report` in the transaction of the report |
| `RequestPlan`, `RequestLegacyPlan` | `create_legacy_sampling_plan`, for a report with a plan or without |
| `SubmitFindingReview`, `SubmitSamplingReview` | the functions of those names: a decision, or its replay |
| `ReadNext`, `ReadAnother` | `get_review_summary`; `Pending` is `list_review_queue` |

The score that orders the rows of a sample is a hash with a random seed, so any
choice of the right size is possible (`Selections`). Refused requests, and the
audit entries of failures, have no action. Details and pages of lists only read.

| Run | Instance | Shows |
|---|---|---|
| `ReviewDecisions` | a legacy report with a cleared item and 3 rows of which 2 passed, a new one with an item that needs attention; 2 keys, 1 note, 2 sets of parameters, 2 configurations | what a request was told stays stored (`GrantedIsStored`); what the queue shows can be decided (`PendingIsDecidable`); a sample is as large as the configuration it names wants (`SampleFollowsConfig`); a torn summary adds up (`SummaryAddsUp`) |

A summary is torn whenever a decision is made between two of its statements. It
still adds up because what is completed is counted before its parts: counting it
last is the mutant. Two eligible rows and a rate of a bit more than half tell
rounding up from rounding down; a maximum of one caps a rate of all. In the code
the sample is checked twice more, by `verify_sampling_selection` and by a
constraint of `review_sampling_plan`.

### Proved

`ReviewDecisionsProofs` proves all five properties of the run, for any reports,
rows, keys, notes, parameters and number of configurations; the one assumption is
`ReviewAssumption` (a report has finitely many items and rows, and parameters are
in the ranges that `review_sampling_config` demands).

- `GrantsStand`, `QueueIsDecidable`: tables are only added to. The invariant adds
  that a key of a plan request is of one report, that a plan's rows passed
  (`PlanInv`), and that each stored decision is of a target that could be decided
  (`ReviewInv`).
- `SampleSizeIsRight`: rounding up is bounded on both sides in `SampleSizes`, for
  any rate and number of rows, where TLC tries two rates of at most two rows.
- `TornSummary`: `ReaderInv` says, statement by statement, that what is counted
  is a lower bound of what there is, and that what is completed is at most what
  is counted of its parts plus what there is of the rest. `RowsGrow` keeps it while decisions
  are made; `ReviewedTargets` maps reviews to targets one to one.

## 10. Sessions

`Sessions` is `B/core/security` as requests use it: `session` is `user_session`
as committed, `request` the requests being served, each with the row it has read
and the columns it has written, `audit` the committed audit log. Time is a
clock; `used`, `served`, `refused` are history.

| Action | Code |
|---|---|
| `Login`, then `Commit` | `authenticate` and `create_session`; others know the row once it is committed |
| `RefuseLogin`, `RecordRefusal`, `AnswerRefusal` | `_fail`: the audit entry is committed, then the exception rolls the request back |
| `Resolve`, then `Touch` when it is due | `resolve_session`, `_touch`; the `UPDATE` waits for whoever has written the row |
| `Logout` | `revoke_session` on the row the request has read |
| `Commit`, `Fail` | `get_db`; a request that fails takes its touch back |
| `SwitchUser` | users are switched by hand; nothing in the repository does |

| Run | Instance | Shows |
|---|---|---|
| `Sessions` | 1 user, 1 token, 3 requests, throttle 2, idle timeout 5, absolute timeout 6, a request takes at most 2, clock to 7 | a session that was logged out, or idle for the timeout, is over for good (`EndedStaysEnded`); one that is used looks idle by less than the throttle, or than the time of a request, too much (`UsedIsSeen`); every session and every refusal is in the audit log (`AuditTells`) |

Three requests let two race to touch the session while a third logs it out. The
timeouts are the smallest at which a touch, the throttle and both ends can be
told apart, and the clock runs past them; `MaxDuration` bounds how long a
request is served (the code has no such bound, it is the time of `UsedIsSeen`).

The docstring of `session_service.py` (lines 30-33) says that the throttle does
not matter at the grain of the idle timeout. What it costs is less than the
throttle itself; and a
touch writes the time its request was resolved at, so one that waited for
another may write an older time over a newer one. Both make a session end
earlier than its use would have it, never later. A user who is switched off is
refused, but the sessions stay, and are accepted again when the user is switched
on. The properties count from the commit of `get_db`, which follows the
response: for that moment a new token is not known yet, and one that was logged
out still is.

### Proved

`SessionsProofs` proves all four properties of the run, for any number of users,
tokens and requests, and any timeouts.

- `LogoutIsFinal`: a commit writes only the columns that its request has changed
  (`Committed`), so a touch cannot undo a logout; and `last_seen_at` is never
  later than the last use.
- `LastSeen`: `ServingInv` says of a request that does not touch its session that
  `last_seen_at` was recent when it was accepted, or was overwritten since by a
  request that is itself no older than `MaxDuration`. The row lock is not needed.
- `LoginsAudited`: nobody else has the token of a login before it is committed
  (`LoginInv`), so each commit of one makes one session; and refusals that are
  not answered yet are counted as well.

## 11. What is not modelled

Text extraction, chunking, hashing, embeddings, the search ranking and the
layout of workbooks are functions of their inputs and keep no state; so are the
hashing of passwords and the table of permissions. Query services and routes
read and forward. The record of a failure that parsing, validation and report
generation write after a rollback is an audit entry that nothing reads. Tenants
are modelled one at a time: every statement is scoped to one, and no row refers
to another's. `upload_policy_document` only adds drafts, which the model has from
the start. Empty packages (`agent`, `detection`, `grading`, `observability`,
`evaluation`) have nothing to model.

Liveness of reviews, reports and batches is not stated: every step of theirs is a
request that somebody makes or not.
