-------------------------- MODULE ReportLifecycle --------------------------
(***************************************************************************)
(* The report of a validated batch, generated while policies are           *)
(* published, bound to rules and indexed by others.                        *)
(*                                                                         *)
(* One transaction under the tenant lock reads the citations of every      *)
(* finding, one query after another, and then writes the report, its items *)
(* with their citations, its parse errors and its sampling plan, and the   *)
(* key of the request.  Others see all of it or nothing.  Everything that  *)
(* changes what may be cited takes the same lock, except the record of a   *)
(* failed indexing.                                                        *)
(*                                                                         *)
(* Requests that are refused (the lock is taken, the key belongs to        *)
(* another request, the report has another template) change nothing, and   *)
(* have no action.                                                         *)
(***************************************************************************)
EXTENDS PolicyBindings, Sequences

CONSTANTS
    Files,      \* batches
    Findings,   \* Files -> findings of the validation, in row order
    BadRows,    \* Files -> rows that were not parsed
    Keys,       \* Idempotency-Key values
    Templates,  \* template versions
    None,       \* no file, no key, no template
    MaxConfigs, \* bound: versions of the sampling configuration
    MaxFailures \* bound: exceptions, and processes that die

\* A finding of a validation, on the day of its row.
Finding == [rule : Rules, date : Dates, verdict : {"flagged", "manual_review", "passed"}]

ASSUME ReportAssumption ==
    /\ None \notin Files \union Keys \union Templates
    /\ Findings \in [Files -> Seq(Finding)]
    /\ MaxConfigs \in Nat
    /\ MaxFailures \in Nat

VARIABLES
    validated, \* batches with a completed validation_run
    config,    \* the latest version of the sampling configuration, 0 for none
    report,    \* report_run, with its items, citations, errors and plan
    ledger,    \* report_request: the file and template of each known key
    tx,        \* the transaction that holds the tenant lock
    answered,  \* history: keys, files and templates of requests that succeeded
    failures

reportState == <<validated, config, report, ledger, tx, answered, failures>>
reportVars == <<vars, reportState>>

Groups == {"high_attention", "manual_attention", "cleared"}

Citation == [binding : Binding, expiry : 0..Never]

Item == [finding : Finding, group : Groups, citations : SUBSET Citation]

ReportRow == [status : {"none", "in_progress", "completed"},
              template : Templates \union {None},
              items : Seq(Item),
              manifest : UNION {[cited -> 0..Never] : cited \in SUBSET Docs},
              errors : SUBSET UNION {BadRows[f] : f \in Files},
              plan : 0..MaxConfigs]

NoReport == [status |-> "none", template |-> None, items |-> <<>>, manifest |-> <<>>,
             errors |-> {}, plan |-> 0]

\* What a key stands for.
Request == [file : Files \union {None}, template : Templates \union {None}]

Stages == {"idle", "preparing", "prepared", "created", "itemized", "listed", "planned", "done"}

\* A transaction: where it is, its request, the items it has prepared, the
\* configuration it has read, and the report as far as it is flushed.
Transaction == [pc : Stages, file : Files \union {None}, key : Keys \union {None},
                template : Templates \union {None}, prepared : Seq(Item),
                config : 0..MaxConfigs, draft : ReportRow]

Idle == [pc |-> "idle", file |-> None, key |-> None, template |-> None,
         prepared |-> <<>>, config |-> 0, draft |-> NoReport]

\* ReportRunStatus.COMPLETED
Completed(f) == report[f].status = "completed"

ReportTypeOK ==
    /\ TypeOK
    /\ validated \subseteq Files
    /\ config \in 0..MaxConfigs
    /\ report \in [Files -> ReportRow]
    /\ \A f \in Files : Completed(f) => report[f].plan \in 1..config
    /\ ledger \in [Keys -> Request]
    /\ tx \in Transaction
    /\ answered \subseteq [key : Keys, file : Files, template : Templates]
    /\ failures \in 0..MaxFailures

ReportInit ==
    /\ Init
    /\ validated = {}
    /\ config = 0
    /\ report = [f \in Files |-> NoReport]
    /\ ledger = [k \in Keys |-> [file |-> None, template |-> None]]
    /\ tx = Idle
    /\ answered = {}
    /\ failures = 0

-----------------------------------------------------------------------------
(* The other writers *)

\* Mutant: nobody takes the tenant lock.
NoLock == TRUE

\* lock_tenant_nowait succeeds.
LockFree == tx.pc = "idle"

\* Publications, retries, the worker's reconciliation and saved bindings take
\* the tenant lock; the record of a failed job does not.
PolicyStep ==
    /\ \/ LockFree /\ Next
       \/ (\E d \in Docs : Versions!Fail(d)) /\ UNCHANGED <<bindings, confirmed>>
    /\ UNCHANGED reportState

\* The validation of a batch is completed.
CompleteValidation(f) ==
    /\ LockFree
    /\ f \notin validated
    /\ validated' = validated \union {f}
    /\ UNCHANGED <<vars, config, report, ledger, tx, answered, failures>>

\* create_sampling_config
SaveConfig ==
    /\ LockFree
    /\ config < MaxConfigs
    /\ config' = config + 1
    /\ UNCHANGED <<vars, validated, report, ledger, tx, answered, failures>>

-----------------------------------------------------------------------------
(* Requests *)

\* The key is not in the ledger.
Fresh(k) == ledger[k].file = None

\* Mutant: the key of a request that finds the report is not stored.
Forget(k, f, t) == ledger

\* The ledger with the key of a request.
Remember(k, f, t) == [ledger EXCEPT ![k] = [file |-> f, template |-> t]]

\* A request with a new key begins the report of a validated batch.
Begin(k, f, t) ==
    /\ LockFree
    /\ Fresh(k)
    /\ report[f] = NoReport
    /\ f \in validated
    /\ tx' = [Idle EXCEPT !.pc = "preparing", !.file = f, !.key = k, !.template = t]
    /\ UNCHANGED <<vars, validated, config, report, ledger, answered, failures>>

\* A request with a new key for a report that exists.
Reuse(k, f, t) ==
    /\ LockFree
    /\ Fresh(k)
    /\ Completed(f) /\ report[f].template = t
    /\ ledger' = Remember(k, f, t)
    /\ answered' = answered \union {[key |-> k, file |-> f, template |-> t]}
    /\ UNCHANGED <<vars, validated, config, report, tx, failures>>

\* A request with a known key is answered with the report it was made for.
Replay(k, f, t) ==
    /\ LockFree
    /\ ledger[k] = [file |-> f, template |-> t]
    /\ Completed(f)
    /\ answered' = answered \union {[key |-> k, file |-> f, template |-> t]}
    /\ UNCHANGED <<vars, validated, config, report, ledger, tx, failures>>

-----------------------------------------------------------------------------
(* The transaction of a new report *)

\* attention_group_for_verdict
Attention(verdict) ==
    [flagged |-> "high_attention", manual_review |-> "manual_attention",
     passed |-> "cleared"][verdict]

\* The item of a finding: the citations of its rule on its day, each with the
\* expiry date its document has now.
Prepared(finding) ==
    [finding |-> finding,
     group |-> Attention(finding.verdict),
     citations |-> {[binding |-> b, expiry |-> doc[b.document].expiry]
                    : b \in Cited(finding.rule, finding.date)}]

\* report_item_order_key: by attention, then as the findings were read.
Rank == [high_attention |-> 1, manual_attention |-> 2, cleared |-> 3]
Precedes(items, m, n) ==
    \/ Rank[items[m].group] < Rank[items[n].group]
    \/ Rank[items[m].group] = Rank[items[n].group] /\ m < n

\* The place of an item among the sorted ones.
Place(items, n) == Cardinality({m \in DOMAIN items : Precedes(items, m, n)}) + 1

Ordered(items) ==
    [k \in DOMAIN items |-> items[CHOOSE n \in DOMAIN items : Place(items, n) = k]]

\* The documents that items cite.
CitedDocuments(items) ==
    {c.binding.document : c \in UNION {items[n].citations : n \in DOMAIN items}}

\* _policy_manifest: of a document cited by several items, the last counts.
PolicyManifest(items) ==
    LET Last(d) == CHOOSE n \in DOMAIN items :
            /\ d \in CitedDocuments(<<items[n]>>)
            /\ \A m \in DOMAIN items : d \in CitedDocuments(<<items[m]>>) => m <= n
    IN  [d \in CitedDocuments(items) |->
            (CHOOSE c \in items[Last(d)].citations : c.binding.document = d).expiry]

\* What readers are given of a completed report.
Snapshot(f) == [items |-> Ordered(report[f].items), manifest |-> report[f].manifest,
                errors |-> report[f].errors]

\* _prepare_report, one finding after another.
PrepareItem ==
    /\ tx.pc = "preparing"
    /\ Len(tx.prepared) < Len(Findings[tx.file])
    /\ tx' = [tx EXCEPT !.prepared =
                    Append(@, Prepared(Findings[tx.file][Len(@) + 1]))]
    /\ UNCHANGED <<vars, validated, config, report, ledger, answered, failures>>

\* Mutant: a report is generated whether there is a configuration or not.
AnyConfig == TRUE

\* require_latest_sampling_config
HasConfig == config > 0

\* The items are sorted, and the latest configuration is read.
FinishPreparing ==
    /\ tx.pc = "preparing"
    /\ Len(tx.prepared) = Len(Findings[tx.file])
    /\ HasConfig
    /\ tx' = [tx EXCEPT !.pc = "prepared", !.prepared = Ordered(@), !.config = config]
    /\ UNCHANGED <<vars, validated, config, report, ledger, answered, failures>>

\* Without a configuration the request is refused and all is rolled back.
RefuseUnconfigured ==
    /\ tx.pc = "preparing"
    /\ Len(tx.prepared) = Len(Findings[tx.file])
    /\ ~HasConfig
    /\ tx' = Idle
    /\ UNCHANGED <<vars, validated, config, report, ledger, answered, failures>>

\* What each flush adds to the report.
Flushed(stage) ==
    CASE stage = "created" ->
            [NoReport EXCEPT !.status = "in_progress", !.template = tx.template,
                             !.manifest = PolicyManifest(tx.prepared)]
      [] stage = "itemized" ->
            [tx.draft EXCEPT !.items = Append(@, tx.prepared[Len(@) + 1])]
      [] stage = "listed" -> [tx.draft EXCEPT !.errors = BadRows[tx.file]]
      [] stage = "planned" -> [tx.draft EXCEPT !.plan = tx.config]
      [] stage = "done" -> [tx.draft EXCEPT !.status = "completed"]

\* The order of the flushes: the report with its key, each item with its
\* citations, the parse errors, the plan, the end of the report.
Follows(stage) ==
    LET more == Len(tx.draft.items) < Len(tx.prepared)
    IN  \/ stage = "created"  /\ tx.pc = "prepared"
        \/ stage = "itemized" /\ tx.pc \in {"created", "itemized"} /\ more
        \/ stage = "listed"   /\ tx.pc \in {"created", "itemized"} /\ ~more
        \/ stage = "planned"  /\ tx.pc = "listed"
        \/ stage = "done"     /\ tx.pc = "planned"

Flush(stage) ==
    /\ Follows(stage)
    /\ tx' = [tx EXCEPT !.pc = stage, !.draft = Flushed(stage)]
    /\ UNCHANGED <<vars, validated, config, report, ledger, answered, failures>>

\* The request ends: get_db commits.
Commit ==
    /\ tx.pc = "done"
    /\ report' = [report EXCEPT ![tx.file] = tx.draft]
    /\ ledger' = Remember(tx.key, tx.file, tx.template)
    /\ answered' = answered \union
            {[key |-> tx.key, file |-> tx.file, template |-> tx.template]}
    /\ tx' = Idle
    /\ UNCHANGED <<vars, validated, config, failures>>

\* Mutant: a failed request commits what it has flushed.
KeepFlushed == [report EXCEPT ![tx.file] = tx.draft]

\* db.rollback()
RolledBack == report

\* An exception: roll back, and record the failure in another session.  A
\* process that dies leaves the same behind, without the record.
Fail ==
    /\ ~LockFree
    /\ failures < MaxFailures
    /\ failures' = failures + 1
    /\ report' = RolledBack
    /\ tx' = Idle
    /\ UNCHANGED <<vars, validated, config, ledger, answered>>

ReportNext ==
    \/ PolicyStep
    \/ \E f \in Files : CompleteValidation(f)
    \/ SaveConfig
    \/ \E k \in Keys, f \in Files, t \in Templates :
            Begin(k, f, t) \/ Reuse(k, f, t) \/ Replay(k, f, t)
    \/ PrepareItem
    \/ FinishPreparing
    \/ RefuseUnconfigured
    \/ \E stage \in Stages : Flush(stage)
    \/ Commit
    \/ Fail

ReportSpec == ReportInit /\ [][ReportNext]_reportVars

-----------------------------------------------------------------------------
(* Properties *)

Citations(items) == UNION {items[n].citations : n \in DOMAIN items}

\* Until it commits, a transaction's items say what the policies in force say
\* now, although each was read in a query of its own, and it plans with the
\* latest configuration: a report speaks of one moment.
PreparedIsCurrent ==
    /\ \A n \in DOMAIN tx.prepared :
            tx.prepared[n] = Prepared(tx.prepared[n].finding)
    /\ tx.pc \in Stages \ {"idle", "preparing"} => tx.config = config

\* A report that others see has an item for every finding, every row that was
\* not parsed, a sampling plan, a manifest that agrees with all its citations,
\* and the key of the request that made it: a failure between the flushes
\* leaves nothing of it.
ReportWhole ==
    \A f \in Files : report[f] # NoReport =>
        LET read == Snapshot(f)
        IN  /\ Completed(f)
            /\ read.items = report[f].items
            /\ {read.items[n].finding : n \in DOMAIN read.items}
                    = {Findings[f][n] : n \in DOMAIN Findings[f]}
            /\ read.errors = BadRows[f]
            /\ \A c \in Citations(read.items) :
                    read.manifest[c.binding.document] = c.expiry
            /\ report[f].plan > 0
            /\ \E k \in Keys : ledger[k] = [file |-> f, template |-> report[f].template]

\* A key stands for one request: however often it is sent, and whether or not
\* it made the report itself, it is never accepted for another batch or
\* template.
OneRequestPerKey ==
    \A a, b \in answered : a.key = b.key => a = b

\* What a report cites stays bound and published after later publications,
\* failures and retries; the end of a document's validity is what the report
\* says, or was set later for one that had none.
CitationsStand ==
    \A f \in Files : \A c \in Citations(report[f].items) :
        /\ c.binding \in bindings
        /\ doc[c.binding.document].status = "published"
        /\ c.expiry \in {doc[c.binding.document].expiry, Never}
=============================================================================
