---------------------------- MODULE PolicyIndex ----------------------------
(***************************************************************************)
(* The policy index of one tenant: documents published in versions, index  *)
(* generations, the outbox of index jobs kept in PostgreSQL, the workers   *)
(* that drain it, and the points they write to Qdrant.                     *)
(*                                                                         *)
(* publish, retry, create and reconcile run under the tenant row lock, so  *)
(* each is one action.  A worker holds only the row lock of its job, and   *)
(* its Qdrant write is outside the PostgreSQL transaction: claiming,       *)
(* reading, upserting, committing and failing are separate actions, with   *)
(* a crash possible between any two of them.                               *)
(***************************************************************************)
EXTENDS Integers, FiniteSets

CONSTANTS
    Docs,         \* document ids, ordered as reconcile orders them
    FamilyOf,     \* Docs -> family
    Effective,    \* Docs -> effective_date
    Expiry,       \* Docs -> expiry_date at upload, Never when NULL
    Never,        \* the day after every date
    Chunks,       \* chunk ids, which are also the Qdrant point ids
    DocOf,        \* Chunks -> Docs
    Collections,  \* Qdrant collections
    CollectionOf, \* generation -> collection of the store it is indexed with
    MaxGen,       \* bound: generations created
    Workers,
    None,         \* no worker, no chunk
    AttemptLimit, \* settings.policy_index_attempt_limit
    MaxFailures,  \* bound: failed provider calls
    MaxCrashes    \* bound: crashes and outlived leases

Gens == 1..MaxGen
ChunksOf(d) == {c \in Chunks : DocOf[c] = d}

ASSUME DocsAssumption == Docs \subseteq Nat /\ IsFiniteSet(Docs)
ASSUME DatesAssumption ==
    /\ Never \in Nat
    /\ Effective \in [Docs -> 0..Never-1]
    /\ Expiry \in [Docs -> 0..Never]
    /\ \A d \in Docs : Effective[d] < Expiry[d]
ASSUME ChunksAssumption ==
    /\ IsFiniteSet(Chunks)
    /\ DocOf \in [Chunks -> Docs]
    /\ \A d \in Docs : ChunksOf(d) # {}
ASSUME BoundsAssumption ==
    /\ MaxGen \in Nat \ {0} /\ AttemptLimit \in Nat \ {0}
    /\ MaxFailures \in Nat /\ MaxCrashes \in Nat
ASSUME CollectionsAssumption == CollectionOf \in [Gens -> Collections]
ASSUME NoneAssumption == None \notin Workers /\ None \notin Chunks

VARIABLES
    doc,     \* policy_document rows: status and expiry_date
    gen,     \* policy_index_generation rows
    dix,     \* policy_document_index rows, per generation and document
    job,     \* policy_index_job rows, per generation and chunk
    points,  \* Qdrant: per collection and point id, the payload
    worker,  \* the workers' memory and open transaction
    failures, \* failed provider calls so far
    crashes   \* crashes and outlived leases so far

vars == <<doc, gen, dix, job, points, worker, failures, crashes>>

-----------------------------------------------------------------------------
(* Rows *)

DocStatus == {"draft", "indexing", "published", "failed"}
GenStatus == {"absent", "building", "active", "retired"}
IndexStatus == {"absent", "indexing", "completed", "failed"}
JobStatus == {"absent", "pending", "running", "completed", "failed"}

NoGen == [status |-> "absent", manifest |-> {}, expected |-> 0, completed |-> 0]
NoJob == [status |-> "absent", attempts |-> 0, token |-> None]
PendingJob == [status |-> "pending", attempts |-> 0, token |-> None]
Idle == [pc |-> "idle", g |-> 0, c |-> None, expiry |-> 0,
         pending |-> {}, running |-> {}]

DocRow == [status : DocStatus, expiry : 0..Never]
GenRow == [status : GenStatus, manifest : SUBSET Chunks, expected : Nat, completed : Nat]
JobRow == [status : JobStatus, attempts : 0..AttemptLimit, token : Workers \union {None}]
Point == [gen : Gens \union {0}, expiry : 0..Never]
WorkerState == [pc : {"idle", "claimed", "executing", "upserted", "errored", "failing"},
                g : Gens \union {0}, c : Chunks \union {None}, expiry : 0..Never,
                pending : SUBSET Chunks, running : SUBSET Chunks]

TypeOK ==
    /\ doc \in [Docs -> DocRow]
    /\ gen \in [Gens -> GenRow]
    /\ dix \in [Gens -> [Docs -> IndexStatus]]
    /\ job \in [Gens -> [Chunks -> JobRow]]
    /\ points \in [Collections -> [Chunks -> Point]]
    /\ worker \in [Workers -> WorkerState]
    /\ failures \in 0..MaxFailures
    /\ crashes \in 0..MaxCrashes

NoPoint == [gen |-> 0, expiry |-> 0]

Init ==
    /\ doc = [d \in Docs |-> [status |-> "draft", expiry |-> Expiry[d]]]
    /\ gen = [g \in Gens |-> NoGen]
    /\ dix = [g \in Gens |-> [d \in Docs |-> "absent"]]
    /\ job = [g \in Gens |-> [c \in Chunks |-> NoJob]]
    /\ points = [k \in Collections |-> [c \in Chunks |-> NoPoint]]
    /\ worker = [w \in Workers |-> Idle]
    /\ failures = 0
    /\ crashes = 0

-----------------------------------------------------------------------------
(* Queries *)

Existing == {g \in Gens : gen[g].status # "absent"}
Active == {g \in Gens : gen[g].status = "active"}
Building == {g \in Gens : gen[g].status = "building"}
Published == {d \in Docs : doc[d].status = "published"}

\* The chunks _published_manifest_rows selects: those of published documents.
PublishedChunks == {c \in Chunks : doc[DocOf[c]].status = "published"}

JobsIn(g, status) == {c \in Chunks : job[g][c].status = status}
CompletedOf(g, d) == JobsIn(g, "completed") \intersect ChunksOf(d)

\* A document index row's counters: expected_point_count is the number of the
\* document's chunks, fixed at its creation.
AllCompleted(g, d) == CompletedOf(g, d) = ChunksOf(d)

\* verify_generation: points of the collection whose payload names g.
Indexed(g) == {c \in Chunks : points[CollectionOf[g]][c].gen = g}
QdrantCount(g) == Cardinality(Indexed(g))

Overlap(start1, end1, start2, end2) == start1 < end2 /\ start2 < end1

\* The exclusion constraint of policy_document over published rows.
IntervalsDisjoint(S) ==
    \A d, e \in S : d # e /\ FamilyOf[d] = FamilyOf[e] =>
        ~Overlap(Effective[d], doc[d].expiry, Effective[e], doc[e].expiry)

\* Mutant: the job row is read without FOR UPDATE.
NoLockHolders(g, c) == {}

\* The workers whose open transaction holds the row lock of job (g, c).
LockHolders(g, c) ==
    {w \in Workers : /\ worker[w].pc \in {"executing", "upserted", "failing"}
                     /\ worker[w].g = g
                     /\ worker[w].c = c}

-----------------------------------------------------------------------------
(* Configurator requests, each one transaction under the tenant lock *)

OverlappingVersions(d) ==
    {e \in Docs \ {d} : /\ FamilyOf[e] = FamilyOf[d]
                        /\ doc[e].status \in {"indexing", "published"}
                        /\ Overlap(Effective[d], doc[d].expiry,
                                   Effective[e], doc[e].expiry)}

IsClosablePredecessor(e, d) ==
    /\ doc[e].status = "published"
    /\ doc[e].expiry = Never
    /\ Effective[e] < Effective[d]

\* Mutant: an upload is queued in whichever generation is live.
AnyGeneration(g) == g \in Active \union Building /\ UNCHANGED gen

\* ensure_initial_active_generation: the generation publish writes to, created
\* empty when the tenant has none.
ActiveGeneration(g) ==
    \/ /\ Existing = {}
       /\ g = 1
       /\ gen' = [gen EXCEPT ![g] = [NoGen EXCEPT !.status = "active"]]
    \/ /\ g \in Active
       /\ UNCHANGED gen

\* Mutant: only the new document is queued.
QueuedAlone(d) == {d}

\* The documents a publication (re)queues: the new one, and the predecessor
\* whose payload must show its closed interval.
Queued(d) == OverlappingVersions(d) \union {d}

\* publish_policy_document for a draft: the document and its predecessor, whose
\* interval it closes, are (re)queued in the active generation.
PublishDocument(d) ==
    LET closed == OverlappingVersions(d)
        queued == Queued(d)
    IN  /\ doc[d].status = "draft"
        /\ \A e \in closed : IsClosablePredecessor(e, d)
        /\ Cardinality(closed) <= 1
        /\ \E g \in Gens :
            /\ ActiveGeneration(g)
            /\ \A e \in closed : dix[g][e] # "absent"
            /\ \A c \in Chunks : DocOf[c] \in closed =>
                    job[g][c].status # "absent" /\ LockHolders(g, c) = {}
            /\ doc' = [e \in Docs |->
                        IF e = d THEN [doc[e] EXCEPT !.status = "indexing"]
                        ELSE IF e \in closed THEN [doc[e] EXCEPT !.expiry = Effective[d]]
                        ELSE doc[e]]
            /\ dix' = [dix EXCEPT ![g] = [e \in Docs |->
                        IF e \in queued THEN "indexing" ELSE dix[g][e]]]
            /\ job' = [job EXCEPT ![g] = [c \in Chunks |->
                        IF DocOf[c] \in queued THEN PendingJob ELSE job[g][c]]]
        /\ UNCHANGED <<points, worker, failures, crashes>>

\* retry_failed_document: every failed job of the document is queued again;
\* the index row is whichever one the unordered query returns first.
RetryFailedDocument(d) ==
    /\ doc[d].status = "failed"
    /\ \E g \in Gens, c \in ChunksOf(d) : job[g][c].status = "failed"
    /\ doc' = [doc EXCEPT ![d] = [@ EXCEPT !.status = "indexing"]]
    /\ job' = [g \in Gens |-> [c \in Chunks |->
                IF DocOf[c] = d /\ job[g][c].status = "failed" THEN PendingJob
                ELSE job[g][c]]]
    /\ \E g \in Gens :
        /\ dix[g][d] # "absent"
        /\ dix' = [dix EXCEPT ![g][d] = "indexing"]
    /\ UNCHANGED <<gen, points, worker, failures, crashes>>

\* create_building_generation: the published manifest is frozen and queued.
CreateBuilding(g) ==
    /\ Building = {}
    /\ Existing = 1..g-1
    /\ gen' = [gen EXCEPT ![g] = [status |-> "building",
                                  manifest |-> PublishedChunks,
                                  expected |-> Cardinality(PublishedChunks),
                                  completed |-> 0]]
    /\ dix' = [dix EXCEPT ![g] = [d \in Docs |->
                IF d \in Published THEN "indexing" ELSE "absent"]]
    /\ job' = [job EXCEPT ![g] = [c \in Chunks |->
                IF c \in PublishedChunks THEN PendingJob ELSE NoJob]]
    /\ UNCHANGED <<doc, points, worker, failures, crashes>>

\* retry_failed_generation: the failed jobs of a building generation, and the
\* index rows of their documents.
RetryFailedGeneration(g) ==
    LET failed == JobsIn(g, "failed")
        failedDocs == {DocOf[c] : c \in failed}
    IN  /\ gen[g].status = "building"
        /\ failed # {}
        /\ job' = [job EXCEPT ![g] = [c \in Chunks |->
                    IF c \in failed THEN PendingJob ELSE job[g][c]]]
        /\ dix' = [dix EXCEPT ![g] = [d \in Docs |->
                    IF d \in failedDocs THEN "indexing" ELSE dix[g][d]]]
        /\ UNCHANGED <<doc, gen, points, worker, failures, crashes>>

-----------------------------------------------------------------------------
(* Reconciliation, under the tenant lock; a raised error changes nothing *)

\* The published version whose interval d's effective date closed.
Predecessors(g, d) ==
    {p \in Docs : /\ dix[g][p] # "absent"
                  /\ FamilyOf[p] = FamilyOf[d]
                  /\ doc[p].status = "published"
                  /\ doc[p].expiry = Effective[d]}

Ready(g) == {d \in Docs : dix[g][d] = "indexing" /\ AllCompleted(g, d)}

\* Mutant: a successor is published at once.
WaitsForNone(g, d) == FALSE

\* The loop visits the ready rows in document order, so a predecessor that
\* becomes complete in the same pass counts only if it comes first.
WaitsForPredecessor(g, d) ==
    \E p \in Predecessors(g, d) :
        ~(dix[g][p] = "completed" \/ (p \in Ready(g) /\ p < d))

\* Mutant: a refreshed predecessor is published, and counted, again.
PublishableAgain(g) == {d \in Ready(g) : ~WaitsForPredecessor(g, d)}

Publishable(g) ==
    {d \in Ready(g) : doc[d].status = "indexing" /\ ~WaitsForPredecessor(g, d)}

\* Points the active generation does not count yet: those of the documents
\* being indexed into it.
NewPoints(g) ==
    {c \in JobsIn(g, "completed") :
        dix[g][DocOf[c]] = "indexing" /\ doc[DocOf[c]].status = "indexing"}

CountsMatch(g) == QdrantCount(g) = gen[g].completed + Cardinality(NewPoints(g))

ReconcileActive(g) ==
    LET published == Publishable(g)
        refreshed == {d \in Ready(g) : doc[d].status # "indexing"}
        added == Cardinality({c \in Chunks : DocOf[c] \in published})
    IN  /\ g \in Active
        /\ CountsMatch(g)
        /\ IntervalsDisjoint(Published \union published)
        /\ dix' = [dix EXCEPT ![g] = [d \in Docs |->
                    IF d \in published \union refreshed THEN "completed" ELSE dix[g][d]]]
        /\ doc' = [d \in Docs |->
                    IF d \in published THEN [doc[d] EXCEPT !.status = "published"] ELSE doc[d]]
        /\ gen' = [gen EXCEPT ![g] = [@ EXCEPT !.expected = gen[g].expected + added,
                                            !.completed = gen[g].completed + added]]
        /\ UNCHANGED <<job, points, worker, failures, crashes>>

\* The part of reconcile_building_generation before its three outcomes.
CheckedBuilding(g) ==
    /\ gen[g].status = "building"
    /\ QdrantCount(g) = Cardinality(JobsIn(g, "completed"))
    /\ UNCHANGED <<doc, points, worker, failures, crashes>>

CompletedIndexes(g) ==
    [d \in Docs |-> IF dix[g][d] # "absent" /\ AllCompleted(g, d) THEN "completed"
                    ELSE dix[g][d]]

\* Mutant: the counts are not compared with the manifest.
ManifestAssumed(g) == TRUE

\* Every chunk of the generation's manifest is indexed.
ManifestIndexed(g) == Cardinality(JobsIn(g, "completed")) = gen[g].expected

Delta(g) == PublishedChunks \ {c \in Chunks : job[g][c].status # "absent"}

BuildingProgress(g) ==
    LET completed == Cardinality(JobsIn(g, "completed"))
    IN  /\ CheckedBuilding(g)
        /\ ~ManifestIndexed(g)
        /\ gen' = [gen EXCEPT ![g] = [@ EXCEPT !.completed = completed]]
        /\ dix' = [dix EXCEPT ![g] = CompletedIndexes(g)]
        /\ UNCHANGED job

\* Documents published since the manifest was frozen become a new revision.
BuildingDelta(g) ==
    LET completed == Cardinality(JobsIn(g, "completed"))
    IN  /\ CheckedBuilding(g)
        /\ ManifestIndexed(g)
        /\ Delta(g) # {}
        /\ gen' = [gen EXCEPT ![g] = [@ EXCEPT !.completed = completed,
                                              !.expected = gen[g].expected + Cardinality(Delta(g)),
                                              !.manifest = PublishedChunks]]
        /\ dix' = [dix EXCEPT ![g] = [d \in Docs |->
                    IF \E c \in Delta(g) : DocOf[c] = d THEN "indexing"
                    ELSE CompletedIndexes(g)[d]]]
        /\ job' = [job EXCEPT ![g] = [c \in Chunks |->
                    IF c \in Delta(g) THEN PendingJob ELSE job[g][c]]]

SwitchActive(g) ==
    LET completed == Cardinality(JobsIn(g, "completed"))
    IN  /\ CheckedBuilding(g)
        /\ ManifestIndexed(g)
        /\ Delta(g) = {}
        /\ gen[g].manifest = PublishedChunks
        /\ gen' = [h \in Gens |->
                    IF h = g THEN [gen[h] EXCEPT !.status = "active", !.completed = completed]
                    ELSE IF h \in Active THEN [gen[h] EXCEPT !.status = "retired"]
                    ELSE gen[h]]
        /\ dix' = [dix EXCEPT ![g] = CompletedIndexes(g)]
        /\ UNCHANGED job

-----------------------------------------------------------------------------
(* Index workers *)

\* The row _leased_job finds: still running under this worker's token.
HoldsLease(w) ==
    LET j == job[worker[w].g][worker[w].c]
    IN  j.status = "running" /\ j.token = w

\* The job's lease is held by a live worker.
Leased(g, c) ==
    \E v \in Workers : worker[v].g = g /\ worker[v].c = c /\ job[g][c].token = v

\* Mutant: the limit is off by one.
ClaimableOnceMore(g, c) ==
    job[g][c].status \in {"pending", "running"} /\ job[g][c].attempts <= AttemptLimit

\* Mutant: expired leases are not reclaimed.
ClaimablePending(g, c) ==
    job[g][c].status = "pending" /\ job[g][c].attempts < AttemptLimit

\* A pending job, or a running one whose lease has expired, with attempts left.
Claimable(g, c) ==
    job[g][c].status \in {"pending", "running"} /\ job[g][c].attempts < AttemptLimit

\* claim_index_job: a claimable job whose row is not locked (SKIP LOCKED).  A
\* lease expires at any time; outliving one is a fault of its worker.
ClaimJob(w, g, c) ==
    /\ worker[w].pc = "idle"
    /\ Claimable(g, c)
    /\ LockHolders(g, c) = {}
    /\ IF Leased(g, c) THEN crashes < MaxCrashes /\ crashes' = crashes + 1
       ELSE UNCHANGED crashes
    /\ job' = [job EXCEPT ![g][c] = [status |-> "running", attempts |-> @.attempts + 1,
                                     token |-> w]]
    /\ worker' = [worker EXCEPT ![w] = [Idle EXCEPT !.pc = "claimed", !.g = g, !.c = c]]
    /\ UNCHANGED <<doc, gen, dix, points, failures>>

SourceValid(g, c) ==
    /\ doc[DocOf[c]].status \in {"indexing", "published"}
    /\ gen[g].status \in {"active", "building"}

\* execute_claimed_job up to the Qdrant call: lock the leased row, read the
\* document and its interval, or raise POLICY_INDEX_SOURCE_INVALID.
BeginExecute(w) ==
    LET g == worker[w].g
        c == worker[w].c
    IN  /\ worker[w].pc = "claimed"
        /\ HoldsLease(w)
        /\ worker' = IF SourceValid(g, c)
                     THEN [worker EXCEPT ![w] = [@ EXCEPT !.pc = "executing",
                                                     !.expiry = doc[DocOf[c]].expiry]]
                     ELSE [worker EXCEPT ![w] = [@ EXCEPT !.pc = "errored"]]
        /\ UNCHANGED <<doc, gen, dix, job, points, failures, crashes>>

\* POLICY_INDEX_LEASE_LOST, raised by _leased_job or after the upsert.
LoseLease(w) ==
    /\ worker[w].pc \in {"claimed", "upserted", "errored"}
    /\ ~HoldsLease(w)
    /\ worker' = [worker EXCEPT ![w] = Idle]
    /\ UNCHANGED <<doc, gen, dix, job, points, failures, crashes>>

\* Mutant: points are written into the collection of the first generation.
WriteConfigured(w) ==
    points' = [points EXCEPT ![CollectionOf[1]][worker[w].c] =
                    [gen |-> worker[w].g, expiry |-> worker[w].expiry]]

\* upsert_chunks: the point id is the chunk id, in the generation's collection.
WritePoint(w) ==
    points' = [points EXCEPT ![CollectionOf[worker[w].g]][worker[w].c] =
                    [gen |-> worker[w].g, expiry |-> worker[w].expiry]]

UpsertPoint(w) ==
    /\ worker[w].pc = "executing"
    /\ WritePoint(w)
    /\ worker' = [worker EXCEPT ![w] = [@ EXCEPT !.pc = "upserted"]]
    /\ UNCHANGED <<doc, gen, dix, job, failures, crashes>>

\* The embedding or Qdrant call fails, before or after its effect.
UpsertFails(w) ==
    /\ worker[w].pc = "executing"
    /\ failures < MaxFailures
    /\ WritePoint(w) \/ UNCHANGED points
    /\ worker' = [worker EXCEPT ![w] = [@ EXCEPT !.pc = "errored"]]
    /\ failures' = failures + 1
    /\ UNCHANGED <<doc, gen, dix, job, crashes>>

CompleteJob(w) ==
    /\ worker[w].pc = "upserted"
    /\ HoldsLease(w)
    /\ job' = [job EXCEPT ![worker[w].g][worker[w].c] =
                    [@ EXCEPT !.status = "completed", !.token = None]]
    /\ worker' = [worker EXCEPT ![w] = Idle]
    /\ UNCHANGED <<doc, gen, dix, points, failures, crashes>>

\* record_job_failure with attempts left: the job is queued again.
RecordRetryableFailure(w) ==
    LET g == worker[w].g
        c == worker[w].c
    IN  /\ worker[w].pc = "errored"
        /\ HoldsLease(w)
        /\ job[g][c].attempts < AttemptLimit
        /\ job' = [job EXCEPT ![g][c] = [@ EXCEPT !.status = "pending", !.token = None]]
        /\ worker' = [worker EXCEPT ![w] = Idle]
        /\ UNCHANGED <<doc, gen, dix, points, failures, crashes>>

\* record_job_failure at the attempt limit reads the unfinished siblings
\* without locking them ...
BeginTerminalFailure(w) ==
    LET g == worker[w].g
        c == worker[w].c
        siblings == ChunksOf(DocOf[c]) \ {c}
    IN  /\ worker[w].pc = "errored"
        /\ HoldsLease(w)
        /\ job[g][c].attempts >= AttemptLimit
        /\ worker' = [worker EXCEPT ![w] =
                [@ EXCEPT !.pc = "failing",
                          !.pending = siblings \intersect JobsIn(g, "pending"),
                          !.running = siblings \intersect JobsIn(g, "running")]]
        /\ UNCHANGED <<doc, gen, dix, job, points, failures, crashes>>

Siblings(w) == worker[w].pending \union worker[w].running

\* The lease columns of a sibling read as pending are not written, so one
\* claimed since breaks the lease_consistent constraint.
SiblingsConsistent(w) ==
    \A c \in worker[w].pending : job[worker[w].g][c].token = None

\* Mutant: a published document is failed too.
FailAnyDocument(d) == [doc EXCEPT ![d] = [@ EXCEPT !.status = "failed"]]

\* Only a document that is still being indexed fails with its job.
FailDocument(d) ==
    IF doc[d].status = "indexing" THEN [doc EXCEPT ![d] = [@ EXCEPT !.status = "failed"]] ELSE doc

\* ... and then writes them, waiting for their row locks, as read.
FinishTerminalFailure(w) ==
    LET g == worker[w].g
        d == DocOf[worker[w].c]
        failed == Siblings(w) \union {worker[w].c}
    IN  /\ worker[w].pc = "failing"
        /\ \A c \in Siblings(w) : LockHolders(g, c) = {}
        /\ SiblingsConsistent(w)
        /\ job' = [job EXCEPT ![g] = [c \in Chunks |->
                    IF c \in failed
                    THEN [job[g][c] EXCEPT !.status = "failed", !.token = None]
                    ELSE job[g][c]]]
        /\ dix' = [dix EXCEPT ![g][d] = "failed"]
        /\ doc' = FailDocument(d)
        /\ worker' = [worker EXCEPT ![w] = Idle]
        /\ UNCHANGED <<gen, points, failures, crashes>>

\* The failure transaction rolls back: a constraint is broken, or PostgreSQL
\* breaks a deadlock between two failing siblings.
AbortTerminalFailure(w) ==
    /\ worker[w].pc = "failing"
    /\ \/ /\ \A c \in Siblings(w) : LockHolders(worker[w].g, c) = {}
          /\ ~SiblingsConsistent(w)
       \/ \E v \in Workers \ {w} :
            /\ worker[v].pc = "failing"
            /\ worker[v].g = worker[w].g
            /\ worker[v].c \in Siblings(w)
            /\ worker[w].c \in Siblings(v)
    /\ worker' = [worker EXCEPT ![w] = Idle]
    /\ UNCHANGED <<doc, gen, dix, job, points, failures, crashes>>

\* The process dies; its transaction rolls back, the Qdrant write stays.
Crash(w) ==
    /\ worker[w].pc # "idle"
    /\ crashes < MaxCrashes
    /\ worker' = [worker EXCEPT ![w] = Idle]
    /\ crashes' = crashes + 1
    /\ UNCHANGED <<doc, gen, dix, job, points, failures>>

-----------------------------------------------------------------------------
(* Specification *)

Request ==
    \/ \E d \in Docs : PublishDocument(d) \/ RetryFailedDocument(d)
    \/ \E g \in Gens : CreateBuilding(g) \/ RetryFailedGeneration(g)

Reconcile ==
    \E g \in Gens :
        \/ ReconcileActive(g)
        \/ BuildingProgress(g)
        \/ BuildingDelta(g)
        \/ SwitchActive(g)

Proceed(w) ==
    \/ BeginExecute(w)
    \/ LoseLease(w)
    \/ UpsertPoint(w)
    \/ CompleteJob(w)
    \/ RecordRetryableFailure(w)
    \/ BeginTerminalFailure(w)
    \/ FinishTerminalFailure(w)
    \/ AbortTerminalFailure(w)

Claim(w) == \E g \in Gens, c \in Chunks : ClaimJob(w, g, c)

WorkerFault(w) == UpsertFails(w) \/ Crash(w)

Next ==
    \/ Request
    \/ Reconcile
    \/ \E w \in Workers : Claim(w) \/ Proceed(w) \/ WorkerFault(w)

Spec == Init /\ [][Next]_vars

\* The deployment keeps calling the workers and the two reconciliations; it
\* owes nothing to operators' requests, to crashes or to failures.
FairSpec ==
    /\ Spec
    /\ \A w \in Workers : WF_vars(Claim(w)) /\ WF_vars(Proceed(w))
    /\ \A g \in Gens : WF_vars(ReconcileActive(g))
    /\ WF_vars(Reconcile)

-----------------------------------------------------------------------------
(* Properties *)

\* Every chunk of a published document has a point in the active generation,
\* through crashes, retries, interval closings and generation switches
\* (specs/005 section 5.2, no vector may silently be missing).
NoSilentMissingVectors ==
    \A g \in Active : PublishedChunks \subseteq Indexed(g)

\* An indexed published document is found by its dates: the payload of each
\* of its points has the expiry candidates.py compares with PostgreSQL's.
ServedIntervalCurrent ==
    \A g \in Active, d \in Published :
        dix[g][d] = "completed" =>
            \A c \in ChunksOf(d) : points[CollectionOf[g]][c].expiry = doc[d].expiry

\* A published version is not found on the days of a later one of its family,
\* once it is indexed, and from the start if the later one succeeds it: a
\* successor is published only after its predecessor's points are closed.
SearchUnambiguous ==
    \A g \in Active, c, e \in PublishedChunks :
        /\ FamilyOf[DocOf[c]] = FamilyOf[DocOf[e]]
        /\ Effective[DocOf[c]] < Effective[DocOf[e]]
        /\ \/ dix[g][DocOf[c]] = "completed"
           \/ doc[DocOf[c]].expiry = Effective[DocOf[e]]
        => points[CollectionOf[g]][c].expiry <= Effective[DocOf[e]]

\* The active generation counts exactly the published chunks, the figure
\* reconcile_active_generation compares with Qdrant.
ActiveCountsPublished ==
    \A g \in Active : /\ gen[g].completed = Cardinality(PublishedChunks)
                      /\ gen[g].expected = gen[g].completed

\* A transaction that holds a job's row keeps its lease to the end, across
\* the Qdrant call: no reclaim, retry or sibling failure gets in.
LeaseHeldThroughUpsert ==
    \A w \in Workers :
        worker[w].pc \in {"executing", "upserted", "failing"} => HoldsLease(w)

Versions == INSTANCE PolicyVersions

\* Whatever workers, failures, retries and reconciliations do to the index,
\* documents are published, failed and closed as PolicyVersions says: a
\* published version is never withdrawn, and its interval is closed once.
ImplementsVersions == Versions!Spec

\* A building generation takes new documents only as an explicit delta, once
\* all it was frozen with is indexed.
BuildingManifestFrozen ==
    [][\A g \in Building, c \in Chunks :
        job[g][c].status = "absent" /\ job'[g][c].status # "absent" =>
            JobsIn(g, "completed") = gen[g].manifest]_vars

\* Building a generation in a collection of its own leaves the active one's
\* points alone (specs/005 line 745: the old generation is not overwritten in
\* place), and crashed or late workers do not write into it.
ActivePointsKept ==
    [][\A g \in Active : Indexed(g) \subseteq Indexed(g)']_vars

\* With fewer crashes than attempts and no failure, every publication settles.
EveryPublicationSettles ==
    \A d \in Docs :
        doc[d].status = "indexing" ~> doc[d].status \in {"published", "failed"}

-----------------------------------------------------------------------------
(* What the documents say and the code does not keep *)

\* A job whose last attempt died with its worker still ends in failed
\* (specs/005 line 209: an expired running job is reclaimed, and reaching the
\* retry limit is a terminal failure).
ExhaustedLeaseFails ==
    \A g \in Gens, c \in Chunks :
        (job[g][c].status = "running" /\ job[g][c].attempts = AttemptLimit)
            ~> job[g][c].status # "running"
=============================================================================
