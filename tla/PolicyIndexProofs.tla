------------------------- MODULE PolicyIndexProofs -------------------------
(***************************************************************************)
(* Safety of the policy index, for every set of documents, chunks, workers *)
(* and every bound.                                                        *)
(***************************************************************************)
EXTENDS PolicyIndex, FiniteSetTheorems, TLAPS

\* A worker with work has a job.
BusyWorkers ==
    \A w \in Workers : worker[w].pc # "idle" =>
        worker[w].g \in Gens /\ worker[w].c \in Chunks

TypeInv == TypeOK /\ BusyWorkers

LEMMA ChunkSets ==
    ASSUME NEW S \in SUBSET Chunks
    PROVE  IsFiniteSet(S) /\ Cardinality(S) \in Nat
BY ChunksAssumption, FS_Subset, FS_CardinalityType

LEMMA Rows ==
    /\ NoJob \in JobRow /\ PendingJob \in JobRow
    /\ NoGen \in GenRow
    /\ NoPoint \in Point
    /\ Idle \in WorkerState
BY BoundsAssumption, DatesAssumption
DEF NoJob, PendingJob, JobRow, JobStatus, NoGen, GenRow, GenStatus, NoPoint, Point, Idle,
    WorkerState

LEMMA DocUpdates ==
    ASSUME NEW r \in DocRow
    PROVE  /\ \A s \in DocStatus : [r EXCEPT !.status = s] \in DocRow
           /\ \A e \in 0..Never : [r EXCEPT !.expiry = e] \in DocRow
BY DEF DocRow

LEMMA GenUpdates ==
    ASSUME NEW r \in GenRow, NEW n \in Nat, NEW m \in Nat
    PROVE  /\ \A s \in GenStatus : [r EXCEPT !.status = s] \in GenRow
           /\ [r EXCEPT !.completed = n] \in GenRow
           /\ \A s \in GenStatus : [r EXCEPT !.status = s, !.completed = n] \in GenRow
           /\ [r EXCEPT !.expected = r.expected + n, !.completed = r.completed + n] \in GenRow
           /\ \A C \in SUBSET Chunks :
                [r EXCEPT !.completed = n, !.expected = r.expected + m, !.manifest = C] \in GenRow
<1>1. /\ r.status \in GenStatus /\ r.manifest \in SUBSET Chunks
      /\ r.expected + n \in Nat /\ r.expected + m \in Nat /\ r.completed + n \in Nat
  BY DEF GenRow
<1>2. /\ \A s \in GenStatus : [r EXCEPT !.status = s] \in GenRow
      /\ [r EXCEPT !.completed = n] \in GenRow
      /\ \A s \in GenStatus : [r EXCEPT !.status = s, !.completed = n] \in GenRow
  BY DEF GenRow
<1>3. [r EXCEPT !.expected = r.expected + n, !.completed = r.completed + n] \in GenRow
  BY <1>1 DEF GenRow
<1>4. ASSUME NEW C \in SUBSET Chunks
      PROVE  [r EXCEPT !.completed = n, !.expected = r.expected + m, !.manifest = C] \in GenRow
  BY <1>1 DEF GenRow
<1> QED
  BY <1>2, <1>3, <1>4

LEMMA JobUpdates ==
    ASSUME NEW r \in JobRow
    PROVE  \A s \in JobStatus : [r EXCEPT !.status = s, !.token = None] \in JobRow
BY DEF JobRow

LEMMA JobStatusUpdate ==
    ASSUME NEW r \in JobRow, NEW s \in JobStatus
    PROVE  [r EXCEPT !.status = s, !.token = None].status = s
BY DEF JobRow

LEMMA WorkerUpdates ==
    ASSUME NEW r \in WorkerState
    PROVE  /\ \A pc \in {"executing", "upserted", "errored", "failing"} :
                [r EXCEPT !.pc = pc] \in WorkerState
           /\ \A e \in 0..Never : [r EXCEPT !.pc = "executing", !.expiry = e] \in WorkerState
           /\ \A P, R \in SUBSET Chunks :
                [r EXCEPT !.pc = "failing", !.pending = P, !.running = R] \in WorkerState
           /\ \A g \in Gens, c \in Chunks :
                [Idle EXCEPT !.pc = "claimed", !.g = g, !.c = c] \in WorkerState
BY Rows DEF WorkerState

LEMMA Dates == \A d \in Docs : Effective[d] \in 0..Never /\ Expiry[d] \in 0..Never
BY DatesAssumption

LEMMA Statuses ==
    /\ {"draft", "indexing", "published", "failed"} \subseteq DocStatus
    /\ {"absent", "building", "active", "retired"} \subseteq GenStatus
    /\ {"absent", "indexing", "completed", "failed"} \subseteq IndexStatus
    /\ {"absent", "pending", "running", "completed", "failed"} \subseteq JobStatus
BY DEF DocStatus, GenStatus, IndexStatus, JobStatus

LEMMA TypeInit == Init => TypeInv
<1> SUFFICES ASSUME Init PROVE TypeInv
    OBVIOUS
<1>1. \A d \in Docs : [status |-> "draft", expiry |-> Expiry[d]] \in DocRow
  BY Dates DEF DocRow, DocStatus
<1>2. TypeOK
  BY <1>1, Rows, Statuses, BoundsAssumption DEF Init, TypeOK
<1>3. BusyWorkers
  BY DEF Init, BusyWorkers, Idle
<1> QED
  BY <1>2, <1>3 DEF TypeInv

LEMMA TypeStep == TypeInv /\ [Next]_vars => TypeInv'
<1> SUFFICES ASSUME TypeInv, [Next]_vars PROVE TypeInv'
    OBVIOUS
<1> USE Statuses DEF TypeInv, TypeOK
<1>1. CASE \E d \in Docs : PublishDocument(d)
  <2>1. PICK d \in Docs : PublishDocument(d)
    BY <1>1
  <2>2. doc' \in [Docs -> DocRow]
    BY <2>1, DocUpdates, Dates DEF PublishDocument
  <2>3. gen' \in [Gens -> GenRow]
    <3>1. [NoGen EXCEPT !.status = "active"] \in GenRow
      BY Rows DEF GenRow
    <3> QED
      BY <2>1, <3>1 DEF PublishDocument, ActiveGeneration
  <2>4. dix' \in [Gens -> [Docs -> IndexStatus]] /\ job' \in [Gens -> [Chunks -> JobRow]]
    BY <2>1, Rows DEF PublishDocument
  <2> QED
    BY <2>1, <2>2, <2>3, <2>4 DEF PublishDocument, BusyWorkers
<1>2. CASE \E d \in Docs : RetryFailedDocument(d)
  BY <1>2, Rows, DocUpdates DEF RetryFailedDocument, BusyWorkers
<1>3. CASE \E g \in Gens : CreateBuilding(g)
  <2>1. PICK g \in Gens : CreateBuilding(g)
    BY <1>3
  <2>2. PublishedChunks \in SUBSET Chunks /\ Cardinality(PublishedChunks) \in Nat
    BY ChunkSets DEF PublishedChunks
  <2>3. [status |-> "building", manifest |-> PublishedChunks,
         expected |-> Cardinality(PublishedChunks), completed |-> 0] \in GenRow
    BY <2>2 DEF GenRow
  <2>4. gen' \in [Gens -> GenRow]
    BY <2>1, <2>3 DEF CreateBuilding
  <2>5. dix' \in [Gens -> [Docs -> IndexStatus]] /\ job' \in [Gens -> [Chunks -> JobRow]]
    BY <2>1, Rows DEF CreateBuilding
  <2> QED
    BY <2>1, <2>4, <2>5 DEF CreateBuilding, BusyWorkers
<1>4. CASE \E g \in Gens : RetryFailedGeneration(g)
  BY <1>4, Rows DEF RetryFailedGeneration, BusyWorkers
<1>5. CASE \E g \in Gens : ReconcileActive(g)
  <2>1. PICK g \in Gens : ReconcileActive(g)
    BY <1>5
  <2> DEFINE added == Cardinality({c \in Chunks : DocOf[c] \in Publishable(g)})
  <2>2. added \in Nat
    BY ChunkSets
  <2>3. gen' = [gen EXCEPT ![g] = [@ EXCEPT !.expected = gen[g].expected + added,
                                            !.completed = gen[g].completed + added]]
    BY <2>1 DEF ReconcileActive
  <2> HIDE DEF added
  <2>4. gen' \in [Gens -> GenRow]
    <3>1. [gen[g] EXCEPT !.expected = gen[g].expected + added,
                        !.completed = gen[g].completed + added] \in GenRow
      BY <2>2, GenUpdates
    <3> QED
      BY <2>3, <3>1
  <2>5. doc' \in [Docs -> DocRow] /\ dix' \in [Gens -> [Docs -> IndexStatus]]
    BY <2>1, DocUpdates DEF ReconcileActive
  <2> QED
    BY <2>1, <2>4, <2>5 DEF ReconcileActive, BusyWorkers
<1>6. CASE \E g \in Gens : BuildingProgress(g) \/ BuildingDelta(g) \/ SwitchActive(g)
  <2>1. PICK g \in Gens : BuildingProgress(g) \/ BuildingDelta(g) \/ SwitchActive(g)
    BY <1>6
  <2>2. CheckedBuilding(g)
    BY <2>1 DEF BuildingProgress, BuildingDelta, SwitchActive
  <2>3. Delta(g) \in SUBSET Chunks /\ PublishedChunks \in SUBSET Chunks
    BY DEF Delta, PublishedChunks
  <2>4. Cardinality(Delta(g)) \in Nat /\ Cardinality(JobsIn(g, "completed")) \in Nat
    BY <2>3, ChunkSets DEF JobsIn
  <2>5. CompletedIndexes(g) \in [Docs -> IndexStatus]
    BY DEF CompletedIndexes
  <2>6. CASE BuildingProgress(g)
    <3>1. gen' \in [Gens -> GenRow] /\ dix' \in [Gens -> [Docs -> IndexStatus]]
      BY <2>4, <2>5, <2>6, GenUpdates DEF BuildingProgress
    <3> QED
      BY <2>2, <2>6, <3>1 DEF BuildingProgress, CheckedBuilding, BusyWorkers
  <2>7. CASE BuildingDelta(g)
    <3> DEFINE row == [gen[g] EXCEPT !.completed = Cardinality(JobsIn(g, "completed")),
                                     !.expected = gen[g].expected + Cardinality(Delta(g)),
                                     !.manifest = PublishedChunks]
    <3>0. row \in GenRow
      BY <2>3, <2>4, GenUpdates
    <3>a. gen' = [gen EXCEPT ![g] = row]
      BY <2>7 DEF BuildingDelta
    <3> HIDE DEF row
    <3>1. gen' \in [Gens -> GenRow]
      BY <3>0, <3>a
    <3>2. dix' \in [Gens -> [Docs -> IndexStatus]] /\ job' \in [Gens -> [Chunks -> JobRow]]
      BY <2>5, <2>7, Rows DEF BuildingDelta
    <3> QED
      BY <2>2, <2>7, <3>1, <3>2 DEF BuildingDelta, CheckedBuilding, BusyWorkers
  <2>8. CASE SwitchActive(g)
    <3>1. gen' \in [Gens -> GenRow] /\ dix' \in [Gens -> [Docs -> IndexStatus]]
      BY <2>4, <2>5, <2>8, GenUpdates DEF SwitchActive
    <3> QED
      BY <2>2, <2>8, <3>1 DEF SwitchActive, CheckedBuilding, BusyWorkers
  <2> QED
    BY <2>1, <2>6, <2>7, <2>8
<1>7. CASE \E w \in Workers, g \in Gens, c \in Chunks : ClaimJob(w, g, c)
  <2>1. PICK w \in Workers, g \in Gens, c \in Chunks : ClaimJob(w, g, c)
    BY <1>7
  <2>2. [status |-> "running", attempts |-> job[g][c].attempts + 1, token |-> w] \in JobRow
    BY <2>1, BoundsAssumption DEF ClaimJob, Claimable, JobRow, JobStatus
  <2>3. job' \in [Gens -> [Chunks -> JobRow]]
    BY <2>1, <2>2 DEF ClaimJob
  <2>4. crashes' \in 0..MaxCrashes
    BY <2>1, BoundsAssumption DEF ClaimJob
  <2>5. worker' \in [Workers -> WorkerState]
    BY <2>1, WorkerUpdates DEF ClaimJob
  <2>6. BusyWorkers'
    BY <2>1 DEF ClaimJob, BusyWorkers, Idle
  <2> QED
    BY <2>1, <2>3, <2>4, <2>5, <2>6 DEF ClaimJob
<1>8. CASE \E w \in Workers : BeginExecute(w)
  <2>1. PICK w \in Workers : BeginExecute(w)
    BY <1>8
  <2>2. DocOf[worker[w].c] \in Docs
    BY <2>1, ChunksAssumption DEF BeginExecute, BusyWorkers
  <2>3. doc[DocOf[worker[w].c]].expiry \in 0..Never
    BY <2>2 DEF DocRow
  <2>4. worker' \in [Workers -> WorkerState]
    BY <2>1, <2>3, WorkerUpdates DEF BeginExecute
  <2>5. BusyWorkers'
    BY <2>1 DEF BeginExecute, BusyWorkers, WorkerState
  <2> QED
    BY <2>1, <2>4, <2>5 DEF BeginExecute
<1>9. CASE \E w \in Workers : UpsertPoint(w) \/ UpsertFails(w)
  <2>1. PICK w \in Workers : UpsertPoint(w) \/ UpsertFails(w)
    BY <1>9
  <2>2. [gen |-> worker[w].g, expiry |-> worker[w].expiry] \in Point
    BY DEF WorkerState, Point
  <2>3. WritePoint(w) => points' \in [Collections -> [Chunks -> Point]]
    <3> DEFINE p == [gen |-> worker[w].g, expiry |-> worker[w].expiry]
               k == CollectionOf[worker[w].g]
               c == worker[w].c
    <3>1. WritePoint(w) => points' = [points EXCEPT ![k][c] = p]
      BY DEF WritePoint
    <3>2. p \in Point
      BY <2>2
    <3> HIDE DEF p, k, c
    <3>3. \A f \in [Chunks -> Point] : [f EXCEPT ![c] = p] \in [Chunks -> Point]
      BY <3>2
    <3>4. \A x \in Collections : [points[x] EXCEPT ![c] = p] \in [Chunks -> Point]
      BY <3>3
    <3>5. [points EXCEPT ![k][c] = p] \in [Collections -> [Chunks -> Point]]
      BY <3>4
    <3> QED
      BY <3>1, <3>5
  <2>4. CASE UpsertPoint(w)
    <3>1. worker' \in [Workers -> WorkerState]
      BY <2>4, WorkerUpdates DEF UpsertPoint
    <3>2. BusyWorkers'
      BY <2>4 DEF UpsertPoint, BusyWorkers, WorkerState
    <3> QED
      BY <2>3, <2>4, <3>1, <3>2 DEF UpsertPoint
  <2>5. CASE UpsertFails(w)
    <3>1. worker' \in [Workers -> WorkerState]
      BY <2>5, WorkerUpdates DEF UpsertFails
    <3>2. BusyWorkers'
      BY <2>5 DEF UpsertFails, BusyWorkers, WorkerState
    <3>3. failures' \in 0..MaxFailures
      BY <2>5, BoundsAssumption DEF UpsertFails
    <3> QED
      BY <2>3, <2>5, <3>1, <3>2, <3>3 DEF UpsertFails
  <2> QED
    BY <2>1, <2>4, <2>5
<1>10. CASE \E w \in Workers : LoseLease(w) \/ CompleteJob(w) \/ RecordRetryableFailure(w)
                               \/ AbortTerminalFailure(w) \/ Crash(w)
  <2>1. PICK w \in Workers : LoseLease(w) \/ CompleteJob(w) \/ RecordRetryableFailure(w)
                             \/ AbortTerminalFailure(w) \/ Crash(w)
    BY <1>10
  <2>2. worker' = [worker EXCEPT ![w] = Idle]
    BY <2>1 DEF LoseLease, CompleteJob, RecordRetryableFailure, AbortTerminalFailure, Crash
  <2>3. worker' \in [Workers -> WorkerState] /\ BusyWorkers'
    BY <2>2, Rows DEF BusyWorkers, Idle
  <2>4. CASE CompleteJob(w)
    BY <2>3, <2>4, JobUpdates DEF CompleteJob, BusyWorkers
  <2>5. CASE RecordRetryableFailure(w)
    BY <2>3, <2>5, JobUpdates DEF RecordRetryableFailure, BusyWorkers
  <2>6. CASE Crash(w)
    BY <2>3, <2>6, BoundsAssumption DEF Crash
  <2> QED
    BY <2>1, <2>3, <2>4, <2>5, <2>6 DEF LoseLease, AbortTerminalFailure
<1>11. CASE \E w \in Workers : BeginTerminalFailure(w)
  <2>1. PICK w \in Workers : BeginTerminalFailure(w)
    BY <1>11
  <2>2. worker' \in [Workers -> WorkerState]
    BY <2>1, WorkerUpdates DEF BeginTerminalFailure, JobsIn
  <2>3. BusyWorkers'
    BY <2>1 DEF BeginTerminalFailure, BusyWorkers, WorkerState
  <2> QED
    BY <2>1, <2>2, <2>3 DEF BeginTerminalFailure
<1>12. CASE \E w \in Workers : FinishTerminalFailure(w)
  <2>1. PICK w \in Workers : FinishTerminalFailure(w)
    BY <1>12
  <2>2. worker' \in [Workers -> WorkerState] /\ BusyWorkers'
    BY <2>1, Rows DEF FinishTerminalFailure, BusyWorkers, Idle
  <2>3. job' \in [Gens -> [Chunks -> JobRow]]
    BY <2>1, JobUpdates DEF FinishTerminalFailure
  <2>4. doc' \in [Docs -> DocRow] /\ dix' \in [Gens -> [Docs -> IndexStatus]]
    BY <2>1, DocUpdates DEF FinishTerminalFailure, FailDocument
  <2> QED
    BY <2>1, <2>2, <2>3, <2>4 DEF FinishTerminalFailure
<1>13. CASE UNCHANGED vars
  BY <1>13 DEF vars, BusyWorkers
<1> QED
  BY <1>1, <1>2, <1>3, <1>4, <1>5, <1>6, <1>7, <1>8, <1>9, <1>10, <1>11, <1>12, <1>13
  DEF Next, Request, Reconcile, Claim, Proceed, WorkerFault

\* Every row, point and worker keeps its type.
THEOREM TypeCorrect == Spec => []TypeOK
<1>1. TypeInv => TypeOK
  BY DEF TypeInv
<1> QED
  BY <1>1, TypeInit, TypeStep, PTL DEF Spec

-----------------------------------------------------------------------------
(* Leases *)

\* A document nobody published has no job yet.
DraftsUnqueued ==
    \A d \in Docs : doc[d].status = "draft" =>
        \A g \in Gens, c \in Chunks : DocOf[c] = d => job[g][c].status = "absent"

\* A generation that does not exist has no job.
AbsentUnqueued ==
    \A g \in Gens : gen[g].status = "absent" => \A c \in Chunks : job[g][c] = NoJob

\* What a failing worker is about to fail are jobs.
SiblingsQueued ==
    \A w \in Workers : worker[w].pc = "failing" =>
        \A c \in Chunks \intersect Siblings(w) : job[worker[w].g][c].status # "absent"

LeaseInv ==
    LeaseHeldThroughUpsert /\ DraftsUnqueued /\ AbsentUnqueued /\ SiblingsQueued

LEMMA LeaseInit == Init => LeaseInv
BY DEF Init, LeaseInv, LeaseHeldThroughUpsert, DraftsUnqueued, AbsentUnqueued, SiblingsQueued,
       NoJob, Idle

\* The worker whose lease a job row names.
LEMMA Holder ==
    ASSUME TypeInv, LeaseInv, NEW w \in Workers, NEW g \in Gens, NEW c \in Chunks,
           w \in LockHolders(g, c)
    PROVE  job[g][c].status = "running" /\ job[g][c].token = w
BY DEF LeaseInv, LeaseHeldThroughUpsert, HoldsLease, LockHolders

\* A step that changes a job leaves it queued, for a document and in a
\* generation that exist, and its row was locked by nobody else.
LEMMA JobStep ==
    ASSUME TypeInv, LeaseInv, Next, NEW g \in Gens, NEW c \in Chunks, job'[g][c] # job[g][c]
    PROVE  /\ job'[g][c].status # "absent"
           /\ doc'[DocOf[c]].status # "draft"
           /\ gen'[g].status # "absent"
           /\ \A v \in LockHolders(g, c) : worker'[v] = Idle
<1> DEFINE Goal == /\ job'[g][c].status # "absent"
                   /\ doc'[DocOf[c]].status # "draft"
                   /\ gen'[g].status # "absent"
                   /\ \A v \in LockHolders(g, c) : worker'[v] = Idle
<1>0. DocOf[c] \in Docs
  BY ChunksAssumption
<1> USE <1>0 DEF TypeInv, TypeOK
<1>q. job[g][c].status # "absent" => doc[DocOf[c]].status # "draft" /\ gen[g].status # "absent"
  BY DEF LeaseInv, DraftsUnqueued, AbsentUnqueued, NoJob
<1>h. \A v \in LockHolders(g, c) :
        v \in Workers /\ job[g][c].status = "running" /\ job[g][c].token = v
  BY Holder DEF LockHolders
<1>1. ASSUME NEW d \in Docs, PublishDocument(d) PROVE Goal
  <2>1. doc[d].status = "draft" /\ DocOf[c] \in Queued(d)
    BY <1>1 DEF PublishDocument
  <2>2. CASE DocOf[c] = d
    <3>1. job[g][c].status = "absent"
      BY <2>1, <2>2 DEF LeaseInv, DraftsUnqueued
    <3> QED
      BY <1>1, <1>h, <2>2, <3>1 DEF PublishDocument, ActiveGeneration, PendingJob, Existing,
         NoGen, DocRow, Active
  <2>3. CASE DocOf[c] # d
    <3>1. DocOf[c] \in OverlappingVersions(d)
      BY <2>1, <2>3 DEF Queued
    <3> QED
      BY <1>1, <2>3, <3>1 DEF PublishDocument, ActiveGeneration, PendingJob, Existing,
         NoGen, DocRow, Active, IsClosablePredecessor
  <2> QED
    BY <2>2, <2>3
<1>2. ASSUME NEW d \in Docs, RetryFailedDocument(d) PROVE Goal
  BY <1>2, <1>q, <1>h DEF RetryFailedDocument, PendingJob, DocRow
<1>3. ASSUME NEW b \in Gens, CreateBuilding(b) PROVE Goal
  <2>1. b = g
    BY <1>3 DEF CreateBuilding
  <2>2. gen[g].status = "absent"
    BY <1>3, <2>1 DEF CreateBuilding, Existing, Gens
  <2>3. job[g][c] = NoJob
    BY <2>2 DEF LeaseInv, AbsentUnqueued
  <2> QED
    BY <1>3, <1>h, <2>1, <2>3 DEF CreateBuilding, PendingJob, NoJob, PublishedChunks
<1>4. ASSUME NEW b \in Gens, RetryFailedGeneration(b) PROVE Goal
  BY <1>4, <1>q, <1>h DEF RetryFailedGeneration, PendingJob, JobsIn
<1>5. ASSUME NEW b \in Gens, ReconcileActive(b) \/ BuildingProgress(b) \/ SwitchActive(b) PROVE Goal
  BY <1>5 DEF ReconcileActive, BuildingProgress, SwitchActive
<1>6. ASSUME NEW b \in Gens, BuildingDelta(b) PROVE Goal
  <2>1. b = g /\ c \in Delta(g)
    BY <1>6 DEF BuildingDelta
  <2>2. job[g][c].status = "absent" /\ doc[DocOf[c]].status = "published"
    BY <2>1 DEF Delta, PublishedChunks
  <2>3. gen'[g].status = gen[g].status /\ gen[g].status = "building"
    BY <1>6, <2>1 DEF BuildingDelta, CheckedBuilding, GenRow
  <2> QED
    BY <1>6, <1>h, <2>1, <2>2, <2>3 DEF BuildingDelta, CheckedBuilding, PendingJob
<1>7. ASSUME NEW w \in Workers, NEW b \in Gens, NEW e \in Chunks, ClaimJob(w, b, e) PROVE Goal
  <2>1. b = g /\ e = c
    BY <1>7 DEF ClaimJob
  <2> QED
    BY <1>7, <1>q, <2>1 DEF ClaimJob, Claimable
<1>8. ASSUME NEW w \in Workers, CompleteJob(w) \/ RecordRetryableFailure(w) PROVE Goal
  <2>1. worker[w].g = g /\ worker[w].c = c /\ HoldsLease(w)
    BY <1>8 DEF CompleteJob, RecordRetryableFailure
  <2>2. job[g][c].status = "running" /\ job[g][c].token = w
    BY <2>1 DEF HoldsLease
  <2>3. worker' = [worker EXCEPT ![w] = Idle] /\ doc' = doc /\ gen' = gen
    BY <1>8 DEF CompleteJob, RecordRetryableFailure
  <2>4. job'[g][c].status \in {"completed", "pending"}
    <3>1. PICK s \in {"completed", "pending"} :
            job' = [job EXCEPT ![g][c] = [job[g][c] EXCEPT !.status = s, !.token = None]]
      BY <1>8, <2>1 DEF CompleteJob, RecordRetryableFailure
    <3>2. job'[g][c] = [job[g][c] EXCEPT !.status = s, !.token = None]
      BY <3>1
    <3>3. s \in JobStatus /\ job[g][c] \in JobRow
      BY Statuses
    <3> QED
      BY <3>2, <3>3, JobStatusUpdate
  <2> QED
    BY <1>q, <1>h, <2>2, <2>3, <2>4
<1>9. ASSUME NEW w \in Workers, FinishTerminalFailure(w) PROVE Goal
  <2>1. /\ worker[w].pc = "failing"
        /\ worker[w].g = g
        /\ c = worker[w].c \/ c \in Siblings(w)
    BY <1>9 DEF FinishTerminalFailure
  <2>2. c = worker[w].c => job[g][c].status = "running" /\ job[g][c].token = w
    BY <2>1 DEF LeaseInv, LeaseHeldThroughUpsert, HoldsLease
  <2>3. job[g][c].status # "absent"
    BY <2>1, <2>2 DEF LeaseInv, SiblingsQueued
  <2>4. job'[g][c].status = "failed"
    <3>1. job'[g][c] = [job[g][c] EXCEPT !.status = "failed", !.token = None]
      BY <1>9, <2>1 DEF FinishTerminalFailure
    <3>2. "failed" \in JobStatus /\ job[g][c] \in JobRow
      BY Statuses
    <3> QED
      BY <3>1, <3>2, JobStatusUpdate
  <2>5. c \in Siblings(w) => LockHolders(g, c) = {}
    BY <1>9, <2>1 DEF FinishTerminalFailure
  <2>6. doc'[DocOf[c]].status # "draft"
    BY <1>9, <1>q, <2>3 DEF FinishTerminalFailure, FailDocument, DocRow
  <2>7. worker' = [worker EXCEPT ![w] = Idle] /\ gen' = gen
    BY <1>9 DEF FinishTerminalFailure
  <2> QED
    BY <1>q, <1>h, <2>1, <2>2, <2>3, <2>4, <2>5, <2>6, <2>7
<1>10. ASSUME NEW w \in Workers,
              BeginExecute(w) \/ LoseLease(w) \/ UpsertPoint(w) \/ UpsertFails(w)
              \/ BeginTerminalFailure(w) \/ AbortTerminalFailure(w) \/ Crash(w)
       PROVE  Goal
  BY <1>10 DEF BeginExecute, LoseLease, UpsertPoint, UpsertFails, BeginTerminalFailure,
     AbortTerminalFailure, Crash
<1> QED
  BY <1>1, <1>2, <1>3, <1>4, <1>5, <1>6, <1>7, <1>8, <1>9, <1>10
  DEF Next, Request, Reconcile, Claim, Proceed, WorkerFault

\* No row becomes a draft, or disappears.
LEMMA RowStep ==
    ASSUME TypeInv, Next
    PROVE  /\ \A d \in Docs : doc'[d].status = "draft" => doc[d].status = "draft"
           /\ \A g \in Gens : gen'[g].status = "absent" => gen[g].status = "absent"
<1> DEFINE Goal == /\ \A d \in Docs : doc'[d].status = "draft" => doc[d].status = "draft"
                   /\ \A g \in Gens : gen'[g].status = "absent" => gen[g].status = "absent"
<1> USE DEF TypeInv, TypeOK, DocRow, GenRow
<1>1. ASSUME NEW d \in Docs, PublishDocument(d) PROVE Goal
  <2>1. \A e \in Docs : e # d => doc'[e].status = doc[e].status
    BY <1>1 DEF PublishDocument
  <2>2. doc'[d].status = "indexing"
    BY <1>1 DEF PublishDocument
  <2>3. \A g \in Gens : gen'[g] = gen[g] \/ gen'[g] = [NoGen EXCEPT !.status = "active"]
    BY <1>1 DEF PublishDocument, ActiveGeneration
  <2> QED
    BY <2>1, <2>2, <2>3 DEF NoGen
<1>2. ASSUME NEW d \in Docs, RetryFailedDocument(d) PROVE Goal
  <2>1. /\ doc' = [doc EXCEPT ![d] = [doc[d] EXCEPT !.status = "indexing"]]
        /\ gen' = gen
    BY <1>2 DEF RetryFailedDocument
  <2>2. [doc[d] EXCEPT !.status = "indexing"].status = "indexing"
    OBVIOUS
  <2> QED
    BY <2>1, <2>2
<1>3. ASSUME NEW g \in Gens, CreateBuilding(g) \/ RetryFailedGeneration(g) PROVE Goal
  BY <1>3 DEF CreateBuilding, RetryFailedGeneration
<1>4. ASSUME NEW g \in Gens, ReconcileActive(g) PROVE Goal
  <2>1. \A d \in Docs : doc'[d] = doc[d] \/ doc'[d].status = "published"
    BY <1>4 DEF ReconcileActive
  <2>2. gen' = [gen EXCEPT ![g] = gen'[g]] /\ gen'[g].status = gen[g].status
    BY <1>4 DEF ReconcileActive
  <2> QED
    BY <2>1, <2>2
<1>5. ASSUME NEW g \in Gens, BuildingProgress(g) \/ BuildingDelta(g) PROVE Goal
  <2>1. doc' = doc
    BY <1>5 DEF BuildingProgress, BuildingDelta, CheckedBuilding
  <2>2. \A h \in Gens : h # g => gen'[h] = gen[h]
    BY <1>5 DEF BuildingProgress, BuildingDelta
  <2>3. gen'[g].status = gen[g].status
    <3>1. CASE BuildingProgress(g)
      BY <3>1 DEF BuildingProgress, CheckedBuilding
    <3>2. CASE BuildingDelta(g)
      BY <3>2 DEF BuildingDelta
    <3> QED
      BY <1>5, <3>1, <3>2
  <2> QED
    BY <2>1, <2>2, <2>3
<1>7. ASSUME NEW g \in Gens, SwitchActive(g) PROVE Goal
  <2>1. doc' = doc /\ gen[g].status = "building"
    BY <1>7 DEF SwitchActive, CheckedBuilding
  <2>2. \A h \in Gens : h # g => gen'[h] = gen[h] \/ gen'[h].status = "retired"
    BY <1>7 DEF SwitchActive
  <2>3. gen'[g].status = "active"
    BY <1>7 DEF SwitchActive
  <2> QED
    BY <2>1, <2>2, <2>3
<1>8. ASSUME NEW w \in Workers, FinishTerminalFailure(w) PROVE Goal
  <2> DEFINE d == DocOf[worker[w].c]
  <2>1. gen' = gen
        /\ (doc' = doc \/ doc' = [doc EXCEPT ![d] = [doc[d] EXCEPT !.status = "failed"]])
    BY <1>8 DEF FinishTerminalFailure, FailDocument
  <2>2. \A e \in Docs : [doc[e] EXCEPT !.status = "failed"].status = "failed"
    OBVIOUS
  <2> QED
    BY <2>1, <2>2
<1>6. ASSUME NEW w \in Workers,
             Claim(w) \/ BeginExecute(w) \/ LoseLease(w) \/ UpsertPoint(w) \/ UpsertFails(w)
             \/ CompleteJob(w) \/ RecordRetryableFailure(w) \/ BeginTerminalFailure(w)
             \/ AbortTerminalFailure(w) \/ Crash(w)
      PROVE  Goal
  BY <1>6 DEF Claim, ClaimJob, BeginExecute, LoseLease, UpsertPoint, UpsertFails, CompleteJob,
     RecordRetryableFailure, BeginTerminalFailure, AbortTerminalFailure, Crash
<1> QED
  BY <1>1, <1>2, <1>3, <1>4, <1>5, <1>6, <1>7, <1>8
  DEF Next, Request, Reconcile, Proceed, WorkerFault

Locking == {"executing", "upserted", "failing"}

\* A worker that takes or keeps a row lock on its way does so under its lease.
LEMMA LockStep ==
    ASSUME TypeInv, LeaseInv, Next, NEW w \in Workers,
           worker'[w] # worker[w], worker'[w].pc \in Locking
    PROVE  /\ HoldsLease(w)
           /\ worker'[w].g = worker[w].g /\ worker'[w].c = worker[w].c
           /\ job' = job
           /\ worker'[w].pc = "failing" => BeginTerminalFailure(w)
<1> DEFINE Goal == /\ HoldsLease(w)
                   /\ worker'[w].g = worker[w].g /\ worker'[w].c = worker[w].c
                   /\ job' = job
                   /\ worker'[w].pc = "failing" => BeginTerminalFailure(w)
<1> USE DEF TypeInv, TypeOK, Locking
<1>1. CASE Request \/ Reconcile
  BY <1>1 DEF Request, Reconcile, PublishDocument, RetryFailedDocument, CreateBuilding,
     RetryFailedGeneration, ReconcileActive, BuildingProgress, BuildingDelta, SwitchActive,
     CheckedBuilding
<1>2. ASSUME NEW v \in Workers, Claim(v) PROVE Goal
  BY <1>2 DEF Claim, ClaimJob, Idle
<1>3. ASSUME NEW v \in Workers,
             LoseLease(v) \/ CompleteJob(v) \/ RecordRetryableFailure(v)
             \/ FinishTerminalFailure(v) \/ AbortTerminalFailure(v) \/ Crash(v)
      PROVE  Goal
  <2>1. worker' = [worker EXCEPT ![v] = Idle]
    BY <1>3 DEF LoseLease, CompleteJob, RecordRetryableFailure, FinishTerminalFailure,
       AbortTerminalFailure, Crash
  <2> QED
    BY <2>1 DEF Idle
<1>4. ASSUME NEW v \in Workers, BeginExecute(v) PROVE Goal
  <2>1. v = w /\ HoldsLease(v) /\ job' = job
    BY <1>4 DEF BeginExecute
  <2>2. worker'[w].pc \in {"executing", "errored"}
        /\ worker'[w].g = worker[w].g /\ worker'[w].c = worker[w].c
    BY <1>4, <2>1 DEF BeginExecute, WorkerState
  <2> QED
    BY <2>1, <2>2
<1>5. ASSUME NEW v \in Workers, UpsertPoint(v) PROVE Goal
  <2>1. v = w /\ job' = job /\ worker[w].pc = "executing"
    BY <1>5 DEF UpsertPoint
  <2>2. HoldsLease(w)
    BY <2>1 DEF LeaseInv, LeaseHeldThroughUpsert
  <2>3. worker'[w] = [worker[w] EXCEPT !.pc = "upserted"]
    BY <1>5, <2>1 DEF UpsertPoint
  <2> QED
    BY <2>1, <2>2, <2>3 DEF WorkerState
<1>6. ASSUME NEW v \in Workers, UpsertFails(v) PROVE Goal
  <2>1. v = w
    BY <1>6 DEF UpsertFails
  <2>2. worker'[w] = [worker[w] EXCEPT !.pc = "errored"]
    BY <1>6, <2>1 DEF UpsertFails
  <2> QED
    BY <2>2 DEF WorkerState
<1>7. ASSUME NEW v \in Workers, BeginTerminalFailure(v) PROVE Goal
  <2>1. v = w /\ HoldsLease(v) /\ job' = job
    BY <1>7 DEF BeginTerminalFailure
  <2>2. worker'[w].g = worker[w].g /\ worker'[w].c = worker[w].c
    BY <1>7, <2>1 DEF BeginTerminalFailure, WorkerState
  <2> QED
    BY <1>7, <2>1, <2>2
<1> QED
  BY <1>1, <1>2, <1>3, <1>4, <1>5, <1>6, <1>7 DEF Next, Proceed, WorkerFault

LEMMA LeaseStep == TypeInv /\ LeaseInv /\ [Next]_vars => LeaseInv'
<1> SUFFICES ASSUME TypeInv, LeaseInv, [Next]_vars PROVE LeaseInv'
    OBVIOUS
<1>u. CASE UNCHANGED vars
  BY <1>u DEF vars, LeaseInv, LeaseHeldThroughUpsert, DraftsUnqueued, AbsentUnqueued,
     SiblingsQueued, HoldsLease, Siblings
<1>n. CASE Next
  <2> USE <1>n
  <2>1. LeaseHeldThroughUpsert'
    <3> SUFFICES ASSUME NEW w \in Workers, worker'[w].pc \in Locking PROVE HoldsLease(w)'
      BY DEF LeaseHeldThroughUpsert, Locking
    <3>1. CASE worker'[w] = worker[w]
      <4>1. HoldsLease(w)
        BY <3>1 DEF LeaseInv, LeaseHeldThroughUpsert, Locking
      <4> DEFINE g == worker[w].g
                 c == worker[w].c
      <4>2. g \in Gens /\ c \in Chunks /\ w \in LockHolders(g, c)
        BY <3>1 DEF TypeInv, BusyWorkers, LockHolders, Locking
      <4>3. worker'[w] # Idle
        BY DEF Idle, Locking
      <4>4. job'[g][c] = job[g][c]
        BY <4>2, <4>3, JobStep
      <4> QED
        BY <3>1, <4>1, <4>4 DEF HoldsLease
    <3>2. CASE worker'[w] # worker[w]
      BY <3>2, LockStep DEF HoldsLease
    <3> QED
      BY <3>1, <3>2
  <2>2. DraftsUnqueued'
    <3> SUFFICES ASSUME NEW d \in Docs, doc'[d].status = "draft",
                        NEW g \in Gens, NEW c \in Chunks, DocOf[c] = d
                 PROVE  job'[g][c].status = "absent"
      BY DEF DraftsUnqueued
    <3>1. job[g][c].status = "absent"
      BY RowStep DEF LeaseInv, DraftsUnqueued
    <3> QED
      BY <3>1, JobStep
  <2>3. AbsentUnqueued'
    <3> SUFFICES ASSUME NEW g \in Gens, gen'[g].status = "absent", NEW c \in Chunks
                 PROVE  job'[g][c] = NoJob
      BY DEF AbsentUnqueued
    <3>1. job[g][c] = NoJob
      BY RowStep DEF LeaseInv, AbsentUnqueued
    <3> QED
      BY <3>1, JobStep
  <2>4. SiblingsQueued'
    <3> SUFFICES ASSUME NEW w \in Workers, worker'[w].pc = "failing",
                        NEW c \in Chunks, c \in worker'[w].pending \union worker'[w].running
                 PROVE  job'[worker'[w].g][c].status # "absent"
      BY DEF SiblingsQueued, Siblings
    <3>1. CASE worker'[w] = worker[w]
      <4>1. worker[w].g \in Gens /\ job[worker[w].g][c].status # "absent"
        BY <3>1 DEF LeaseInv, SiblingsQueued, Siblings, TypeInv, BusyWorkers
      <4> QED
        BY <3>1, <4>1, JobStep
    <3>2. CASE worker'[w] # worker[w]
      <4>1. BeginTerminalFailure(w) /\ job' = job /\ worker'[w].g = worker[w].g
        BY <3>2, LockStep DEF Locking
      <4>2. c \in JobsIn(worker[w].g, "pending") \union JobsIn(worker[w].g, "running")
        BY <4>1 DEF BeginTerminalFailure, TypeInv, TypeOK, WorkerState
      <4> QED
        BY <4>1, <4>2 DEF JobsIn
    <3> QED
      BY <3>1, <3>2
  <2> QED
    BY <2>1, <2>2, <2>3, <2>4 DEF LeaseInv
<1> QED
  BY <1>u, <1>n

\* A worker whose transaction has locked its job keeps the lease to the end of
\* execute_claimed_job or record_job_failure.
THEOREM LeaseSafe == Spec => []LeaseHeldThroughUpsert
<1>1. Init => TypeInv /\ LeaseInv
  BY TypeInit, LeaseInit
<1>2. TypeInv /\ LeaseInv /\ [Next]_vars => (TypeInv /\ LeaseInv)'
  BY TypeStep, LeaseStep
<1>3. LeaseInv => LeaseHeldThroughUpsert
  BY DEF LeaseInv
<1> QED
  BY <1>1, <1>2, <1>3, PTL DEF Spec


-----------------------------------------------------------------------------
(* Vectors *)

\* Every generation has a Qdrant collection of its own.
OwnCollections == \A g, h \in Gens : CollectionOf[g] = CollectionOf[h] => g = h

OneActive == \A g, h \in Active : g = h

\* Documents are published into a generation.
PublishedSomewhere == Existing = {} => PublishedChunks = {}

\* The jobs of a building generation are those of its manifest, all of them
\* chunks of published documents.
ManifestQueued ==
    \A g \in Building :
        /\ gen[g].manifest = {c \in Chunks : job[g][c].status # "absent"}
        /\ gen[g].expected = Cardinality(gen[g].manifest)
        /\ gen[g].manifest \subseteq PublishedChunks

\* What a worker reports written is written.
WrittenIndexed ==
    /\ \A g \in Gens : JobsIn(g, "completed") \subseteq Indexed(g)
    /\ \A w \in Workers : worker[w].pc = "upserted" => worker[w].c \in Indexed(worker[w].g)

GenerationsInv == OneActive /\ PublishedSomewhere /\ ManifestQueued /\ ActiveCountsPublished

VectorInv == GenerationsInv /\ WrittenIndexed /\ NoSilentMissingVectors

\* In collections of their own the active generation's points stay.
VectorsStay ==
    OwnCollections /\ WrittenIndexed /\ NoSilentMissingVectors => NoSilentMissingVectors'

LEMMA VectorInit == Init => VectorInv
<1> SUFFICES ASSUME Init PROVE VectorInv
    OBVIOUS
<1>1. Active = {} /\ Building = {}
  BY DEF Init, Active, Building, NoGen
<1>2. PublishedChunks = {}
  BY ChunksAssumption DEF Init, PublishedChunks
<1>3. WrittenIndexed
  BY DEF Init, WrittenIndexed, JobsIn, NoJob, Idle
<1> QED
  BY <1>1, <1>2, <1>3
  DEF VectorInv, GenerationsInv, OneActive, PublishedSomewhere, ManifestQueued,
      ActiveCountsPublished, NoSilentMissingVectors

\* Only upserts write points, each in its own generation's collection.
LEMMA PointStep ==
    ASSUME TypeInv, Next, OwnCollections, NEW g \in Gens
    PROVE  Indexed(g) \subseteq Indexed(g)'
<1> USE DEF TypeInv, TypeOK
<1>1. ASSUME NEW w \in Workers, worker[w].pc = "executing", WritePoint(w)
      PROVE  Indexed(g) \subseteq Indexed(g)'
  <2> DEFINE h == worker[w].g
             p == [gen |-> h, expiry |-> worker[w].expiry]
  <2>1. h \in Gens /\ CollectionOf[h] \in Collections /\ CollectionOf[g] \in Collections
    BY <1>1, CollectionsAssumption DEF BusyWorkers
  <2>2. points' = [points EXCEPT ![CollectionOf[h]][worker[w].c] = p]
    BY <1>1 DEF WritePoint
  <2>3. p.gen = h
    OBVIOUS
  <2> HIDE DEF p, h
  <2>4. ASSUME NEW c \in Chunks, points[CollectionOf[g]][c].gen = g
        PROVE  points'[CollectionOf[g]][c].gen = g
    <3>1. CASE CollectionOf[h] = CollectionOf[g]
      BY <2>1, <2>2, <2>3, <2>4, <3>1 DEF OwnCollections
    <3>2. CASE CollectionOf[h] # CollectionOf[g]
      BY <2>1, <2>2, <2>4, <3>2
    <3> QED
      BY <3>1, <3>2
  <2> QED
    BY <2>4 DEF Indexed
<1>2. points' = points => Indexed(g) \subseteq Indexed(g)'
  BY DEF Indexed
<1>3. points' = points \/ \E w \in Workers : worker[w].pc = "executing" /\ WritePoint(w)
  BY DEF Next, Request, Reconcile, Claim, Proceed, WorkerFault, PublishDocument,
     RetryFailedDocument, CreateBuilding, RetryFailedGeneration, ReconcileActive,
     BuildingProgress, BuildingDelta, SwitchActive, CheckedBuilding, ClaimJob, BeginExecute,
     LoseLease, UpsertPoint, UpsertFails, CompleteJob, RecordRetryableFailure,
     BeginTerminalFailure, FinishTerminalFailure, AbortTerminalFailure, Crash
<1> QED
  BY <1>1, <1>2, <1>3

\* A job is completed by the worker that has written its point.
LEMMA CompletedStep ==
    ASSUME TypeInv, LeaseInv, Next, NEW g \in Gens, NEW c \in Chunks,
           job'[g][c].status = "completed", job[g][c].status # "completed"
    PROVE  \E w \in Workers : worker[w].pc = "upserted" /\ worker[w].g = g /\ worker[w].c = c
<1> DEFINE Goal == \E w \in Workers :
                      worker[w].pc = "upserted" /\ worker[w].g = g /\ worker[w].c = c
<1> USE DEF TypeInv, TypeOK
<1>1. CASE Request \/ Reconcile
  <2>1. NoJob.status = "absent" /\ PendingJob.status = "pending"
    BY DEF NoJob, PendingJob
  <2>2. ASSUME NEW d \in Docs, PublishDocument(d)
        PROVE  job'[g][c] \in {job[g][c], PendingJob}
    BY <2>2 DEF PublishDocument
  <2>3. ASSUME NEW d \in Docs, RetryFailedDocument(d)
        PROVE  job'[g][c] \in {job[g][c], PendingJob}
    BY <2>3 DEF RetryFailedDocument
  <2>4. ASSUME NEW h \in Gens, CreateBuilding(h) \/ RetryFailedGeneration(h) \/ BuildingDelta(h)
        PROVE  job'[g][c] \in {job[g][c], PendingJob, NoJob}
    BY <2>4 DEF CreateBuilding, RetryFailedGeneration, BuildingDelta
  <2>5. ASSUME NEW h \in Gens, ReconcileActive(h) \/ BuildingProgress(h) \/ SwitchActive(h)
        PROVE  job' = job
    BY <2>5 DEF ReconcileActive, BuildingProgress, SwitchActive
  <2> QED
    BY <1>1, <2>1, <2>2, <2>3, <2>4, <2>5 DEF Request, Reconcile
<1>3. ASSUME NEW w \in Workers, CompleteJob(w) PROVE Goal
  <2>1. worker[w].pc = "upserted"
    BY <1>3 DEF CompleteJob
  <2>2. job'[g][c] # job[g][c] => worker[w].g = g /\ worker[w].c = c
    BY <1>3 DEF CompleteJob
  <2> QED
    BY <2>1, <2>2
<1>4. ASSUME NEW w \in Workers, NEW b \in Gens, NEW e \in Chunks, ClaimJob(w, b, e) PROVE Goal
  BY <1>4 DEF ClaimJob
<1>5. ASSUME NEW w \in Workers, RecordRetryableFailure(w) PROVE Goal
  <2>1. job' = [job EXCEPT ![worker[w].g][worker[w].c] =
                   [job[worker[w].g][worker[w].c] EXCEPT !.status = "pending", !.token = None]]
    BY <1>5 DEF RecordRetryableFailure
  <2>2. [job[g][c] EXCEPT !.status = "pending", !.token = None].status = "pending"
    BY JobStatusUpdate, Statuses
  <2> QED
    BY <2>1, <2>2
<1>6. ASSUME NEW w \in Workers, FinishTerminalFailure(w) PROVE Goal
  <2>1. job'[g][c] = job[g][c] \/ job'[g][c] = [job[g][c] EXCEPT !.status = "failed", !.token = None]
    BY <1>6 DEF FinishTerminalFailure
  <2>2. [job[g][c] EXCEPT !.status = "failed", !.token = None].status = "failed"
    BY JobStatusUpdate, Statuses
  <2> QED
    BY <2>1, <2>2
<1>7. ASSUME NEW w \in Workers,
             BeginExecute(w) \/ LoseLease(w) \/ UpsertPoint(w) \/ UpsertFails(w)
             \/ BeginTerminalFailure(w) \/ AbortTerminalFailure(w) \/ Crash(w)
      PROVE  Goal
  BY <1>7 DEF BeginExecute, LoseLease, UpsertPoint, UpsertFails, BeginTerminalFailure,
     AbortTerminalFailure, Crash
<1> QED
  BY <1>1, <1>3, <1>4, <1>5, <1>6, <1>7 DEF Next, Claim, Proceed, WorkerFault

\* Only UpsertPoint leaves a worker with a written point.
LEMMA UpsertedStep ==
    ASSUME TypeInv, Next, NEW w \in Workers, worker'[w].pc = "upserted", worker'[w] # worker[w]
    PROVE  UpsertPoint(w)
<1> USE DEF TypeInv, TypeOK
<1>1. CASE Request \/ Reconcile
  BY <1>1 DEF Request, Reconcile, PublishDocument, RetryFailedDocument, CreateBuilding,
     RetryFailedGeneration, ReconcileActive, BuildingProgress, BuildingDelta, SwitchActive,
     CheckedBuilding
<1>2. ASSUME NEW v \in Workers, UpsertPoint(v) PROVE UpsertPoint(w)
  BY <1>2 DEF UpsertPoint
<1>3. ASSUME NEW v \in Workers, NEW g \in Gens, NEW c \in Chunks, ClaimJob(v, g, c)
      PROVE  UpsertPoint(w)
  BY <1>3 DEF ClaimJob, Idle
<1>4. ASSUME NEW v \in Workers,
             LoseLease(v) \/ CompleteJob(v) \/ RecordRetryableFailure(v)
             \/ FinishTerminalFailure(v) \/ AbortTerminalFailure(v) \/ Crash(v)
      PROVE  UpsertPoint(w)
  <2>1. worker' = [worker EXCEPT ![v] = Idle]
    BY <1>4 DEF LoseLease, CompleteJob, RecordRetryableFailure, FinishTerminalFailure,
       AbortTerminalFailure, Crash
  <2> QED
    BY <2>1 DEF Idle
<1>5. ASSUME NEW v \in Workers, BeginExecute(v) PROVE UpsertPoint(w)
  <2>1. worker'[v].pc \in {"executing", "errored"}
    BY <1>5 DEF BeginExecute, WorkerState
  <2> QED
    BY <1>5, <2>1 DEF BeginExecute
<1>6. ASSUME NEW v \in Workers, UpsertFails(v) PROVE UpsertPoint(w)
  <2>1. worker'[v].pc = "errored"
    BY <1>6 DEF UpsertFails, WorkerState
  <2> QED
    BY <1>6, <2>1 DEF UpsertFails
<1>7. ASSUME NEW v \in Workers, BeginTerminalFailure(v) PROVE UpsertPoint(w)
  <2>1. worker'[v].pc = "failing"
    BY <1>7 DEF BeginTerminalFailure, WorkerState
  <2> QED
    BY <1>7, <2>1 DEF BeginTerminalFailure
<1> QED
  BY <1>1, <1>2, <1>3, <1>4, <1>5, <1>6, <1>7 DEF Next, Claim, Proceed, WorkerFault

LEMMA WrittenStep ==
    TypeInv /\ LeaseInv /\ WrittenIndexed /\ OwnCollections /\ Next => WrittenIndexed'
<1> SUFFICES ASSUME TypeInv, LeaseInv, WrittenIndexed, OwnCollections, Next
             PROVE  WrittenIndexed'
    OBVIOUS
<1>1. ASSUME NEW g \in Gens, NEW c \in Chunks, job'[g][c].status = "completed"
      PROVE  c \in Indexed(g)'
  <2>1. c \in Indexed(g)
    BY <1>1, CompletedStep DEF WrittenIndexed, JobsIn
  <2> QED
    BY <2>1, PointStep
<1>2. ASSUME NEW w \in Workers, worker'[w].pc = "upserted"
      PROVE  worker'[w].c \in {c \in Chunks : points'[CollectionOf[worker'[w].g]][c].gen = worker'[w].g}
  <2>1. CASE worker'[w] = worker[w]
    <3>1. PICK g \in Gens : g = worker[w].g
      BY <1>2, <2>1 DEF TypeInv, BusyWorkers
    <3>2. worker[w].c \in Indexed(g)
      BY <1>2, <2>1, <3>1 DEF WrittenIndexed
    <3>3. worker[w].c \in Indexed(g)'
      BY <3>2, PointStep
    <3> QED
      BY <2>1, <3>1, <3>3 DEF Indexed
  <2>2. CASE worker'[w] # worker[w]
    <3>1. UpsertPoint(w)
      BY <1>2, <2>2, UpsertedStep
    <3>2. worker'[w] = [worker[w] EXCEPT !.pc = "upserted"] /\ WritePoint(w)
      BY <3>1 DEF UpsertPoint, TypeInv, TypeOK
    <3> DEFINE g == worker[w].g
               c == worker[w].c
               p == [gen |-> g, expiry |-> worker[w].expiry]
    <3>3. g \in Gens /\ c \in Chunks /\ CollectionOf[g] \in Collections
      BY <3>1, CollectionsAssumption DEF UpsertPoint, TypeInv, BusyWorkers
    <3>4. points' = [points EXCEPT ![CollectionOf[g]][c] = p]
      BY <3>2 DEF WritePoint
    <3>5. worker'[w].g = g /\ worker'[w].c = c
      BY <3>2 DEF TypeInv, TypeOK, WorkerState
    <3>6. p.gen = g
      OBVIOUS
    <3> HIDE DEF g, c, p
    <3>7. points'[CollectionOf[g]][c] = p
      BY <3>3, <3>4 DEF TypeInv, TypeOK
    <3> QED
      BY <3>3, <3>5, <3>6, <3>7
  <2> QED
    BY <2>1, <2>2
<1> QED
  BY <1>1, <1>2 DEF WrittenIndexed, JobsIn, Indexed

\* Workers create no job and publish nothing.
LEMMA WorkerRows ==
    ASSUME TypeInv, LeaseInv, NEW w \in Workers, Claim(w) \/ Proceed(w) \/ WorkerFault(w)
    PROVE  /\ gen' = gen
           /\ PublishedChunks' = PublishedChunks
           /\ \A g \in Gens, c \in Chunks : job[g][c].status = "absent" => job'[g][c] = job[g][c]
<1> DEFINE Goal == /\ gen' = gen
                   /\ PublishedChunks' = PublishedChunks
                   /\ \A g \in Gens, c \in Chunks :
                        job[g][c].status = "absent" => job'[g][c] = job[g][c]
<1> USE DEF TypeInv, TypeOK
<1>0. doc' = doc => PublishedChunks' = PublishedChunks
  BY DEF PublishedChunks
<1>1. ASSUME NEW g \in Gens, NEW c \in Chunks, ClaimJob(w, g, c) PROVE Goal
  BY <1>0, <1>1 DEF ClaimJob, Claimable
<1>2. CASE CompleteJob(w) \/ RecordRetryableFailure(w)
  <2>1. HoldsLease(w) /\ doc' = doc /\ gen' = gen
    BY <1>2 DEF CompleteJob, RecordRetryableFailure
  <2>2. job[worker[w].g][worker[w].c].status = "running"
    BY <2>1 DEF HoldsLease
  <2>3. \A g \in Gens, c \in Chunks :
            ~(g = worker[w].g /\ c = worker[w].c) => job'[g][c] = job[g][c]
    BY <1>2 DEF CompleteJob, RecordRetryableFailure
  <2> QED
    BY <1>0, <2>1, <2>2, <2>3
<1>3. CASE FinishTerminalFailure(w)
  <2> DEFINE d == DocOf[worker[w].c]
  <2>1. /\ worker[w].pc = "failing"
        /\ gen' = gen
        /\ (doc' = doc \/ (doc[d].status = "indexing"
                           /\ doc' = [doc EXCEPT ![d] = [doc[d] EXCEPT !.status = "failed"]]))
    BY <1>3 DEF FinishTerminalFailure, FailDocument
  <2>2. \A e \in Docs : doc'[e].status = "published" <=> doc[e].status = "published"
    <3>1. \A e \in Docs : [doc[e] EXCEPT !.status = "failed"].status = "failed"
      BY DEF DocRow
    <3> QED
      BY <2>1, <3>1
  <2>3. PublishedChunks' = PublishedChunks
    BY <2>2, ChunksAssumption DEF PublishedChunks
  <2>4. job[worker[w].g][worker[w].c].status = "running"
    BY <2>1 DEF LeaseInv, LeaseHeldThroughUpsert, HoldsLease
  <2>5. \A c \in Chunks \intersect Siblings(w) : job[worker[w].g][c].status # "absent"
    BY <2>1 DEF LeaseInv, SiblingsQueued
  <2>6. \A g \in Gens, c \in Chunks :
            ~(g = worker[w].g /\ (c = worker[w].c \/ c \in Siblings(w))) => job'[g][c] = job[g][c]
    BY <1>3 DEF FinishTerminalFailure
  <2> QED
    BY <2>1, <2>3, <2>4, <2>5, <2>6
<1>4. CASE BeginExecute(w) \/ LoseLease(w) \/ UpsertPoint(w) \/ UpsertFails(w)
           \/ BeginTerminalFailure(w) \/ AbortTerminalFailure(w) \/ Crash(w)
  BY <1>0, <1>4 DEF BeginExecute, LoseLease, UpsertPoint, UpsertFails, BeginTerminalFailure,
     AbortTerminalFailure, Crash
<1> QED
  BY <1>1, <1>2, <1>3, <1>4 DEF Claim, Proceed, WorkerFault

JobsOf(g) == {c \in Chunks : job[g][c].status # "absent"}

\* What the other steps leave alone is enough for the generations' part of the
\* invariant.
LEMMA GenerationsKept ==
    ASSUME TypeInv, GenerationsInv, Next, gen' = gen, PublishedChunks' = PublishedChunks,
           \A g \in Building : JobsOf(g)' = JobsOf(g)
    PROVE  GenerationsInv' /\ VectorsStay
<1>1. Active' = Active /\ Building' = Building /\ Existing' = Existing
  BY DEF Active, Building, Existing
<1>2. OneActive' /\ PublishedSomewhere' /\ ActiveCountsPublished'
  BY <1>1 DEF GenerationsInv, OneActive, PublishedSomewhere, ActiveCountsPublished
<1>3. ManifestQueued'
  BY <1>1 DEF GenerationsInv, ManifestQueued, JobsOf
<1>4. VectorsStay
  <2> SUFFICES ASSUME OwnCollections, NoSilentMissingVectors, NEW g \in Active
               PROVE  PublishedChunks \subseteq Indexed(g)'
    BY <1>1 DEF VectorsStay, NoSilentMissingVectors
  <2>1. PublishedChunks \subseteq Indexed(g) /\ g \in Gens
    BY DEF NoSilentMissingVectors, Active
  <2> QED
    BY <2>1, PointStep
<1> QED
  BY <1>2, <1>3, <1>4 DEF GenerationsInv

LEMMA GenerationsStep ==
    ASSUME TypeInv, LeaseInv, GenerationsInv, Next
    PROVE  GenerationsInv' /\ VectorsStay
<1> DEFINE Goal == GenerationsInv' /\ VectorsStay
<1> USE DEF TypeInv, TypeOK
<1>d. \A c \in Chunks : DocOf[c] \in Docs
  BY ChunksAssumption
<1>1. ASSUME NEW d \in Docs, PublishDocument(d) PROVE Goal
  <2>1. \A e \in Docs : doc'[e].status = "published" <=> doc[e].status = "published"
    <3>1. \A e \in Docs : e # d => doc'[e].status = doc[e].status
      BY <1>1 DEF PublishDocument, DocRow
    <3>2. doc'[d].status = "indexing" /\ doc[d].status = "draft"
      BY <1>1 DEF PublishDocument, DocRow
    <3> QED
      BY <3>1, <3>2
  <2>2. PublishedChunks' = PublishedChunks
    BY <1>d, <2>1 DEF PublishedChunks
  <2>3. PICK g \in Gens : /\ ActiveGeneration(g)
                          /\ \A h \in Gens : h # g => job'[h] = job[h]
    BY <1>1 DEF PublishDocument
  <2>4. CASE gen' = gen
    <3>1. g \notin Building /\ Building \subseteq Gens
      BY <2>3, <2>4 DEF ActiveGeneration, Existing, Active, Building, NoGen
    <3>2. \A h \in Building : JobsOf(h)' = JobsOf(h)
      BY <2>3, <3>1 DEF JobsOf
    <3> QED
      BY <2>2, <2>4, <3>2, GenerationsKept
  <2>5. CASE gen' # gen
    <3>1. Existing = {} /\ gen' = [gen EXCEPT ![g] = [NoGen EXCEPT !.status = "active"]]
      BY <2>3, <2>5 DEF ActiveGeneration
    <3>2. \A h \in Gens : gen[h].status = "absent"
      BY <3>1 DEF Existing
    <3>3. Active' = {g} /\ Building' = {} /\ Existing' = {g}
      BY <3>1, <3>2 DEF Active, Building, Existing, NoGen
    <3>4. PublishedChunks' = {}
      BY <2>2, <3>1 DEF GenerationsInv, PublishedSomewhere
    <3>5. gen'[g].completed = 0 /\ gen'[g].expected = 0 /\ Cardinality({}) = 0
      BY <3>1, FS_EmptySet DEF NoGen
    <3> QED
      BY <3>3, <3>4, <3>5
      DEF GenerationsInv, OneActive, PublishedSomewhere, ManifestQueued, ActiveCountsPublished,
          VectorsStay, NoSilentMissingVectors
  <2> QED
    BY <2>4, <2>5
<1>2. ASSUME NEW d \in Docs, RetryFailedDocument(d) PROVE Goal
  <2>1. /\ doc[d].status = "failed" /\ gen' = gen
        /\ doc' = [doc EXCEPT ![d] = [doc[d] EXCEPT !.status = "indexing"]]
    BY <1>2 DEF RetryFailedDocument
  <2>2. [doc[d] EXCEPT !.status = "indexing"].status = "indexing"
    BY DEF DocRow
  <2>3. PublishedChunks' = PublishedChunks
    BY <1>d, <2>1, <2>2 DEF PublishedChunks
  <2>4. \A g \in Gens : JobsOf(g)' = JobsOf(g)
    BY <1>2 DEF RetryFailedDocument, JobsOf, PendingJob
  <2> QED
    BY <2>1, <2>3, <2>4, GenerationsKept DEF Building
<1>3. ASSUME NEW b \in Gens, RetryFailedGeneration(b) PROVE Goal
  <2>1. gen' = gen /\ doc' = doc
    BY <1>3 DEF RetryFailedGeneration
  <2>2. \A g \in Gens : JobsOf(g)' = JobsOf(g)
    BY <1>3 DEF RetryFailedGeneration, JobsOf, PendingJob, JobsIn
  <2> QED
    BY <2>1, <2>2, GenerationsKept DEF Building, PublishedChunks
<1>4. ASSUME NEW w \in Workers, Claim(w) \/ Proceed(w) \/ WorkerFault(w) PROVE Goal
  <2>1. /\ gen' = gen /\ PublishedChunks' = PublishedChunks
        /\ \A g \in Gens, c \in Chunks : job[g][c].status = "absent" => job'[g][c] = job[g][c]
    BY <1>4, WorkerRows
  <2>2. \A g \in Gens : JobsOf(g)' = JobsOf(g)
    BY <2>1, JobStep DEF JobsOf
  <2> QED
    BY <2>1, <2>2, GenerationsKept DEF Building
<1>5. ASSUME NEW b \in Gens, CreateBuilding(b) PROVE Goal
  <2> DEFINE row == [status |-> "building", manifest |-> PublishedChunks,
                     expected |-> Cardinality(PublishedChunks), completed |-> 0]
  <2>1. /\ Building = {} /\ gen[b].status = "absent" /\ doc' = doc
        /\ gen' = [gen EXCEPT ![b] = row]
    BY <1>5 DEF CreateBuilding, Existing, Gens
  <2>2. /\ row.status = "building" /\ row.manifest = PublishedChunks
        /\ row.expected = Cardinality(PublishedChunks)
    OBVIOUS
  <2> HIDE DEF row
  <2>3. Active' = Active /\ Building' = {b} /\ b \in Existing'
    BY <2>1, <2>2 DEF Active, Building, Existing
  <2>4. PublishedChunks' = PublishedChunks
    BY <2>1 DEF PublishedChunks
  <2>5. JobsOf(b)' = PublishedChunks
    BY <1>5 DEF CreateBuilding, JobsOf, PendingJob, NoJob, PublishedChunks
  <2>6. OneActive' /\ PublishedSomewhere'
    BY <2>3 DEF GenerationsInv, OneActive, PublishedSomewhere
  <2>7. ManifestQueued'
    BY <2>1, <2>2, <2>3, <2>4, <2>5 DEF ManifestQueued, JobsOf
  <2>8. VectorsStay
    BY <2>3, <2>4, PointStep DEF VectorsStay, NoSilentMissingVectors, Active
  <2>9. ActiveCountsPublished'
    BY <2>1, <2>3, <2>4 DEF GenerationsInv, ActiveCountsPublished, Active
  <2> QED
    BY <2>6, <2>7, <2>8, <2>9 DEF GenerationsInv
<1>6. ASSUME NEW b \in Gens, ReconcileActive(b) PROVE Goal
  <2>1. b \in Active /\ job' = job
    BY <1>6 DEF ReconcileActive
  <2>2. /\ \A g \in Gens : gen'[g].status = gen[g].status
        /\ \A g \in Gens : g # b => gen'[g] = gen[g]
    <3>1. \A g \in Gens : g # b => gen'[g] = gen[g]
      BY <1>6 DEF ReconcileActive
    <3>2. gen'[b].status = gen[b].status
      BY <1>6 DEF ReconcileActive
    <3> QED
      BY <3>1, <3>2
  <2>3. Active' = Active /\ Building' = Building /\ Existing' = Existing /\ b \notin Building
    BY <2>1, <2>2 DEF Active, Building, Existing
  <2>4. \A e \in Docs : doc'[e].status = "published" <=>
                            e \in Publishable(b) \/ doc[e].status = "published"
    BY <1>6 DEF ReconcileActive, DocRow
  <2>5. PublishedChunks' = PublishedChunks \union {c \in Chunks : DocOf[c] \in Publishable(b)}
    BY <1>d, <2>4 DEF PublishedChunks
  <2>6. WrittenIndexed => {c \in Chunks : DocOf[c] \in Publishable(b)} \subseteq Indexed(b)
    BY DEF Publishable, Ready, AllCompleted, CompletedOf, ChunksOf, WrittenIndexed
  <2>7. OneActive' /\ PublishedSomewhere'
    BY <2>1, <2>3 DEF GenerationsInv, OneActive, PublishedSomewhere, Active, Existing
  <2>8. ManifestQueued'
    <3> SUFFICES ASSUME NEW g \in Building
                 PROVE  /\ gen'[g].manifest = JobsOf(g)'
                        /\ gen'[g].expected = Cardinality(gen'[g].manifest)
                        /\ gen'[g].manifest \subseteq PublishedChunks'
      BY <2>3 DEF ManifestQueued, JobsOf
    <3>1. g \in Gens /\ gen'[g] = gen[g] /\ JobsOf(g)' = JobsOf(g)
      BY <2>1, <2>2, <2>3 DEF Building, JobsOf
    <3> QED
      BY <2>5, <3>1 DEF GenerationsInv, ManifestQueued, JobsOf
  <2>9. VectorsStay
    <3> SUFFICES ASSUME OwnCollections, WrittenIndexed, NoSilentMissingVectors, NEW g \in Active
                 PROVE  PublishedChunks' \subseteq Indexed(g)'
      BY <2>3 DEF VectorsStay, NoSilentMissingVectors
    <3>1. g = b /\ PublishedChunks \subseteq Indexed(b)
      BY <2>1 DEF GenerationsInv, OneActive, NoSilentMissingVectors
    <3> QED
      BY <2>5, <2>6, <3>1, PointStep
  <2>10. ActiveCountsPublished'
    <3> DEFINE new == {c \in Chunks : DocOf[c] \in Publishable(b)}
               added == Cardinality(new)
    <3>1. /\ IsFiniteSet(new) /\ IsFiniteSet(PublishedChunks)
          /\ added \in Nat /\ Cardinality(PublishedChunks) \in Nat
      BY ChunkSets DEF PublishedChunks
    <3>2. new \intersect PublishedChunks = {}
      BY DEF Publishable, PublishedChunks
    <3>3. gen' = [gen EXCEPT ![b] = [gen[b] EXCEPT !.expected = gen[b].expected + added,
                                                  !.completed = gen[b].completed + added]]
      BY <1>6 DEF ReconcileActive
    <3> HIDE DEF new, added
    <3>4. Cardinality(PublishedChunks \union new) = Cardinality(PublishedChunks) + added
      <4>1. Cardinality(PublishedChunks \union new)
              = Cardinality(PublishedChunks) + Cardinality(new) - Cardinality({})
        BY <3>1, <3>2, FS_Union
      <4> QED
        BY <3>1, <4>1, FS_EmptySet DEF added
    <3>5. PublishedChunks' = PublishedChunks \union new
      BY <2>5 DEF new
    <3>6. gen[b].completed = Cardinality(PublishedChunks) /\ gen[b].expected = gen[b].completed
      BY <2>1 DEF GenerationsInv, ActiveCountsPublished
    <3>7. /\ gen'[b].expected = gen[b].expected + added
          /\ gen'[b].completed = gen[b].completed + added
      BY <2>1, <3>3 DEF GenRow
    <3>8. \A g \in Active' : g = b
      BY <2>1, <2>3 DEF GenerationsInv, OneActive
    <3> QED
      BY <3>4, <3>5, <3>6, <3>7, <3>8 DEF ActiveCountsPublished
  <2> QED
    BY <2>7, <2>8, <2>9, <2>10 DEF GenerationsInv
<1>7. ASSUME NEW b \in Gens, BuildingProgress(b) \/ BuildingDelta(b) \/ SwitchActive(b) PROVE Goal
  <2>1. gen[b].status = "building" /\ doc' = doc /\ points' = points
    BY <1>7 DEF BuildingProgress, BuildingDelta, SwitchActive, CheckedBuilding
  <2>2. PublishedChunks' = PublishedChunks /\ \A g \in Gens : Indexed(g)' = Indexed(g)
    BY <2>1 DEF PublishedChunks, Indexed
  <2>3. /\ gen[b].manifest = JobsOf(b)
        /\ gen[b].expected = Cardinality(gen[b].manifest)
        /\ gen[b].manifest \subseteq PublishedChunks
    BY <2>1 DEF GenerationsInv, ManifestQueued, Building, JobsOf
  <2>4. CASE BuildingProgress(b)
    <3>1. /\ \A g \in Gens : g # b => gen'[g] = gen[g]
          /\ gen'[b].status = gen[b].status
          /\ gen'[b].manifest = gen[b].manifest
          /\ gen'[b].expected = gen[b].expected
          /\ job' = job
      BY <2>4 DEF BuildingProgress, GenRow
    <3>2. Active' = Active /\ Building' = Building /\ Existing' = Existing
      BY <3>1 DEF Active, Building, Existing
    <3>3. ManifestQueued'
      BY <2>2, <3>1, <3>2 DEF GenerationsInv, ManifestQueued, Building
    <3>4. ActiveCountsPublished'
      BY <2>1, <2>2, <3>1, <3>2 DEF GenerationsInv, ActiveCountsPublished, Active
    <3> QED
      BY <2>2, <3>2, <3>3, <3>4
      DEF GenerationsInv, OneActive, PublishedSomewhere, VectorsStay, NoSilentMissingVectors, Active
  <2>5. CASE BuildingDelta(b)
    <3> DEFINE row == [gen[b] EXCEPT !.completed = Cardinality(JobsIn(b, "completed")),
                                     !.expected = gen[b].expected + Cardinality(Delta(b)),
                                     !.manifest = PublishedChunks]
    <3>1. gen' = [gen EXCEPT ![b] = row] /\ \A g \in Gens : g # b => job'[g] = job[g]
      BY <2>5 DEF BuildingDelta
    <3>2. /\ row.status = "building" /\ row.manifest = PublishedChunks
          /\ row.expected = gen[b].expected + Cardinality(Delta(b))
      BY <2>1 DEF GenRow
    <3> HIDE DEF row
    <3>3. Active' = Active /\ Building' = Building /\ Existing' = Existing
      BY <2>1, <3>1, <3>2 DEF Active, Building, Existing
    <3>4. Delta(b) = PublishedChunks \ JobsOf(b)
      BY DEF Delta, JobsOf, PublishedChunks
    <3>5. JobsOf(b)' = JobsOf(b) \union Delta(b)
      BY <2>5 DEF BuildingDelta, JobsOf, PendingJob, Delta, PublishedChunks
    <3>6. JobsOf(b)' = PublishedChunks
      BY <2>3, <3>4, <3>5
    <3>7. row.expected = Cardinality(PublishedChunks)
      <4>1. IsFiniteSet(JobsOf(b)) /\ IsFiniteSet(Delta(b))
        BY ChunkSets DEF JobsOf, Delta, PublishedChunks
      <4>2. JobsOf(b) \intersect Delta(b) = {} /\ JobsOf(b) \union Delta(b) = PublishedChunks
        BY <2>3, <3>4
      <4>3. Cardinality(PublishedChunks) =
              Cardinality(JobsOf(b)) + Cardinality(Delta(b)) - Cardinality({})
        BY <4>1, <4>2, FS_Union
      <4>4. Cardinality(JobsOf(b)) \in Nat /\ Cardinality(Delta(b)) \in Nat
            /\ Cardinality({}) = 0
        BY <4>1, FS_CardinalityType, FS_EmptySet
      <4> QED
        BY <2>3, <3>2, <4>3, <4>4
    <3>8. ManifestQueued'
      <4> SUFFICES ASSUME NEW g \in Building
                   PROVE  /\ gen'[g].manifest = JobsOf(g)'
                          /\ gen'[g].expected = Cardinality(gen'[g].manifest)
                          /\ gen'[g].manifest \subseteq PublishedChunks
        BY <2>2, <3>3 DEF ManifestQueued, JobsOf
      <4>1. CASE g = b
        BY <3>1, <3>2, <3>6, <3>7, <4>1 DEF Building
      <4>2. CASE g # b
        BY <3>1, <4>2 DEF GenerationsInv, ManifestQueued, Building, JobsOf
      <4> QED
        BY <4>1, <4>2
    <3>9. ActiveCountsPublished'
      BY <2>1, <2>2, <3>1, <3>3 DEF GenerationsInv, ActiveCountsPublished, Active
    <3> QED
      BY <2>2, <3>3, <3>8, <3>9
      DEF GenerationsInv, OneActive, PublishedSomewhere, VectorsStay, NoSilentMissingVectors, Active
  <2>6. CASE SwitchActive(b)
    <3>1. /\ gen'[b].status = "active"
          /\ \A g \in Gens \ {b} : g \notin Active => gen'[g] = gen[g]
          /\ \A g \in Active \ {b} : gen'[g].status = "retired"
          /\ job' = job
      <4>1. gen' = [h \in Gens |->
                      IF h = b THEN [gen[h] EXCEPT !.status = "active",
                                                   !.completed = Cardinality(JobsIn(b, "completed"))]
                      ELSE IF h \in Active THEN [gen[h] EXCEPT !.status = "retired"]
                      ELSE gen[h]]
            /\ job' = job
        BY <2>6 DEF SwitchActive
      <4>2. gen'[b].status = "active"
        BY <4>1 DEF GenRow
      <4>3. \A h \in Gens \ {b} : h \in Active => gen'[h].status = "retired"
        BY <4>1 DEF GenRow
      <4>4. \A h \in Gens \ {b} : h \notin Active => gen'[h] = gen[h]
        BY <4>1
      <4> QED
        BY <4>1, <4>2, <4>3, <4>4 DEF Active
    <3>2. Active' = {b} /\ Building' = Building \ {b} /\ b \in Existing'
      <4>1. \A h \in Gens \ {b} : /\ gen'[h].status # "active"
                                  /\ gen'[h].status = "building" <=> gen[h].status = "building"
        BY <2>1, <3>1 DEF Active
      <4> QED
        BY <3>1, <4>1 DEF Active, Building, Existing
    <3>3. JobsIn(b, "completed") = gen[b].manifest /\ gen[b].manifest = PublishedChunks
      <4>1. Cardinality(JobsIn(b, "completed")) = Cardinality(JobsOf(b))
        BY <2>3, <2>6 DEF SwitchActive, ManifestIndexed
      <4>2. JobsIn(b, "completed") \subseteq JobsOf(b) /\ IsFiniteSet(JobsOf(b))
        BY ChunkSets DEF JobsIn, JobsOf
      <4>3. JobsIn(b, "completed") = JobsOf(b)
        BY <4>1, <4>2, FS_Subset
      <4> QED
        BY <2>3, <2>6, <4>3 DEF SwitchActive
    <3>4. WrittenIndexed => PublishedChunks \subseteq Indexed(b)
      BY <3>3 DEF WrittenIndexed
    <3>5. ManifestQueued'
      BY <2>2, <3>1, <3>2 DEF GenerationsInv, ManifestQueued, Building
    <3>6. ActiveCountsPublished'
      <4>1. /\ gen'[b].completed = Cardinality(JobsIn(b, "completed"))
            /\ gen'[b].expected = gen[b].expected
        BY <2>6 DEF SwitchActive, GenRow
      <4> QED
        BY <2>2, <2>3, <3>2, <3>3, <4>1 DEF ActiveCountsPublished
    <3> QED
      BY <2>2, <3>2, <3>4, <3>5, <3>6
      DEF GenerationsInv, OneActive, PublishedSomewhere, VectorsStay, NoSilentMissingVectors
  <2> QED
    BY <1>7, <2>4, <2>5, <2>6
<1> QED
  BY <1>1, <1>2, <1>3, <1>4, <1>5, <1>6, <1>7 DEF Next, Request, Reconcile

LEMMA GenerationsInvariance == Spec => [](TypeInv /\ LeaseInv /\ GenerationsInv)
<1>1. Init => TypeInv /\ LeaseInv /\ GenerationsInv
  BY TypeInit, LeaseInit, VectorInit DEF VectorInv
<1>2. TypeInv /\ LeaseInv /\ GenerationsInv /\ [Next]_vars
        => (TypeInv /\ LeaseInv /\ GenerationsInv)'
  <2>1. TypeInv /\ LeaseInv /\ GenerationsInv /\ Next => GenerationsInv'
    BY GenerationsStep
  <2>2. GenerationsInv /\ UNCHANGED vars => GenerationsInv'
    BY DEF vars, GenerationsInv, OneActive, PublishedSomewhere, ManifestQueued,
       ActiveCountsPublished, Active, Building, Existing, PublishedChunks
  <2> QED
    BY <2>1, <2>2, TypeStep, LeaseStep
<1> QED
  BY <1>1, <1>2, PTL DEF Spec

\* The counters of the active generation are those of the published documents,
\* after every publication, failure and switch
\* (reconcile_active_generation, reconcile_building_generation).
THEOREM ActiveCounts == Spec => []ActiveCountsPublished
<1>1. GenerationsInv => ActiveCountsPublished
  BY DEF GenerationsInv
<1> QED
  BY <1>1, GenerationsInvariance, PTL

LEMMA VectorStep ==
    OwnCollections /\ TypeInv /\ LeaseInv /\ VectorInv /\ [Next]_vars => VectorInv'
<1>1. CASE Next
  BY <1>1, WrittenStep, GenerationsStep DEF VectorInv, VectorsStay
<1>2. CASE UNCHANGED vars
  BY <1>2 DEF vars, VectorInv, GenerationsInv, OneActive, PublishedSomewhere, ManifestQueued,
     ActiveCountsPublished, WrittenIndexed, NoSilentMissingVectors, Active, Building, Existing,
     PublishedChunks, JobsIn, Indexed
<1> QED
  BY <1>1, <1>2

\* When every generation has a collection of its own, the active one has a
\* point for every chunk of every published document.
THEOREM NoMissingVectors == OwnCollections => (Spec => []NoSilentMissingVectors)
<1> SUFFICES ASSUME OwnCollections PROVE Spec => []NoSilentMissingVectors
    OBVIOUS
<1>1. Init => TypeInv /\ LeaseInv /\ VectorInv
  BY TypeInit, LeaseInit, VectorInit
<1>2. TypeInv /\ LeaseInv /\ VectorInv /\ [Next]_vars => (TypeInv /\ LeaseInv /\ VectorInv)'
  BY TypeStep, LeaseStep, VectorStep
<1>3. VectorInv => NoSilentMissingVectors
  BY DEF VectorInv
<1> QED
  BY <1>1, <1>2, <1>3, PTL DEF Spec

-----------------------------------------------------------------------------
(* Publication, as bindings and reports see it *)

LEMMA AtMostOne ==
    ASSUME NEW S, IsFiniteSet(S), Cardinality(S) <= 1, NEW e \in S, NEW f \in S
    PROVE  e = f
<1> SUFFICES ASSUME e # f PROVE FALSE
    OBVIOUS
<1>1. IsFiniteSet({e}) /\ Cardinality({e}) = 1
  BY FS_Singleton
<1>2. Cardinality({e} \union {f}) = 2
  <2>1. f \notin {e}
    OBVIOUS
  <2>2. Cardinality({e} \union {f}) = IF f \in {e} THEN Cardinality({e}) ELSE Cardinality({e}) + 1
    BY <1>1, FS_AddElement, Zenon
  <2> QED BY <1>1, <2>1, <2>2
<1>3. Cardinality({e} \union {f}) <= Cardinality(S)
  BY FS_Subset
<1>4. Cardinality(S) \in Nat
  BY FS_CardinalityType
<1> QED BY <1>2, <1>3, <1>4

LEMMA PublishRefines ==
    ASSUME TypeInv, NEW d \in Docs, PublishDocument(d)
    PROVE  Versions!Publish(d)
<1>1. Published = Versions!Published
  BY DEF Published, Versions!Published
<1>2. doc[d].status = "draft"
  BY DEF PublishDocument
<1>3. OverlappingVersions(d) = Versions!Overlapping(d)
  BY <1>2 DEF OverlappingVersions, Overlap, Versions!Overlapping, Versions!Overlap,
     Versions!Published, Versions!Indexing
<1>4. /\ \A e \in OverlappingVersions(d) : IsClosablePredecessor(e, d)
      /\ Cardinality(OverlappingVersions(d)) <= 1
      /\ doc' = [e \in Docs |->
                    IF e = d THEN [doc[e] EXCEPT !.status = "indexing"]
                    ELSE IF e \in OverlappingVersions(d) THEN [doc[e] EXCEPT !.expiry = Effective[d]]
                    ELSE doc[e]]
  BY DEF PublishDocument
<1>5. OverlappingVersions(d) \subseteq Versions!Predecessors(d)
  <2> SUFFICES ASSUME NEW e \in OverlappingVersions(d) PROVE e \in Versions!Predecessors(d)
    OBVIOUS
  <2>1. e \in Docs /\ FamilyOf[e] = FamilyOf[d]
    BY DEF OverlappingVersions
  <2> QED BY <1>4, <2>1 DEF IsClosablePredecessor, Versions!Predecessors, Versions!Published
<1>6. /\ Versions!Overlapping(d) \subseteq Versions!Predecessors(d)
      /\ \A e, f \in Versions!Overlapping(d) : e = f
  <2>1. IsFiniteSet(OverlappingVersions(d))
    BY DocsAssumption, FS_Subset DEF OverlappingVersions
  <2> QED BY <2>1, <1>3, <1>4, <1>5, AtMostOne
<1>7. doc' = [e \in Docs |->
                  IF e = d THEN [doc[e] EXCEPT !.status = "indexing"]
                  ELSE IF e \in Versions!Overlapping(d)
                       THEN [doc[e] EXCEPT !.expiry = Effective[d]]
                  ELSE doc[e]]
  <2> DEFINE Doc(O) == [e \in Docs |->
                          IF e = d THEN [doc[e] EXCEPT !.status = "indexing"]
                          ELSE IF e \in O THEN [doc[e] EXCEPT !.expiry = Effective[d]]
                          ELSE doc[e]]
  <2>1. doc' = Doc(OverlappingVersions(d))
    BY <1>4
  <2> HIDE DEF Doc
  <2>2. doc' = Doc(Versions!Overlapping(d))
    BY <2>1, <1>3
  <2> QED BY <2>2 DEF Doc
<1> QED BY <1>2, <1>6, <1>7 DEF Versions!Publish

LEMMA ReconcileRefines ==
    ASSUME TypeInv, NEW g \in Gens, ReconcileActive(g)
    PROVE  \E S \in SUBSET Docs : Versions!Complete(S)
<1> DEFINE S == Publishable(g)
<1>1. S \in SUBSET Versions!Indexing
  BY DEF Publishable, Ready, Versions!Indexing
<1>2. Published = Versions!Published
  BY DEF Published, Versions!Published
<1>3. IntervalsDisjoint(Published \union S)
  BY DEF ReconcileActive
<1>4. doc' = [d \in Docs |-> IF d \in S THEN [doc[d] EXCEPT !.status = "published"] ELSE doc[d]]
  BY DEF ReconcileActive
<1> HIDE DEF S
<1>5. Versions!Disjoint(Versions!Published \union S)
  BY <1>2, <1>3 DEF IntervalsDisjoint, Overlap, Versions!Disjoint, Versions!Overlap
<1>6. S \in SUBSET Docs
  BY <1>1 DEF Versions!Indexing
<1> QED BY <1>1, <1>4, <1>5, <1>6 DEF Versions!Complete

LEMMA FailRefines ==
    ASSUME TypeInv, NEW w \in Workers, FinishTerminalFailure(w)
    PROVE  doc' = doc \/ \E d \in Docs : Versions!Fail(d)
<1> DEFINE d == DocOf[worker[w].c]
<1>1. doc' = FailDocument(d)
  BY DEF FinishTerminalFailure
<1>2. CASE doc[d].status = "indexing" /\ d \in Docs
  BY <1>1, <1>2 DEF FailDocument, Versions!Fail, Versions!Indexing
<1>3. CASE doc[d].status # "indexing"
  BY <1>1, <1>3 DEF FailDocument
<1>4. d \in Docs
  BY ChunksAssumption DEF TypeInv, BusyWorkers, TypeOK, FinishTerminalFailure
<1> QED BY <1>2, <1>3, <1>4

\* Workers and reconciliations publish, fail and close documents only as
\* PolicyVersions says (publish_policy_document, reconcile_active_generation,
\* record_job_failure, retry_failed_document).
THEOREM Refinement == Spec => ImplementsVersions
<1>1. Init => Versions!Init
  BY DEF Init, Versions!Init
<1>2. TypeInv /\ [Next]_vars => [Versions!Next]_doc
  <2> SUFFICES ASSUME TypeInv, [Next]_vars, doc' # doc PROVE Versions!Next
    OBVIOUS
  <2>1. ASSUME NEW d \in Docs, PublishDocument(d) PROVE Versions!Next
    BY <2>1, PublishRefines DEF Versions!Next
  <2>2. ASSUME NEW d \in Docs, RetryFailedDocument(d) PROVE Versions!Next
    BY <2>2 DEF RetryFailedDocument, Versions!Retry, Versions!Next
  <2>3. ASSUME NEW g \in Gens, ReconcileActive(g) PROVE Versions!Next
    BY <2>3, ReconcileRefines DEF Versions!Next
  <2>4. ASSUME NEW w \in Workers, FinishTerminalFailure(w) PROVE Versions!Next
    BY <2>4, FailRefines DEF Versions!Next
  <2>5. ASSUME NEW g \in Gens, CreateBuilding(g) \/ RetryFailedGeneration(g) PROVE FALSE
    BY <2>5 DEF CreateBuilding, RetryFailedGeneration
  <2>6. ASSUME NEW g \in Gens, BuildingProgress(g) \/ BuildingDelta(g) \/ SwitchActive(g)
        PROVE  FALSE
    <3>1. CASE BuildingProgress(g)
      BY <3>1 DEF BuildingProgress, CheckedBuilding
    <3>2. CASE BuildingDelta(g)
      BY <3>2 DEF BuildingDelta, CheckedBuilding
    <3>3. CASE SwitchActive(g)
      BY <3>3 DEF SwitchActive, CheckedBuilding
    <3> QED BY <2>6, <3>1, <3>2, <3>3
  <2>7. ASSUME NEW w \in Workers, NEW g \in Gens, NEW c \in Chunks, ClaimJob(w, g, c)
        PROVE  FALSE
    BY <2>7 DEF ClaimJob
  <2>8. ASSUME NEW w \in Workers,
               BeginExecute(w) \/ LoseLease(w) \/ UpsertPoint(w) \/ UpsertFails(w)
               \/ CompleteJob(w) \/ RecordRetryableFailure(w)
        PROVE  FALSE
    BY <2>8 DEF BeginExecute, LoseLease, UpsertPoint, UpsertFails, CompleteJob,
       RecordRetryableFailure
  <2>9. ASSUME NEW w \in Workers, BeginTerminalFailure(w) \/ AbortTerminalFailure(w) \/ Crash(w)
        PROVE  FALSE
    BY <2>9 DEF BeginTerminalFailure, AbortTerminalFailure, Crash
  <2>10. CASE UNCHANGED vars
    BY <2>10 DEF vars
  <2> QED
    BY <2>1, <2>2, <2>3, <2>4, <2>5, <2>6, <2>7, <2>8, <2>9, <2>10
       DEF Next, Request, Reconcile, Proceed, Claim, WorkerFault
<1>3. Init => TypeInv
  BY TypeInit
<1>4. TypeInv /\ [Next]_vars => TypeInv'
  BY TypeStep
<1> QED BY <1>1, <1>2, <1>3, <1>4, PTL DEF Spec, ImplementsVersions, Versions!Spec

-----------------------------------------------------------------------------
(* What a step may do to the generations *)

\* Building a generation in a collection of its own, workers that crash and
\* writes that come late leave the points of the active generation alone
\* (upsert_chunks).
THEOREM ActivePointsStay == OwnCollections => (Spec => ActivePointsKept)
<1> SUFFICES ASSUME OwnCollections PROVE Spec => ActivePointsKept
    OBVIOUS
<1>1. TypeInv /\ [Next]_vars => [\A g \in Active : Indexed(g) \subseteq Indexed(g)']_vars
  BY PointStep DEF Active
<1>2. Init => TypeInv
  BY TypeInit
<1>3. TypeInv /\ [Next]_vars => TypeInv'
  BY TypeStep
<1> QED
  BY <1>1, <1>2, <1>3, PTL DEF Spec, ActivePointsKept

\* A building generation gets a job only in its delta, when its manifest is
\* indexed.
LEMMA ManifestStep ==
    ASSUME TypeInv, LeaseInv, GenerationsInv, Next, NEW g \in Building, NEW c \in Chunks,
           job[g][c].status = "absent", job'[g][c].status # "absent"
    PROVE  JobsIn(g, "completed") = gen[g].manifest
<1> USE DEF TypeInv, TypeOK
<1>0. g \in Gens /\ gen[g].status = "building"
  BY DEF Building
<1>1. ASSUME NEW d \in Docs, PublishDocument(d) PROVE FALSE
  <2>1. PICK h \in Gens : ActiveGeneration(h) /\ \A k \in Gens : k # h => job'[k] = job[k]
    BY <1>1 DEF PublishDocument
  <2>2. h # g
    BY <1>0, <2>1 DEF ActiveGeneration, Existing, Active
  <2> QED
    BY <1>0, <2>1, <2>2
<1>2. ASSUME NEW d \in Docs, RetryFailedDocument(d) PROVE FALSE
  BY <1>0, <1>2 DEF RetryFailedDocument
<1>3. ASSUME NEW b \in Gens, CreateBuilding(b) PROVE FALSE
  BY <1>3 DEF CreateBuilding
<1>4. ASSUME NEW b \in Gens, RetryFailedGeneration(b) PROVE FALSE
  BY <1>0, <1>4 DEF RetryFailedGeneration, JobsIn
<1>5. ASSUME NEW b \in Gens, ReconcileActive(b) \/ BuildingProgress(b) \/ SwitchActive(b)
      PROVE  FALSE
  BY <1>5 DEF ReconcileActive, BuildingProgress, SwitchActive
<1>6. ASSUME NEW b \in Gens, BuildingDelta(b)
      PROVE  JobsIn(g, "completed") = gen[g].manifest
  <2>1. b = g
    BY <1>0, <1>6 DEF BuildingDelta
  <2>2. gen[g].manifest = JobsOf(g) /\ gen[g].expected = Cardinality(gen[g].manifest)
    BY DEF GenerationsInv, ManifestQueued, JobsOf
  <2>3. Cardinality(JobsIn(g, "completed")) = Cardinality(JobsOf(g))
    BY <1>6, <2>1, <2>2 DEF BuildingDelta, ManifestIndexed
  <2>4. JobsIn(g, "completed") \subseteq JobsOf(g) /\ IsFiniteSet(JobsOf(g))
    BY ChunkSets DEF JobsIn, JobsOf
  <2> QED
    BY <2>2, <2>3, <2>4, FS_Subset
<1>7. ASSUME NEW w \in Workers, Claim(w) \/ Proceed(w) \/ WorkerFault(w) PROVE FALSE
  BY <1>0, <1>7, WorkerRows
<1> QED
  BY <1>1, <1>2, <1>3, <1>4, <1>5, <1>6, <1>7 DEF Next, Request, Reconcile

\* A building generation takes new documents only as a delta, once all of its
\* frozen manifest is indexed (create_building_generation,
\* reconcile_building_generation).
THEOREM ManifestFrozen == Spec => BuildingManifestFrozen
<1> DEFINE Frozen == \A g \in Building, c \in Chunks :
                        job[g][c].status = "absent" /\ job'[g][c].status # "absent" =>
                            JobsIn(g, "completed") = gen[g].manifest
<1>1. TypeInv /\ LeaseInv /\ GenerationsInv /\ [Next]_vars => [Frozen]_vars
  BY ManifestStep
<1>2. BuildingManifestFrozen <=> [][Frozen]_vars
  BY DEF BuildingManifestFrozen
<1> QED
  BY <1>1, <1>2, GenerationsInvariance, PTL DEF Spec

-----------------------------------------------------------------------------
(* Index rows and intervals *)

\* A document index row is completed with all jobs of the document.
CompletedDone ==
    \A g \in Gens, d \in Docs : dix[g][d] = "completed" => AllCompleted(g, d)

\* The siblings that a worker fails are chunks of its document.
SiblingsOfDoc ==
    \A w \in Workers : worker[w].pc = "failing" =>
        Siblings(w) \subseteq ChunksOf(DocOf[worker[w].c])

\* Published intervals are disjoint, and none is empty.
IntervalsInv ==
    /\ IntervalsDisjoint(Published)
    /\ \A d \in Docs : Effective[d] < doc[d].expiry

RowsInv == CompletedDone /\ SiblingsOfDoc /\ IntervalsInv

LEMMA RowsInit == Init => RowsInv
BY DatesAssumption
DEF Init, RowsInv, CompletedDone, SiblingsOfDoc, IntervalsInv, IntervalsDisjoint, Published, Idle

LEMMA SiblingsStep ==
    ASSUME TypeInv, LeaseInv, SiblingsOfDoc, Next
    PROVE  SiblingsOfDoc'
<1> SUFFICES ASSUME NEW w \in Workers, worker'[w].pc = "failing"
             PROVE  worker'[w].pending \union worker'[w].running
                        \subseteq ChunksOf(DocOf[worker'[w].c])
  BY DEF SiblingsOfDoc, Siblings
<1>1. CASE worker'[w] = worker[w]
  BY <1>1 DEF SiblingsOfDoc, Siblings
<1>2. CASE worker'[w] # worker[w]
  <2>1. BeginTerminalFailure(w)
    BY <1>2, LockStep DEF Locking
  <2>2. /\ worker'[w].c = worker[w].c
        /\ worker'[w].pending \subseteq ChunksOf(DocOf[worker[w].c])
        /\ worker'[w].running \subseteq ChunksOf(DocOf[worker[w].c])
    BY <2>1 DEF BeginTerminalFailure, TypeInv, TypeOK, WorkerState
  <2> QED
    BY <2>2
<1> QED
  BY <1>1, <1>2

\* A completed job stays so, unless its index row is no longer completed.
LEMMA CompletedKept ==
    ASSUME TypeInv, LeaseInv, RowsInv, Next, NEW g \in Gens, NEW c \in Chunks,
           job[g][c].status = "completed", job'[g][c] # job[g][c]
    PROVE  dix'[g][DocOf[c]] # "completed"
<1> DEFINE Goal == dix'[g][DocOf[c]] # "completed"
<1>0. DocOf[c] \in Docs
  BY ChunksAssumption
<1> USE <1>0 DEF TypeInv, TypeOK
<1>1. ASSUME NEW d \in Docs, PublishDocument(d) PROVE Goal
  <2>1. DocOf[c] \in Queued(d)
    BY <1>1 DEF PublishDocument
  <2> QED
    BY <1>1, <2>1 DEF PublishDocument
<1>2. ASSUME NEW d \in Docs, RetryFailedDocument(d) PROVE Goal
  BY <1>2 DEF RetryFailedDocument
<1>3. ASSUME NEW b \in Gens, CreateBuilding(b) PROVE Goal
  BY <1>3 DEF CreateBuilding
<1>4. ASSUME NEW b \in Gens, RetryFailedGeneration(b) PROVE Goal
  BY <1>4 DEF RetryFailedGeneration, JobsIn
<1>5. ASSUME NEW b \in Gens, ReconcileActive(b) \/ BuildingProgress(b) \/ SwitchActive(b)
      PROVE  Goal
  BY <1>5 DEF ReconcileActive, BuildingProgress, SwitchActive
<1>6. ASSUME NEW b \in Gens, BuildingDelta(b) PROVE Goal
  BY <1>6 DEF BuildingDelta, Delta
<1>7. ASSUME NEW w \in Workers, NEW b \in Gens, NEW e \in Chunks, ClaimJob(w, b, e) PROVE Goal
  BY <1>7 DEF ClaimJob, Claimable
<1>8. ASSUME NEW w \in Workers, CompleteJob(w) \/ RecordRetryableFailure(w) PROVE Goal
  <2>1. HoldsLease(w)
    BY <1>8 DEF CompleteJob, RecordRetryableFailure
  <2>2. worker[w].g = g /\ worker[w].c = c
    BY <1>8 DEF CompleteJob, RecordRetryableFailure
  <2> QED
    BY <2>1, <2>2 DEF HoldsLease
<1>9. ASSUME NEW w \in Workers, FinishTerminalFailure(w) PROVE Goal
  <2>1. worker[w].g = g /\ (c = worker[w].c \/ c \in Siblings(w)) /\ worker[w].pc = "failing"
    BY <1>9 DEF FinishTerminalFailure
  <2>2. DocOf[c] = DocOf[worker[w].c]
    BY <2>1 DEF RowsInv, SiblingsOfDoc, ChunksOf
  <2>3. dix' = [dix EXCEPT ![g][DocOf[c]] = "failed"]
    BY <1>9, <2>1, <2>2 DEF FinishTerminalFailure
  <2> QED
    BY <2>3
<1>10. ASSUME NEW w \in Workers,
              BeginExecute(w) \/ LoseLease(w) \/ UpsertPoint(w) \/ UpsertFails(w)
              \/ BeginTerminalFailure(w) \/ AbortTerminalFailure(w) \/ Crash(w)
       PROVE  Goal
  BY <1>10 DEF BeginExecute, LoseLease, UpsertPoint, UpsertFails, BeginTerminalFailure,
     AbortTerminalFailure, Crash
<1> QED
  BY <1>1, <1>2, <1>3, <1>4, <1>5, <1>6, <1>7, <1>8, <1>9, <1>10
  DEF Next, Request, Reconcile, Claim, Proceed, WorkerFault

\* Only reconciliation completes an index row, when all its jobs are completed.
LEMMA RowCompleted ==
    ASSUME TypeInv, Next, NEW g \in Gens, NEW d \in Docs,
           dix'[g][d] = "completed", dix[g][d] # "completed"
    PROVE  AllCompleted(g, d)
<1> DEFINE Goal == AllCompleted(g, d)
<1> USE DEF TypeInv, TypeOK
<1>1. ASSUME NEW e \in Docs, PublishDocument(e) PROVE FALSE
  <2>1. PICK h \in Gens :
            dix' = [dix EXCEPT ![h] = [x \in Docs |->
                        IF x \in Queued(e) THEN "indexing" ELSE dix[h][x]]]
    BY <1>1 DEF PublishDocument
  <2> QED
    BY <2>1
<1>r. ASSUME NEW e \in Docs, RetryFailedDocument(e) PROVE FALSE
  <2>1. PICK h \in Gens : dix' = [dix EXCEPT ![h][e] = "indexing"]
    BY <1>r DEF RetryFailedDocument
  <2> QED
    BY <2>1
<1>2. ASSUME NEW b \in Gens, CreateBuilding(b) PROVE FALSE
  BY <1>2 DEF CreateBuilding
<1>f. ASSUME NEW b \in Gens, RetryFailedGeneration(b) PROVE FALSE
  BY <1>f DEF RetryFailedGeneration
<1>3. ASSUME NEW b \in Gens, ReconcileActive(b) PROVE Goal
  <2>1. b = g /\ d \in Ready(g)
    BY <1>3 DEF ReconcileActive, Publishable
  <2> QED
    BY <2>1 DEF Ready
<1>4. ASSUME NEW b \in Gens, BuildingProgress(b) \/ BuildingDelta(b) \/ SwitchActive(b)
      PROVE  Goal
  <2>1. b = g
    BY <1>4 DEF BuildingProgress, BuildingDelta, SwitchActive
  <2>2. CASE BuildingProgress(g) \/ SwitchActive(g)
    <3>1. dix' = [dix EXCEPT ![g] = CompletedIndexes(g)]
      BY <2>2 DEF BuildingProgress, SwitchActive
    <3> QED
      BY <3>1 DEF CompletedIndexes
  <2>3. CASE BuildingDelta(g)
    <3>1. CompletedIndexes(g)[d] = "completed"
      BY <2>3 DEF BuildingDelta
    <3> QED
      BY <3>1 DEF CompletedIndexes
  <2> QED
    BY <1>4, <2>1, <2>2, <2>3
<1>5. ASSUME NEW w \in Workers, FinishTerminalFailure(w) PROVE Goal
  BY <1>5 DEF FinishTerminalFailure
<1>6. ASSUME NEW w \in Workers,
             Claim(w) \/ BeginExecute(w) \/ LoseLease(w) \/ UpsertPoint(w) \/ UpsertFails(w)
             \/ CompleteJob(w) \/ RecordRetryableFailure(w) \/ BeginTerminalFailure(w)
             \/ AbortTerminalFailure(w) \/ Crash(w)
      PROVE  Goal
  BY <1>6 DEF Claim, ClaimJob, BeginExecute, LoseLease, UpsertPoint, UpsertFails, CompleteJob,
     RecordRetryableFailure, BeginTerminalFailure, AbortTerminalFailure, Crash
<1> QED
  BY <1>1, <1>r, <1>2, <1>f, <1>3, <1>4, <1>5, <1>6
  DEF Next, Request, Reconcile, Proceed, WorkerFault

LEMMA DoneStep ==
    ASSUME TypeInv, LeaseInv, RowsInv, Next
    PROVE  CompletedDone'
<1> SUFFICES ASSUME NEW g \in Gens, NEW d \in Docs, dix'[g][d] = "completed",
                    NEW c \in ChunksOf(d)
             PROVE  job'[g][c].status = "completed"
  BY DEF CompletedDone, AllCompleted, CompletedOf, JobsIn, ChunksOf
<1>1. AllCompleted(g, d)
  BY RowCompleted DEF RowsInv, CompletedDone
<1>2. c \in Chunks /\ DocOf[c] = d /\ job[g][c].status = "completed"
  BY <1>1 DEF AllCompleted, CompletedOf, JobsIn, ChunksOf
<1> QED
  BY <1>2, CompletedKept

\* What the steps but publication and reconciliation do to the documents.
LEMMA DocStep ==
    ASSUME TypeInv, Next
    PROVE  \/ \E d \in Docs : PublishDocument(d)
           \/ \E g \in Gens : ReconcileActive(g)
           \/ /\ Published' = Published
              /\ \A d \in Docs : doc'[d].expiry = doc[d].expiry
<1> DEFINE Same == /\ Published' = Published
                   /\ \A d \in Docs : doc'[d].expiry = doc[d].expiry
<1> USE DEF TypeInv, TypeOK
<1>0. doc' = doc => Same
  BY DEF Published
<1>1. ASSUME NEW d \in Docs, RetryFailedDocument(d) PROVE Same
  BY <1>1 DEF RetryFailedDocument, Published, DocRow
<1>2. ASSUME NEW w \in Workers, FinishTerminalFailure(w) PROVE Same
  <2> DEFINE d == DocOf[worker[w].c]
  <2>1. \/ doc' = doc
        \/ doc[d].status = "indexing" /\ doc' = [doc EXCEPT ![d] = [doc[d] EXCEPT !.status = "failed"]]
    BY <1>2 DEF FinishTerminalFailure, FailDocument
  <2> HIDE DEF d
  <2>2. doc[d].status = "indexing" /\ doc' = [doc EXCEPT ![d] = [doc[d] EXCEPT !.status = "failed"]]
        => Same
    BY DEF Published, DocRow
  <2> QED
    BY <1>0, <2>1, <2>2
<1>3. ASSUME NEW g \in Gens, CreateBuilding(g) \/ RetryFailedGeneration(g) PROVE Same
  BY <1>0, <1>3 DEF CreateBuilding, RetryFailedGeneration
<1>4. ASSUME NEW g \in Gens, BuildingProgress(g) \/ BuildingDelta(g) \/ SwitchActive(g) PROVE Same
  BY <1>0, <1>4 DEF BuildingProgress, BuildingDelta, SwitchActive, CheckedBuilding
<1>5. ASSUME NEW w \in Workers,
             Claim(w) \/ BeginExecute(w) \/ LoseLease(w) \/ UpsertPoint(w) \/ UpsertFails(w)
             \/ CompleteJob(w) \/ RecordRetryableFailure(w) \/ BeginTerminalFailure(w)
             \/ AbortTerminalFailure(w) \/ Crash(w)
      PROVE  Same
  BY <1>0, <1>5 DEF Claim, ClaimJob, BeginExecute, LoseLease, UpsertPoint, UpsertFails,
     CompleteJob, RecordRetryableFailure, BeginTerminalFailure, AbortTerminalFailure, Crash
<1> QED
  BY <1>1, <1>2, <1>3, <1>4, <1>5 DEF Next, Request, Reconcile, Proceed, WorkerFault

\* Publication closes the intervals of the versions that it overlaps.
LEMMA PublishedIntervals ==
    ASSUME TypeInv, NEW d \in Docs, PublishDocument(d)
    PROVE  /\ Published' = Published
           /\ \A e \in Docs : \/ doc'[e].expiry = doc[e].expiry
                              \/ /\ e \in OverlappingVersions(d)
                                 /\ IsClosablePredecessor(e, d)
                                 /\ doc'[e].expiry = Effective[d]
<1> USE DEF TypeInv, TypeOK
<1>1. \A e \in Docs : doc'[e] = IF e = d THEN [doc[e] EXCEPT !.status = "indexing"]
                                ELSE IF e \in OverlappingVersions(d)
                                     THEN [doc[e] EXCEPT !.expiry = Effective[d]]
                                ELSE doc[e]
  BY DEF PublishDocument
<1>2. doc[d].status = "draft" /\ \A e \in OverlappingVersions(d) : IsClosablePredecessor(e, d)
  BY DEF PublishDocument
<1>3. ASSUME NEW e \in Docs
      PROVE  /\ doc'[e].status = IF e = d THEN "indexing" ELSE doc[e].status
             /\ \/ doc'[e].expiry = doc[e].expiry
                \/ e \in OverlappingVersions(d) /\ doc'[e].expiry = Effective[d]
  <2>1. doc[e] \in [status : DocStatus, expiry : 0..Never]
    BY DEF DocRow
  <2>2. CASE e = d
    BY <1>1, <2>1, <2>2
  <2>3. CASE e # d /\ e \in OverlappingVersions(d)
    BY <1>1, <2>1, <2>3
  <2>4. CASE e # d /\ e \notin OverlappingVersions(d)
    BY <1>1, <2>4
  <2> QED
    BY <2>2, <2>3, <2>4
<1>4. Published' = Published
  BY <1>2, <1>3 DEF Published
<1> QED
  BY <1>2, <1>3, <1>4

LEMMA ReconciledIntervals ==
    ASSUME TypeInv, NEW g \in Gens, ReconcileActive(g)
    PROVE  /\ Published' = Published \union Publishable(g)
           /\ Publishable(g) \subseteq Docs
           /\ \A e \in Docs : doc'[e].expiry = doc[e].expiry
<1> USE DEF TypeInv, TypeOK
<1>1. \A e \in Docs : doc'[e] = IF e \in Publishable(g)
                                THEN [doc[e] EXCEPT !.status = "published"] ELSE doc[e]
  BY DEF ReconcileActive
<1>2. Publishable(g) \subseteq Docs
  BY DEF Publishable, Ready
<1> QED
  BY <1>1, <1>2 DEF Published, DocRow

LEMMA IntervalsStep ==
    ASSUME TypeInv, IntervalsInv, Next
    PROVE  IntervalsInv'
<1> DEFINE Goal == IntervalsInv'
<1>0. \A d \in Docs : Effective[d] \in Nat /\ doc[d].expiry \in Nat /\ Effective[d] < Never
  BY DatesAssumption DEF TypeInv, TypeOK, DocRow
<1>n. Never \in Nat
  BY DatesAssumption
<1>1. ASSUME NEW d \in Docs, PublishDocument(d) PROVE Goal
  <2>1. \A e \in Docs : \/ doc'[e].expiry = doc[e].expiry
                        \/ /\ doc[e].expiry = Never
                           /\ Effective[e] < Effective[d] /\ doc'[e].expiry = Effective[d]
    BY <1>1, PublishedIntervals DEF IsClosablePredecessor
  <2>2. \A e \in Docs : /\ Effective[e] < doc'[e].expiry
                        /\ doc'[e].expiry <= doc[e].expiry /\ doc'[e].expiry \in Nat
    BY <1>0, <1>n, <2>1 DEF IntervalsInv
  <2>3. Published' = Published /\ Published \subseteq Docs
    BY <1>1, PublishedIntervals DEF Published
  <2>4. ASSUME NEW a \in Published, NEW b \in Published, a # b, FamilyOf[a] = FamilyOf[b]
        PROVE  ~Overlap(Effective[a], doc'[a].expiry, Effective[b], doc'[b].expiry)
    <3>1. ~Overlap(Effective[a], doc[a].expiry, Effective[b], doc[b].expiry)
      BY <2>4 DEF IntervalsInv, IntervalsDisjoint
    <3> QED
      BY <1>0, <2>2, <2>3, <3>1 DEF Overlap
  <2> QED
    BY <2>2, <2>3, <2>4 DEF IntervalsInv, IntervalsDisjoint
<1>2. ASSUME NEW g \in Gens, ReconcileActive(g) PROVE Goal
  <2>1. /\ Published' = Published \union Publishable(g)
        /\ Published \union Publishable(g) \subseteq Docs
        /\ \A e \in Docs : doc'[e].expiry = doc[e].expiry
    BY <1>2, ReconciledIntervals DEF Published
  <2>2. IntervalsDisjoint(Published \union Publishable(g))
    BY <1>2 DEF ReconcileActive
  <2> QED
    BY <2>1, <2>2 DEF IntervalsInv, IntervalsDisjoint
<1>3. ASSUME Published' = Published, \A d \in Docs : doc'[d].expiry = doc[d].expiry PROVE Goal
  <2>1. Published \subseteq Docs
    BY DEF Published
  <2> QED
    BY <1>3, <2>1 DEF IntervalsInv, IntervalsDisjoint
<1> QED
  BY <1>1, <1>2, <1>3, DocStep

LEMMA RowsStep == TypeInv /\ LeaseInv /\ RowsInv /\ [Next]_vars => RowsInv'
<1> SUFFICES ASSUME TypeInv, LeaseInv, RowsInv, [Next]_vars PROVE RowsInv'
    OBVIOUS
<1>1. CASE Next
  BY <1>1, SiblingsStep, DoneStep, IntervalsStep DEF RowsInv
<1>2. CASE UNCHANGED vars
  BY <1>2 DEF vars, RowsInv, CompletedDone, SiblingsOfDoc, IntervalsInv, IntervalsDisjoint,
     Published, AllCompleted, CompletedOf, JobsIn, Siblings
<1> QED
  BY <1>1, <1>2

\* Of a family at most one published version is in effect on a day, and each is
\* on some day: publication closes the interval of the version before, and
\* never moves one forward (publish_policy_document, the exclusion constraint
\* of policy_document).
THEOREM VersionsApart ==
    Spec => [](IntervalsDisjoint(Published) /\ \A d \in Docs : Effective[d] < doc[d].expiry)
<1>1. TypeInv /\ LeaseInv /\ RowsInv /\ [Next]_vars => RowsInv'
  BY RowsStep
<1>2. RowsInv => IntervalsDisjoint(Published) /\ \A d \in Docs : Effective[d] < doc[d].expiry
  BY DEF RowsInv, IntervalsInv
<1> QED
  BY <1>1, <1>2, RowsInit, GenerationsInvariance, PTL DEF Spec

-----------------------------------------------------------------------------
(* What a search finds, before the first switch *)

\* The first generation is not replaced.  While another one is being built,
\* publication queues nothing again in that one: its points may show an
\* interval from before a closing.
FirstServes == gen[1].status # "retired"

\* The first generation comes before the others, and retires after one.
FirstComesFirst ==
    /\ gen[1].status = "absent" => Existing = {}
    /\ gen[1].status = "building" => Existing = {1}
    /\ gen[1].status = "retired" => Existing # {1}

\* A completed job has written the document's expiry as it is now; so will, or
\* has, a worker that holds the job's row.
PointsFresh ==
    FirstServes => \A c \in Chunks :
        LET expiry == doc[DocOf[c]].expiry
            point == points[CollectionOf[1]][c]
        IN  /\ job[1][c].status = "completed" => point.expiry = expiry
            /\ \A w \in LockHolders(1, c) :
                /\ worker[w].pc = "executing" => worker[w].expiry = expiry
                /\ worker[w].pc = "upserted" => point.expiry = expiry

\* Every published document is indexed where it was published.
PublishedIndexed == FirstServes => \A d \in Published : dix[1][d] # "absent"

\* The points of a version are closed before the version that follows on it is
\* published.
PredecessorsClosed ==
    FirstServes => \A d, e \in Published :
        FamilyOf[d] = FamilyOf[e] /\ doc[d].expiry = Effective[e] =>
            \A c \in ChunksOf(d) : points[CollectionOf[1]][c].expiry = doc[d].expiry

FreshInv == FirstComesFirst /\ PointsFresh /\ PublishedIndexed /\ PredecessorsClosed

LEMMA One == 1 \in Gens
BY BoundsAssumption DEF Gens

LEMMA FreshInit == Init => FreshInv
BY ChunksAssumption, One
DEF Init, FreshInv, FirstComesFirst, Existing, NoGen, PointsFresh, PublishedIndexed, PredecessorsClosed, Published, NoJob, Idle,
    LockHolders

\* While the first generation serves, no other one is active.
LEMMA FirstActive ==
    ASSUME TypeInv, GenerationsInv, FirstComesFirst, FirstServes PROVE Active \subseteq {1}
<1> SUFFICES ASSUME NEW g \in Active, g # 1 PROVE FALSE
    OBVIOUS
<1>1. g \in Existing /\ 1 \notin Active
  BY One DEF GenerationsInv, OneActive, Active, Existing
<1>2. gen[1].status \notin {"absent", "building", "active", "retired"}
  BY <1>1, One DEF FirstComesFirst, FirstServes, Active
<1> QED
  BY <1>2, One DEF TypeInv, TypeOK, GenRow, GenStatus

LEMMA FirstStep ==
    ASSUME TypeInv, FirstComesFirst, Next
    PROVE  FirstComesFirst' /\ (FirstServes' => FirstServes)
<1> DEFINE Goal == FirstComesFirst' /\ (FirstServes' => FirstServes)
<1> USE One DEF TypeInv, TypeOK
<1>0. ASSUME \A g \in Gens : gen'[g].status = gen[g].status PROVE Goal
  BY <1>0 DEF FirstComesFirst, FirstServes, Existing
<1>1. ASSUME NEW d \in Docs, PublishDocument(d) PROVE Goal
  <2>1. CASE gen' = gen
    BY <1>0, <2>1
  <2>2. CASE gen' # gen
    <3>1. Existing = {} /\ gen' = [gen EXCEPT ![1] = [NoGen EXCEPT !.status = "active"]]
      BY <1>1, <2>2 DEF PublishDocument, ActiveGeneration
    <3>2. gen'[1].status = "active"
      BY <3>1 DEF NoGen
    <3>3. gen[1].status = "absent"
      BY <3>1 DEF Existing
    <3> QED
      BY <3>2, <3>3 DEF FirstComesFirst, FirstServes
  <2> QED
    BY <2>1, <2>2
<1>2. ASSUME NEW g \in Gens, CreateBuilding(g) PROVE Goal
  <2>1. /\ Existing = 1..g-1 /\ Building = {}
        /\ gen'[g].status = "building" /\ \A h \in Gens \ {g} : gen'[h] = gen[h]
    BY <1>2 DEF CreateBuilding
  <2>2. Existing' = Existing \union {g}
    BY <2>1 DEF Existing
  <2>3. g \in Nat \ {0}
    BY DEF Gens
  <2>4. CASE g = 1
    BY <2>1, <2>2, <2>4 DEF FirstComesFirst, FirstServes, Existing
  <2>5. CASE g # 1
    <3>1. 1 \in Existing
      BY <2>1, <2>3, <2>5
    <3>2. gen[1].status \notin {"absent", "building"} /\ gen'[1] = gen[1]
      BY <2>1, <2>5, <3>1 DEF Existing, Building
    <3>3. Existing' # {1}
      BY <2>2, <2>5
    <3> QED
      BY <3>2, <3>3 DEF FirstComesFirst, FirstServes
  <2> QED
    BY <2>4, <2>5
<1>3. ASSUME NEW g \in Gens, ReconcileActive(g) \/ BuildingProgress(g) \/ BuildingDelta(g)
      PROVE  Goal
  <2>1. \A h \in Gens : h # g => gen'[h] = gen[h]
    BY <1>3 DEF ReconcileActive, BuildingProgress, BuildingDelta
  <2>2. gen'[g].status = gen[g].status
    <3>1. CASE ReconcileActive(g)
      BY <3>1 DEF ReconcileActive
    <3>2. CASE BuildingProgress(g)
      BY <3>2 DEF BuildingProgress
    <3>3. CASE BuildingDelta(g)
      BY <3>3 DEF BuildingDelta
    <3> QED
      BY <1>3, <3>1, <3>2, <3>3
  <2> QED
    BY <1>0, <2>1, <2>2
<1>4. ASSUME NEW g \in Gens, SwitchActive(g) PROVE Goal
  <2> DEFINE n == Cardinality(JobsIn(g, "completed"))
  <2>1. gen[g].status = "building" /\ gen'[g].status = "active"
    <3>1. gen'[g] = [gen[g] EXCEPT !.status = "active", !.completed = n]
      BY <1>4 DEF SwitchActive
    <3>2. gen[g] \in GenRow
      OBVIOUS
    <3> HIDE DEF n
    <3>3. gen'[g].status = "active"
      BY <3>1, <3>2 DEF GenRow
    <3> QED
      BY <1>4, <3>3 DEF SwitchActive, CheckedBuilding
  <2>2. CASE g = 1
    BY <2>1, <2>2 DEF FirstComesFirst, FirstServes
  <2>3. CASE g # 1
    <3>1. g \in Existing /\ g \in Existing'
      BY <2>1 DEF Existing
    <3>2. gen[1].status \notin {"absent", "building"}
      BY <2>3, <3>1 DEF FirstComesFirst
    <3>3. gen[1].status \in {"active", "retired"}
      BY <3>2 DEF GenRow, GenStatus
    <3>4. gen'[1].status = "retired"
      <4>1. gen'[1] = IF 1 \in Active THEN [gen[1] EXCEPT !.status = "retired"] ELSE gen[1]
        BY <1>4, <2>3 DEF SwitchActive
      <4>2. [gen[1] EXCEPT !.status = "retired"].status = "retired"
        BY DEF GenRow
      <4> QED
        BY <3>3, <4>1, <4>2 DEF Active
    <3> QED
      BY <2>3, <3>1, <3>4 DEF FirstComesFirst, FirstServes
  <2> QED
    BY <2>2, <2>3
<1>5. gen' = gen => Goal
  BY <1>0
<1>6. ASSUME NEW d \in Docs, RetryFailedDocument(d) PROVE Goal
  BY <1>5, <1>6 DEF RetryFailedDocument
<1>7. ASSUME NEW g \in Gens, RetryFailedGeneration(g) PROVE Goal
  BY <1>5, <1>7 DEF RetryFailedGeneration
<1>8. ASSUME NEW w \in Workers, Claim(w) \/ Proceed(w) \/ WorkerFault(w) PROVE Goal
  BY <1>5, <1>8 DEF Claim, ClaimJob, Proceed, WorkerFault, BeginExecute, LoseLease, UpsertPoint,
     UpsertFails, CompleteJob, RecordRetryableFailure, BeginTerminalFailure,
     FinishTerminalFailure, AbortTerminalFailure, Crash
<1> QED
  BY <1>1, <1>2, <1>3, <1>4, <1>6, <1>7, <1>8 DEF Next, Request, Reconcile

\* A worker reads the document's interval when it starts on the job.
LEMMA ExecutingStep ==
    ASSUME TypeInv, Next, NEW w \in Workers, worker'[w].pc = "executing", worker'[w] # worker[w]
    PROVE  BeginExecute(w)
<1> USE DEF TypeInv, TypeOK
<1>1. CASE Request \/ Reconcile
  BY <1>1 DEF Request, Reconcile, PublishDocument, RetryFailedDocument, CreateBuilding,
     RetryFailedGeneration, ReconcileActive, BuildingProgress, BuildingDelta, SwitchActive,
     CheckedBuilding
<1>2. ASSUME NEW v \in Workers, BeginExecute(v) PROVE BeginExecute(w)
  <2>1. v = w
    BY <1>2 DEF BeginExecute
  <2> QED
    BY <1>2, <2>1
<1>3. ASSUME NEW v \in Workers, NEW g \in Gens, NEW c \in Chunks, ClaimJob(v, g, c)
      PROVE  BeginExecute(w)
  BY <1>3 DEF ClaimJob, Idle
<1>4. ASSUME NEW v \in Workers,
             LoseLease(v) \/ CompleteJob(v) \/ RecordRetryableFailure(v)
             \/ FinishTerminalFailure(v) \/ AbortTerminalFailure(v) \/ Crash(v)
      PROVE  BeginExecute(w)
  <2>1. worker' = [worker EXCEPT ![v] = Idle]
    BY <1>4 DEF LoseLease, CompleteJob, RecordRetryableFailure, FinishTerminalFailure,
       AbortTerminalFailure, Crash
  <2> QED
    BY <2>1 DEF Idle
<1>5. ASSUME NEW v \in Workers, UpsertPoint(v) PROVE BeginExecute(w)
  <2>1. worker'[v].pc = "upserted"
    BY <1>5 DEF UpsertPoint, WorkerState
  <2> QED
    BY <1>5, <2>1 DEF UpsertPoint
<1>6. ASSUME NEW v \in Workers, UpsertFails(v) PROVE BeginExecute(w)
  <2>1. worker'[v].pc = "errored"
    BY <1>6 DEF UpsertFails, WorkerState
  <2> QED
    BY <1>6, <2>1 DEF UpsertFails
<1>7. ASSUME NEW v \in Workers, BeginTerminalFailure(v) PROVE BeginExecute(w)
  <2>1. worker'[v].pc = "failing"
    BY <1>7 DEF BeginTerminalFailure, WorkerState
  <2> QED
    BY <1>7, <2>1 DEF BeginTerminalFailure
<1> QED
  BY <1>1, <1>2, <1>3, <1>4, <1>5, <1>6, <1>7 DEF Next, Claim, Proceed, WorkerFault

\* A point that changes is written by a worker that holds its job's row, with
\* the interval the worker has read.
LEMMA PointWritten ==
    ASSUME OwnCollections, TypeInv, Next, NEW g \in Gens, NEW c \in Chunks,
           points'[CollectionOf[g]][c] # points[CollectionOf[g]][c]
    PROVE  \E w \in LockHolders(g, c) :
              /\ worker[w].pc = "executing"
              /\ points'[CollectionOf[g]][c].expiry = worker[w].expiry
<1> USE DEF TypeInv, TypeOK
<1>1. PICK w \in Workers : worker[w].pc = "executing" /\ WritePoint(w)
  BY DEF Next, Request, Reconcile, Claim, Proceed, WorkerFault, PublishDocument,
     RetryFailedDocument, CreateBuilding, RetryFailedGeneration, ReconcileActive,
     BuildingProgress, BuildingDelta, SwitchActive, CheckedBuilding, ClaimJob, BeginExecute,
     LoseLease, UpsertPoint, UpsertFails, CompleteJob, RecordRetryableFailure,
     BeginTerminalFailure, FinishTerminalFailure, AbortTerminalFailure, Crash
<1> DEFINE p == [gen |-> worker[w].g, expiry |-> worker[w].expiry]
<1>2. /\ worker[w].g \in Gens /\ worker[w].c \in Chunks
      /\ CollectionOf[worker[w].g] \in Collections
  BY <1>1, CollectionsAssumption DEF BusyWorkers
<1>3. points' = [points EXCEPT ![CollectionOf[worker[w].g]][worker[w].c] = p]
  BY <1>1 DEF WritePoint
<1>4. p.expiry = worker[w].expiry
  OBVIOUS
<1> HIDE DEF p
<1>5. worker[w].c = c /\ CollectionOf[worker[w].g] = CollectionOf[g]
  BY <1>2, <1>3
<1>6. worker[w].g = g
  BY <1>2, <1>5 DEF OwnCollections
<1>7. points'[CollectionOf[g]][c] = p
  BY <1>2, <1>3, <1>5
<1> QED
  BY <1>1, <1>4, <1>5, <1>6, <1>7 DEF LockHolders

\* A published version's interval is closed only with its row locks free and
\* its jobs queued again.
LEMMA ExpiryStep ==
    ASSUME TypeInv, GenerationsInv, FirstComesFirst, FirstServes, Next, NEW c \in Chunks,
           doc'[DocOf[c]].expiry # doc[DocOf[c]].expiry
    PROVE  /\ job'[1][c] = PendingJob
           /\ LockHolders(1, c) = {} /\ worker' = worker
<1>0. DocOf[c] \in Docs
  BY ChunksAssumption
<1>1. PICK d \in Docs : PublishDocument(d)
  BY <1>0, DocStep, ReconciledIntervals
<1>2. DocOf[c] \in OverlappingVersions(d)
  BY <1>0, <1>1, PublishedIntervals
<1>3. PICK h \in Gens :
        /\ ActiveGeneration(h)
        /\ LockHolders(h, c) = {}
        /\ job' = [job EXCEPT ![h] = [x \in Chunks |->
                        IF DocOf[x] \in Queued(d) THEN PendingJob ELSE job[h][x]]]
  BY <1>1, <1>2 DEF PublishDocument
<1>4. h = 1
  BY <1>3, FirstActive DEF ActiveGeneration
<1>5. worker' = worker
  BY <1>1 DEF PublishDocument
<1> QED
  BY <1>2, <1>3, <1>4, <1>5, One DEF Queued, TypeInv, TypeOK

LEMMA PointsStep ==
    ASSUME OwnCollections, TypeInv, LeaseInv, GenerationsInv, FirstComesFirst, PointsFresh, Next
    PROVE  PointsFresh'
<1> SUFFICES ASSUME FirstServes', NEW c \in Chunks
             PROVE  LET expiry == doc'[DocOf[c]].expiry
                        point == points'[CollectionOf[1]][c]
                    IN  /\ job'[1][c].status = "completed" => point.expiry = expiry
                        /\ \A w \in LockHolders(1, c)' :
                            /\ worker'[w].pc = "executing" => worker'[w].expiry = expiry
                            /\ worker'[w].pc = "upserted" => point.expiry = expiry
  BY DEF PointsFresh
<1>0. FirstServes /\ 1 \in Gens
  BY FirstStep, One
<1> USE <1>0
<1> DEFINE expiry == doc[DocOf[c]].expiry
           point == points[CollectionOf[1]][c]
<1>1. CASE doc'[DocOf[c]].expiry # expiry
  <2>1. job'[1][c].status = "pending" /\ LockHolders(1, c)' = {}
    BY <1>1, ExpiryStep DEF PendingJob, LockHolders
  <2> QED
    BY <2>1
<1>2. CASE doc'[DocOf[c]].expiry = expiry
  <2>1. ASSUME NEW v \in LockHolders(1, c), worker[v].pc # "executing"
        PROVE  points'[CollectionOf[1]][c] = point
    BY <2>1, PointWritten, Holder DEF LockHolders
  <2>2. ASSUME job'[1][c].status = "completed"
        PROVE  points'[CollectionOf[1]][c].expiry = expiry
    <3>1. CASE job[1][c].status = "completed"
      <4>1. points'[CollectionOf[1]][c] = point
        BY <3>1, PointWritten, Holder DEF LockHolders
      <4> QED
        BY <3>1, <4>1 DEF PointsFresh
    <3>2. CASE job[1][c].status # "completed"
      <4>1. PICK v \in LockHolders(1, c) : worker[v].pc = "upserted"
        BY <2>2, <3>2, CompletedStep DEF LockHolders
      <4> QED
        BY <2>1, <4>1 DEF PointsFresh
    <3> QED
      BY <3>1, <3>2
  <2>3. ASSUME NEW w \in LockHolders(1, c)', worker'[w].pc = "executing"
        PROVE  worker'[w].expiry = expiry
    <3>1. w \in Workers /\ worker'[w].g = 1 /\ worker'[w].c = c
      BY DEF LockHolders
    <3>2. CASE worker'[w] = worker[w]
      BY <2>3, <3>1, <3>2 DEF PointsFresh, LockHolders
    <3>3. CASE worker'[w] # worker[w]
      <4>1. BeginExecute(w)
        BY <2>3, <3>1, <3>3, ExecutingStep
      <4>2. worker[w].c = c
        BY <2>3, <3>1, <3>3, LockStep DEF Locking
      <4>3. worker'[w] = [worker[w] EXCEPT !.pc = "executing", !.expiry = expiry]
        BY <2>3, <3>1, <4>1, <4>2 DEF BeginExecute, TypeInv, TypeOK, WorkerState
      <4> QED
        BY <3>1, <4>3 DEF TypeInv, TypeOK, WorkerState
    <3> QED
      BY <3>2, <3>3
  <2>4. ASSUME NEW w \in LockHolders(1, c)', worker'[w].pc = "upserted"
        PROVE  points'[CollectionOf[1]][c].expiry = expiry
    <3>1. w \in Workers /\ worker'[w].g = 1 /\ worker'[w].c = c
      BY DEF LockHolders
    <3>2. CASE worker'[w] = worker[w]
      <4>1. w \in LockHolders(1, c) /\ worker[w].pc = "upserted"
        BY <2>4, <3>1, <3>2 DEF LockHolders
      <4> QED
        BY <2>1, <4>1 DEF PointsFresh
    <3>3. CASE worker'[w] # worker[w]
      <4>1. UpsertPoint(w)
        BY <2>4, <3>1, <3>3, UpsertedStep
      <4>2. worker[w].g = 1 /\ worker[w].c = c /\ worker[w].pc = "executing"
        BY <2>4, <3>1, <3>3, <4>1, LockStep DEF Locking, UpsertPoint
      <4>3. worker[w].expiry = expiry
        BY <3>1, <4>2 DEF PointsFresh, LockHolders
      <4> DEFINE p == [gen |-> 1, expiry |-> expiry]
      <4>4. points' = [points EXCEPT ![CollectionOf[1]][c] = p]
        BY <4>1, <4>2, <4>3 DEF UpsertPoint, WritePoint
      <4>5. p.expiry = expiry
        OBVIOUS
      <4> HIDE DEF p
      <4>6. points'[CollectionOf[1]][c] = p
        BY <4>4, CollectionsAssumption DEF TypeInv, TypeOK
      <4> QED
        BY <4>5, <4>6
    <3> QED
      BY <3>2, <3>3
  <2> QED
    BY <1>2, <2>2, <2>3, <2>4
<1> QED
  BY <1>1, <1>2

\* An index row disappears only when a generation is created in its place.
LEMMA IndexRowKept ==
    ASSUME TypeInv, Next, NEW g \in Gens, NEW d \in Docs, dix[g][d] # "absent"
    PROVE  dix'[g][d] # "absent" \/ CreateBuilding(g)
<1> DEFINE Goal == dix'[g][d] # "absent"
<1> USE DEF TypeInv, TypeOK
<1>1. ASSUME NEW e \in Docs, PublishDocument(e) PROVE Goal
  <2>1. PICK h \in Gens :
            dix' = [dix EXCEPT ![h] = [x \in Docs |->
                        IF x \in Queued(e) THEN "indexing" ELSE dix[h][x]]]
    BY <1>1 DEF PublishDocument
  <2> QED
    BY <2>1
<1>2. ASSUME NEW e \in Docs, RetryFailedDocument(e) PROVE Goal
  <2>1. PICK h \in Gens : dix' = [dix EXCEPT ![h][e] = "indexing"]
    BY <1>2 DEF RetryFailedDocument
  <2> QED
    BY <2>1
<1>3. ASSUME NEW b \in Gens, CreateBuilding(b) PROVE Goal \/ CreateBuilding(g)
  <2>1. CASE b = g
    BY <1>3, <2>1
  <2>2. CASE b # g
    <3>1. dix'[g] = dix[g]
      BY <1>3, <2>2 DEF CreateBuilding
    <3> QED
      BY <3>1
  <2> QED
    BY <2>1, <2>2
<1>4. ASSUME NEW b \in Gens, RetryFailedGeneration(b) \/ ReconcileActive(b) PROVE Goal
  <2>1. CASE RetryFailedGeneration(b)
    <3>1. dix'[g][d] = dix[g][d] \/ dix'[g][d] = "indexing"
      BY <2>1 DEF RetryFailedGeneration
    <3> QED
      BY <3>1
  <2>2. CASE ReconcileActive(b)
    <3>1. dix'[g][d] = dix[g][d] \/ dix'[g][d] = "completed"
      BY <2>2 DEF ReconcileActive
    <3> QED
      BY <3>1
  <2> QED
    BY <1>4, <2>1, <2>2
<1>5. ASSUME NEW b \in Gens, BuildingProgress(b) \/ SwitchActive(b) \/ BuildingDelta(b) PROVE Goal
  <2>1. CASE BuildingProgress(b) \/ SwitchActive(b)
    <3>1. dix' = [dix EXCEPT ![b] = CompletedIndexes(b)]
      BY <2>1 DEF BuildingProgress, SwitchActive
    <3> QED
      BY <3>1 DEF CompletedIndexes
  <2>2. CASE BuildingDelta(b)
    <3>1. dix'[g][d] = dix[g][d] \/ dix'[g][d] = "indexing"
          \/ (b = g /\ dix'[g][d] = CompletedIndexes(g)[d])
      BY <2>2 DEF BuildingDelta
    <3> QED
      BY <3>1 DEF CompletedIndexes
  <2> QED
    BY <1>5, <2>1, <2>2
<1>6. ASSUME NEW w \in Workers, FinishTerminalFailure(w) PROVE Goal
  BY <1>6 DEF FinishTerminalFailure
<1>7. ASSUME NEW w \in Workers,
             Claim(w) \/ BeginExecute(w) \/ LoseLease(w) \/ UpsertPoint(w) \/ UpsertFails(w)
             \/ CompleteJob(w) \/ RecordRetryableFailure(w) \/ BeginTerminalFailure(w)
             \/ AbortTerminalFailure(w) \/ Crash(w)
      PROVE  Goal
  BY <1>7 DEF Claim, ClaimJob, BeginExecute, LoseLease, UpsertPoint, UpsertFails, CompleteJob,
     RecordRetryableFailure, BeginTerminalFailure, AbortTerminalFailure, Crash
<1> QED
  BY <1>1, <1>2, <1>3, <1>4, <1>5, <1>6, <1>7
  DEF Next, Request, Reconcile, Proceed, WorkerFault

LEMMA PublishedIndexedStep ==
    ASSUME TypeInv, GenerationsInv, FirstComesFirst, PublishedIndexed, Next
    PROVE  PublishedIndexed'
<1> SUFFICES ASSUME FirstServes', NEW d \in Published' PROVE dix'[1][d] # "absent"
  BY DEF PublishedIndexed
<1>0. d \in Docs /\ FirstServes /\ 1 \in Gens
  BY FirstStep, One DEF Published
<1>1. CASE d \in Published
  <2>1. dix[1][d] # "absent"
    BY <1>0, <1>1 DEF PublishedIndexed
  <2>2. ~CreateBuilding(1)
    <3> SUFFICES ASSUME CreateBuilding(1) PROVE FALSE
      OBVIOUS
    <3>1. Existing = {}
      BY DEF CreateBuilding
    <3>2. PublishedChunks = {}
      BY <3>1 DEF GenerationsInv, PublishedSomewhere
    <3>3. PICK c \in Chunks : DocOf[c] = d
      BY <1>0, ChunksAssumption DEF ChunksOf
    <3> QED
      BY <1>1, <3>2, <3>3 DEF PublishedChunks, Published
  <2> QED
    BY <1>0, <2>1, <2>2, IndexRowKept
<1>2. CASE d \notin Published
  <2>1. PICK h \in Gens : ReconcileActive(h)
    BY <1>2, DocStep, PublishedIntervals
  <2>2. h \in Active
    BY <2>1 DEF ReconcileActive
  <2>3. d \in Publishable(1) /\ h = 1
    BY <1>0, <1>2, <2>1, <2>2, ReconciledIntervals, FirstActive
  <2>4. dix[1][d] = "indexing"
    BY <2>3 DEF Publishable, Ready
  <2>5. ~CreateBuilding(1)
    BY <2>2, <2>3 DEF CreateBuilding, Active, Existing
  <2> QED
    BY <1>0, <2>4, <2>5, IndexRowKept
<1> QED
  BY <1>1, <1>2

\* The points of a document with all jobs completed show its interval.
LEMMA CompletedFresh ==
    ASSUME PointsFresh, FirstServes, NEW d \in Docs, AllCompleted(1, d), NEW c \in ChunksOf(d)
    PROVE  points[CollectionOf[1]][c].expiry = doc[d].expiry
BY DEF PointsFresh, AllCompleted, CompletedOf, JobsIn, ChunksOf

\* Closed points stay closed.
LEMMA PointsKept ==
    ASSUME OwnCollections, TypeInv, PointsFresh, FirstServes, Next, NEW d \in Docs,
           NEW c \in ChunksOf(d), doc'[d].expiry = doc[d].expiry,
           points[CollectionOf[1]][c].expiry = doc[d].expiry
    PROVE  points'[CollectionOf[1]][c].expiry = doc'[d].expiry
<1>1. c \in Chunks /\ DocOf[c] = d
  BY DEF ChunksOf
<1>2. CASE points'[CollectionOf[1]][c] = points[CollectionOf[1]][c]
  BY <1>2
<1>3. CASE points'[CollectionOf[1]][c] # points[CollectionOf[1]][c]
  <2>1. PICK w \in LockHolders(1, c) :
              /\ worker[w].pc = "executing"
              /\ points'[CollectionOf[1]][c].expiry = worker[w].expiry
    BY <1>1, <1>3, PointWritten, One
  <2> QED
    BY <1>1, <2>1 DEF PointsFresh
<1> QED
  BY <1>2, <1>3

LEMMA PredecessorsStep ==
    ASSUME OwnCollections, TypeInv, GenerationsInv, RowsInv, FreshInv, Next
    PROVE  PredecessorsClosed'
<1> SUFFICES ASSUME FirstServes', NEW d \in Published', NEW e \in Published',
                    FamilyOf[d] = FamilyOf[e], doc'[d].expiry = Effective[e],
                    NEW c \in ChunksOf(d)
             PROVE  points'[CollectionOf[1]][c].expiry = doc'[d].expiry
  BY DEF PredecessorsClosed
<1> USE DEF FreshInv, RowsInv
<1>0. d \in Docs /\ e \in Docs /\ FirstServes /\ 1 \in Gens
  BY FirstStep, One DEF Published
<1>d. \A x \in Docs : Effective[x] \in Nat /\ doc[x].expiry \in Nat /\ Effective[x] < Never
  BY DatesAssumption DEF TypeInv, TypeOK, DocRow
<1>n. Never \in Nat
  BY DatesAssumption
<1>1. doc'[d].expiry = doc[d].expiry
  <2> SUFFICES ASSUME doc'[d].expiry # doc[d].expiry PROVE FALSE
    OBVIOUS
  <2>1. PICK x \in Docs : PublishDocument(x)
    BY <1>0, DocStep, ReconciledIntervals
  <2>2. /\ IsClosablePredecessor(d, x) /\ doc'[d].expiry = Effective[x]
        /\ Published' = Published
    BY <1>0, <2>1, PublishedIntervals
  <2>3. d # e /\ doc[d].expiry = Never /\ Effective[d] < Effective[e]
    <3>1. doc[d].expiry = Never /\ Effective[d] < Effective[x] /\ Effective[x] = Effective[e]
      BY <2>2 DEF IsClosablePredecessor
    <3>2. Effective[d] \in Nat /\ Effective[e] \in Nat
      BY <1>0, <1>d
    <3> HIDE DEF FreshInv, RowsInv
    <3> QED
      BY <3>1, <3>2
  <2>4. ~Overlap(Effective[d], doc[d].expiry, Effective[e], doc[e].expiry)
    BY <2>2, <2>3 DEF IntervalsInv, IntervalsDisjoint
  <2>5. Effective[e] < doc[e].expiry
    BY <1>0 DEF IntervalsInv
  <2> QED
    BY <1>0, <1>d, <1>n, <2>3, <2>4, <2>5 DEF Overlap
<1>2. points[CollectionOf[1]][c].expiry = doc[d].expiry
  <2>1. CASE d \in Published /\ e \in Published
    BY <1>0, <1>1, <2>1 DEF PredecessorsClosed
  <2>2. CASE ~(d \in Published /\ e \in Published)
    <3>1. PICK h \in Gens : ReconcileActive(h)
      BY <2>2, DocStep, PublishedIntervals
    <3>2. h = 1 /\ Published' = Published \union Publishable(1)
      BY <1>0, <3>1, ReconciledIntervals, FirstActive DEF ReconcileActive
    <3>3. CASE d \in Publishable(1)
      BY <1>0, <3>3, CompletedFresh DEF Publishable, Ready
    <3>4. CASE d \notin Publishable(1)
      <4>1. d \in Published /\ e \in Publishable(1)
        BY <2>2, <3>2, <3>4
      <4>2. d \in Predecessors(1, e)
        BY <1>0, <1>1, <4>1 DEF PublishedIndexed, Predecessors, Published
      <4>3. dix[1][d] = "completed" \/ d \in Ready(1)
        BY <4>1, <4>2 DEF Publishable, WaitsForPredecessor
      <4>4. AllCompleted(1, d)
        BY <1>0, <4>3 DEF CompletedDone, Ready
      <4> QED
        BY <1>0, <4>4, CompletedFresh
    <3> QED
      BY <3>3, <3>4
  <2> QED
    BY <2>1, <2>2
<1> QED
  BY <1>0, <1>1, <1>2, PointsKept

LEMMA FreshStep ==
    OwnCollections /\ TypeInv /\ LeaseInv /\ GenerationsInv /\ RowsInv /\ FreshInv
    /\ [Next]_vars => FreshInv'
<1> SUFFICES ASSUME OwnCollections, TypeInv, LeaseInv, GenerationsInv, RowsInv, FreshInv,
                    [Next]_vars
             PROVE  FreshInv'
    OBVIOUS
<1>1. CASE Next
  BY <1>1, FirstStep, PointsStep, PublishedIndexedStep, PredecessorsStep DEF FreshInv
<1>2. CASE UNCHANGED vars
  BY <1>2 DEF vars, FreshInv, FirstServes, FirstComesFirst, Existing, PointsFresh, PublishedIndexed, PredecessorsClosed, Published,
     LockHolders
<1> QED
  BY <1>1, <1>2

LEMMA FreshInvariance ==
    OwnCollections => (Spec => [](TypeInv /\ GenerationsInv /\ RowsInv /\ FreshInv))
<1> SUFFICES ASSUME OwnCollections
             PROVE  Spec => [](TypeInv /\ GenerationsInv /\ RowsInv /\ FreshInv)
    OBVIOUS
<1>1. Init => RowsInv /\ FreshInv
  BY RowsInit, FreshInit
<1>2. TypeInv /\ LeaseInv /\ RowsInv /\ [Next]_vars => RowsInv'
  BY RowsStep
<1>3. TypeInv /\ LeaseInv /\ GenerationsInv /\ RowsInv /\ FreshInv /\ [Next]_vars => FreshInv'
  BY FreshStep
<1> QED
  BY <1>1, <1>2, <1>3, GenerationsInvariance, PTL DEF Spec

\* Until the first generation is replaced, the payload of every point of an
\* indexed published document has the expiry date of its row: a worker that
\* reads the interval holds the job's row until it commits, and a publication
\* that closes the interval takes that row and queues the job again
\* (execute_claimed_job, publish_policy_document).
THEOREM IntervalsServed ==
    OwnCollections => (Spec => [](FirstServes => ServedIntervalCurrent))
<1>1. TypeInv /\ GenerationsInv /\ RowsInv /\ FreshInv => (FirstServes => ServedIntervalCurrent)
  <2> SUFFICES ASSUME TypeInv, GenerationsInv, RowsInv, FreshInv, FirstServes,
                      NEW g \in Active, NEW d \in Published, dix[g][d] = "completed",
                      NEW c \in ChunksOf(d)
               PROVE  points[CollectionOf[g]][c].expiry = doc[d].expiry
    BY DEF ServedIntervalCurrent
  <2>1. g = 1 /\ d \in Docs
    BY FirstActive DEF FreshInv, Published
  <2> QED
    BY <2>1, One, CompletedFresh DEF RowsInv, FreshInv, CompletedDone
<1> QED
  BY <1>1, FreshInvariance, PTL

\* Until the first generation is replaced, a search finds a published version
\* on no day of a later one of its family, once it is indexed, and at once if
\* the later one follows on it (reconcile_active_generation's wait for the
\* predecessor).
THEOREM SearchNotAmbiguous ==
    OwnCollections => (Spec => [](FirstServes => SearchUnambiguous))
<1>1. TypeInv /\ GenerationsInv /\ RowsInv /\ FreshInv => (FirstServes => SearchUnambiguous)
  <2> SUFFICES ASSUME TypeInv, GenerationsInv, RowsInv, FreshInv, FirstServes,
                      NEW g \in Active, NEW c \in PublishedChunks, NEW e \in PublishedChunks,
                      FamilyOf[DocOf[c]] = FamilyOf[DocOf[e]],
                      Effective[DocOf[c]] < Effective[DocOf[e]],
                      dix[g][DocOf[c]] = "completed" \/ doc[DocOf[c]].expiry = Effective[DocOf[e]]
               PROVE  points[CollectionOf[g]][c].expiry <= Effective[DocOf[e]]
    BY DEF SearchUnambiguous
  <2> DEFINE p == DocOf[c]
             s == DocOf[e]
  <2>0. /\ g = 1 /\ 1 \in Gens /\ c \in ChunksOf(p) /\ p \in Docs /\ s \in Docs
        /\ p \in Published /\ s \in Published
    BY FirstActive, One, ChunksAssumption DEF FreshInv, PublishedChunks, Published, ChunksOf
  <2>1. /\ Effective[p] \in Nat /\ Effective[s] \in Nat
        /\ doc[p].expiry \in Nat /\ doc[s].expiry \in Nat
    BY <2>0, DatesAssumption DEF TypeInv, TypeOK, DocRow
  <2>2. points[CollectionOf[1]][c].expiry = doc[p].expiry
    <3>1. CASE dix[1][p] = "completed"
      BY <2>0, <3>1, CompletedFresh DEF RowsInv, FreshInv, CompletedDone
    <3>2. CASE doc[p].expiry = Effective[s]
      BY <2>0, <3>2 DEF FreshInv, PredecessorsClosed
    <3> QED
      BY <2>0, <3>1, <3>2
  <2>3. ~Overlap(Effective[p], doc[p].expiry, Effective[s], doc[s].expiry)
    BY <2>0, <2>1 DEF RowsInv, IntervalsInv, IntervalsDisjoint
  <2>4. Effective[s] < doc[s].expiry
    BY <2>0 DEF RowsInv, IntervalsInv
  <2> QED
    BY <2>0, <2>1, <2>2, <2>3, <2>4 DEF Overlap
<1> QED
  BY <1>1, FreshInvariance, PTL

\* The only generation of a tenant is never replaced.
COROLLARY OnlyGenerationServes ==
    MaxGen = 1 => (Spec => []ServedIntervalCurrent) /\ (Spec => []SearchUnambiguous)
<1> SUFFICES ASSUME MaxGen = 1
             PROVE  (Spec => []ServedIntervalCurrent) /\ (Spec => []SearchUnambiguous)
    OBVIOUS
<1>1. Gens = {1}
  BY DEF Gens
<1>2. OwnCollections
  BY <1>1 DEF OwnCollections
<1>3. FreshInv => FirstServes
  BY <1>1 DEF FreshInv, FirstComesFirst, FirstServes, Existing
<1> QED
  BY <1>2, <1>3, FreshInvariance, IntervalsServed, SearchNotAmbiguous, PTL
=============================================================================
