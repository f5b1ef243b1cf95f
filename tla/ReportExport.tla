---------------------------- MODULE ReportExport ----------------------------
(***************************************************************************)
(* Excel exports of completed reports.  A request takes the tenant lock,   *)
(* finds or inserts the export row, moves the workbook to a path that      *)
(* depends on the report alone, and commits the row with the hash of the   *)
(* workbook.  The file is written before the commit: a request that fails  *)
(* or dies in between leaves a file no row names, and the next request     *)
(* takes it over.  A request that fails rolls back, which releases the     *)
(* lock, and only then records the failure in a session of its own.        *)
(*                                                                         *)
(* Workbooks are numbered in the order they are built: two builds of one   *)
(* report say the same in different bytes.  Requests that are refused      *)
(* (the lock is taken, the key belongs to another report) and answers that *)
(* are errors change nothing, and have no action.                          *)
(***************************************************************************)
EXTENDS Integers

CONSTANTS
    Reports,    \* completed reports of one tenant
    Keys,       \* Idempotency-Key values
    Sessions,   \* requests in progress
    None,       \* no key, no report, no workbook
    Damaged,    \* a file that is not the workbook written
    MaxFailures \* bound: exceptions, processes that die, files lost

ASSUME NoneAssumption == None \notin Nat /\ None \notin Keys /\ None \notin Reports
ASSUME DamagedAssumption == Damaged \notin Nat /\ Damaged # None
ASSUME BoundAssumption == MaxFailures \in Nat

VARIABLES
    row,       \* report_export, committed
    file,      \* the file at each report's path
    builds,    \* workbooks built
    audits,    \* committed report.export_generate entries
    tx,        \* what each request is doing
    served,    \* history: workbooks each report's requests were answered with
    failures

vars == <<row, file, builds, audits, tx, served, failures>>

Row == [status : {"none", "failed", "completed"}, key : Keys \union {None},
        artifact : Nat \union {None}, at : Sessions \union {None}]
NoRow == [status |-> "none", key |-> None, artifact |-> None, at |-> None]

\* A request: where it is, its report and key, the status of the row when it
\* was last read, and the workbook it has written or taken over.
Request == [pc : {"idle", "found", "claimed", "built", "failed", "recording"},
            report : Reports \union {None}, key : Keys \union {None},
            seen : {"none", "failed", "completed"}, content : Nat \union {None}]
Idle == [pc |-> "idle", report |-> None, key |-> None, seen |-> "none",
         content |-> None]

TypeOK ==
    /\ row \in [Reports -> Row]
    /\ file \in [Reports -> Nat \union {None, Damaged}]
    /\ builds \in Nat
    /\ audits \in [Reports -> Nat]
    /\ tx \in [Sessions -> Request]
    /\ served \in [Reports -> SUBSET Nat]
    /\ failures \in 0..MaxFailures

Init ==
    /\ row = [r \in Reports |-> NoRow]
    /\ file = [r \in Reports |-> None]
    /\ builds = 0
    /\ audits = [r \in Reports |-> 0]
    /\ tx = [s \in Sessions |-> Idle]
    /\ served = [r \in Reports |-> {}]
    /\ failures = 0

-----------------------------------------------------------------------------
(* create_report_export *)

HoldsLock(s) == tx[s].pc \in {"found", "claimed", "built"}

\* lock_tenant_nowait succeeds.
LockFree == \A s \in Sessions : ~HoldsLock(s)

\* No export of another report was requested with the key.
KeyAccepted(r, k) == \A q \in Reports : row[q].key = k => q = r

Requestable(s, r, k) == tx[s].pc = "idle" /\ LockFree /\ KeyAccepted(r, k)

\* Mutant: a file that is there is taken for the right one.
Present(r) == file[r] # None

\* _read_completed_artifact: the file is there and has the hash of the row.
Readable(r) == file[r] = row[r].artifact

\* What is read goes into the answer.
Answer(r) == served' = [served EXCEPT ![r] = served[r] \union {file[r]}]

\* The export is complete: the request reuses it, and its key is not stored.
Reuse(s, r, k) ==
    /\ Requestable(s, r, k)
    /\ row[r].status = "completed"
    /\ Readable(r)
    /\ Answer(r)
    /\ UNCHANGED <<row, file, builds, audits, tx, failures>>

\* Mutant: an export that failed stays failed.
NeverTried(r) == row[r].status = "none"

Incomplete(r) == row[r].status # "completed"

\* The request looks for a row with its key, or of its report.
Find(s, r, k) ==
    /\ Requestable(s, r, k)
    /\ Incomplete(r)
    /\ tx' = [tx EXCEPT ![s] = [pc |-> "found", report |-> r, key |-> k,
                                seen |-> row[r].status, content |-> None]]
    /\ UNCHANGED <<row, file, builds, audits, served, failures>>

\* The unique constraints admit a row of report r with key k.
Insertable(r, k) ==
    /\ row[r].status = "none"
    /\ \A q \in Reports : row[q].key # k

\* The first flush: the row is inserted, or a failed one set in progress.
Claim(s) ==
    /\ tx[s].pc = "found"
    /\ tx[s].seen = "none" => Insertable(tx[s].report, tx[s].key)
    /\ tx' = [tx EXCEPT ![s].pc = "claimed"]
    /\ UNCHANGED <<row, file, builds, audits, served, failures>>

\* The first flush meets a row that a failed request has inserted since.
ClaimConflict(s) ==
    /\ tx[s].pc = "found"
    /\ tx[s].seen = "none"
    /\ ~Insertable(tx[s].report, tx[s].key)
    /\ tx' = [tx EXCEPT ![s].pc = "failed"]
    /\ UNCHANGED <<row, file, builds, audits, served, failures>>

\* No file: a workbook is built, and moved into place in one step.
Build(s) ==
    LET r == tx[s].report IN
    /\ tx[s].pc = "claimed"
    /\ file[r] = None
    /\ builds' = builds + 1
    /\ file' = [file EXCEPT ![r] = builds + 1]
    /\ tx' = [tx EXCEPT ![s] = [tx[s] EXCEPT !.pc = "built", !.content = builds + 1]]
    /\ UNCHANGED <<row, audits, served, failures>>

\* Mutant: the workbook built to compare with is the one returned.
Expected(r) == builds + 1

\* The bytes of the file that is there.
Recovered(r) == file[r]

\* verify_report_xlsx and the comparison of all cells: the file is a workbook
\* that was written for the report.
Verified(r) == file[r] \in Nat

\* A file that says what the report says is taken over.
Recover(s) ==
    LET r == tx[s].report IN
    /\ tx[s].pc = "claimed"
    /\ Verified(r)
    /\ tx' = [tx EXCEPT ![s] = [tx[s] EXCEPT !.pc = "built", !.content = Recovered(r)]]
    /\ UNCHANGED <<row, file, builds, audits, served, failures>>

\* A file that says something else fails the request, and stays.
RefuseFile(s) ==
    /\ tx[s].pc = "claimed"
    /\ file[tx[s].report] # None
    /\ ~Verified(tx[s].report)
    /\ tx' = [tx EXCEPT ![s].pc = "failed"]
    /\ UNCHANGED <<row, file, builds, audits, served, failures>>

\* get_db commits the row with the hash of the workbook, and the audit entry.
\* A row that a failed request had inserted keeps the key of that request.
Commit(s) ==
    LET r == tx[s].report IN
    /\ tx[s].pc = "built"
    /\ row' = [row EXCEPT ![r] =
                [status |-> "completed",
                 key |-> IF tx[s].seen = "none" THEN tx[s].key ELSE row[r].key,
                 artifact |-> tx[s].content, at |-> s]]
    /\ audits' = [audits EXCEPT ![r] = audits[r] + 1]
    /\ served' = [served EXCEPT ![r] = served[r] \union {tx[s].content}]
    /\ tx' = [tx EXCEPT ![s] = Idle]
    /\ UNCHANGED <<file, builds, failures>>

-----------------------------------------------------------------------------
(* Failures *)

\* A step of the request raises: its transaction is rolled back.
Fail(s) ==
    /\ HoldsLock(s)
    /\ failures < MaxFailures
    /\ tx' = [tx EXCEPT ![s].pc = "failed"]
    /\ failures' = failures + 1
    /\ UNCHANGED <<row, file, builds, audits, served>>

\* The process dies, and its transaction is rolled back.
Crash(s) ==
    /\ tx[s].pc # "idle"
    /\ failures < MaxFailures
    /\ tx' = [tx EXCEPT ![s] = Idle]
    /\ failures' = failures + 1
    /\ UNCHANGED <<row, file, builds, audits, served>>

\* _rollback_and_record_failure reads the row in a new session, without lock.
ReadForFailure(s) ==
    /\ tx[s].pc = "failed"
    /\ tx' = [tx EXCEPT ![s] = [tx[s] EXCEPT !.pc = "recording",
                                            !.seen = row[tx[s].report].status]]
    /\ UNCHANGED <<row, file, builds, audits, served, failures>>

\* The write waits for a transaction that has written the row, or inserted
\* one with the same key.
Awaited(s) ==
    \E t \in Sessions :
        /\ tx[t].pc \in {"claimed", "built"}
        /\ \/ tx[t].report = tx[s].report
           \/ tx[t].seen = "none" /\ tx[t].key = tx[s].key

\* Mutant: no trigger.
Any(r) == TRUE

\* trg_report_export_completed_immutable lets the update pass.
Mutable(r) == row[r].status # "completed"

\* The failure inserts a row, or stamps the failed one again.
Written(s, r) ==
    IF tx[s].seen = "none" /\ Insertable(r, tx[s].key)
    THEN [status |-> "failed", key |-> tx[s].key, artifact |-> None, at |-> s]
    ELSE IF tx[s].seen = "failed" /\ Mutable(r)
    THEN [row[r] EXCEPT !.at = s]
    ELSE row[r]

\* The failure is committed, unless a constraint or the trigger rejects it or
\* the export was complete.
RecordFailure(s) ==
    LET r == tx[s].report IN
    /\ tx[s].pc = "recording"
    /\ ~Awaited(s)
    /\ row' = [row EXCEPT ![r] = Written(s, r)]
    /\ tx' = [tx EXCEPT ![s] = Idle]
    /\ UNCHANGED <<file, builds, audits, served, failures>>

\* The volume loses or damages a file.
LoseFile(r) ==
    /\ file[r] # None
    /\ failures < MaxFailures
    /\ \E f \in {None, Damaged} : file' = [file EXCEPT ![r] = f]
    /\ failures' = failures + 1
    /\ UNCHANGED <<row, builds, audits, tx, served>>

-----------------------------------------------------------------------------

\* download_report_export: a completed export, without lock.
Download(r) ==
    /\ row[r].status = "completed"
    /\ Readable(r)
    /\ Answer(r)
    /\ UNCHANGED <<row, file, builds, audits, tx, failures>>

Proceed(s) ==
    \/ Claim(s)
    \/ ClaimConflict(s)
    \/ Build(s)
    \/ Recover(s)
    \/ RefuseFile(s)
    \/ Commit(s)
    \/ ReadForFailure(s)
    \/ RecordFailure(s)

Next ==
    \/ \E s \in Sessions, r \in Reports, k \in Keys : Find(s, r, k) \/ Reuse(s, r, k)
    \/ \E s \in Sessions : Proceed(s) \/ Fail(s) \/ Crash(s)
    \/ \E r \in Reports : LoseFile(r) \/ Download(r)

Spec == Init /\ [][Next]_vars

\* A request that is accepted runs to its end, and the client repeats a
\* request that failed or was refused, with a new key if need be.
FairSpec ==
    /\ Spec
    /\ \A s \in Sessions : WF_vars(Proceed(s))
    /\ \A r \in Reports : WF_vars(\E s \in Sessions, k \in Keys : Find(s, r, k))

-----------------------------------------------------------------------------
(* Properties *)

Once == INSTANCE ArtifactOnce
        WITH published <- [r \in Reports |-> row[r].artifact]

\* Whatever fails, and in whatever order failures are recorded, an export is
\* completed once, with one audit entry, and no answer has other bytes
\* (export_service.py: create_report_export, download_report_export).
ImplementsArtifactOnce == Once!Spec

\* A completed export is not touched again: neither a request that found it
\* incomplete nor the record of an older failure changes its row.
CompletedKept ==
    [][\A r \in Reports : row[r].status = "completed" => row'[r] = row[r]]_vars

\* The file of a completed export is the one its row has the hash of, unless
\* the volume lost it: nothing the code does replaces it, and a workbook that
\* was taken over is recorded as it is.
FileKept ==
    \A r \in Reports :
        row[r].status = "completed" => file[r] \in {row[r].artifact, None, Damaged}

\* A file that no row names, and no request can take over.
Blocked(r) == file[r] = Damaged /\ row[r].status # "completed"

\* Reports whose exports are asked for again and again are exported, through
\* failures at any step; only a damaged file that no row names is never got
\* over, and the requests that fail on it compete with the others for the lock.
EveryExportCompletes ==
    (\A r \in Reports : <>(row[r].status = "completed")) \/ <>(\E r \in Reports : Blocked(r))
=============================================================================
