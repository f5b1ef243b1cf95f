------------------------- MODULE ReportExportProofs -------------------------
(***************************************************************************)
(* Proofs about ReportExport, for any reports, keys, requests and number   *)
(* of failures: types, completed rows and their files, and the             *)
(* implementation of ArtifactOnce.                                         *)
(***************************************************************************)
EXTENDS ReportExport, TLAPS

\* A request has a report and a key.
Placed == \A s \in Sessions : tx[s].pc # "idle" => tx[s].report \in Reports /\ tx[s].key \in Keys

\* The tenant lock has one holder.
OneHolder == \A s, t \in Sessions : HoldsLock(s) /\ HoldsLock(t) => s = t

\* No export is completed under the request that found it incomplete.
HolderIncomplete ==
    \A s \in Sessions : HoldsLock(s) => row[tx[s].report].status # "completed"

\* A request has the workbook that is in place.
BuiltInPlace ==
    \A s \in Sessions : tx[s].pc = "built" =>
        tx[s].content \in Nat /\ file[tx[s].report] \in {tx[s].content, None, Damaged}

\* A row has an artifact when it is completed, and only then.
ArtifactOfCompleted ==
    \A r \in Reports :
        IF row[r].status = "completed" THEN row[r].artifact \in Nat ELSE row[r].artifact = None

ExportInv ==
    /\ TypeOK
    /\ Placed
    /\ OneHolder
    /\ HolderIncomplete
    /\ BuiltInPlace
    /\ ArtifactOfCompleted
    /\ FileKept

LEMMA ExportInit == Init => ExportInv
<1> SUFFICES ASSUME Init PROVE ExportInv
  OBVIOUS
<1>1. TypeOK
  BY BoundAssumption DEF Init, TypeOK, Row, NoRow, Request, Idle
<1>2. QED
  BY <1>1 DEF Init, ExportInv, Placed, OneHolder, HolderIncomplete, BuiltInPlace,
     ArtifactOfCompleted, FileKept, NoRow, Idle, HoldsLock

\* What the steps of a request that is under way have in common.
LEMMA RequestTypes ==
    ASSUME ExportInv, NEW s \in Sessions
    PROVE  /\ tx[s] \in Request
           /\ tx[s].pc # "idle" => tx[s].report \in Reports /\ tx[s].key \in Keys
           /\ \A r \in Reports : row[r] \in Row
  BY DEF ExportInv, TypeOK, Placed

-----------------------------------------------------------------------------
(* Types *)

LEMMA WrittenType ==
    ASSUME ExportInv, NEW s \in Sessions, tx[s].pc # "idle"
    PROVE  Written(s, tx[s].report) \in Row
  BY RequestTypes DEF Written, Row

LEMMA ReadableArtifact ==
    ASSUME ExportInv, NEW r \in Reports, row[r].status = "completed", Readable(r)
    PROVE  file[r] \in Nat /\ file[r] = row[r].artifact
  BY DEF ExportInv, ArtifactOfCompleted, Readable

LEMMA TypeStep == ExportInv /\ [Next]_vars => TypeOK'
<1> SUFFICES ASSUME ExportInv, [Next]_vars PROVE TypeOK'
  OBVIOUS
<1> USE DEF TypeOK
<1>0. TypeOK
  BY DEF ExportInv
<1>1. ASSUME NEW s \in Sessions, NEW r \in Reports, NEW k \in Keys, Find(s, r, k) PROVE TypeOK'
  BY <1>0, <1>1 DEF Find, Request, Row
<1>2. ASSUME NEW s \in Sessions, NEW r \in Reports, NEW k \in Keys, Reuse(s, r, k) PROVE TypeOK'
  <2>1. file[r] \in Nat
    BY <1>2, ReadableArtifact DEF Reuse
  <2>2. QED
    BY <1>0, <1>2, <2>1 DEF Reuse, Answer
<1>3. ASSUME NEW s \in Sessions, Claim(s) PROVE TypeOK'
  BY <1>0, <1>3 DEF Claim, Request
<1>4. ASSUME NEW s \in Sessions, ClaimConflict(s) PROVE TypeOK'
  BY <1>0, <1>4 DEF ClaimConflict, Request
<1>5. ASSUME NEW s \in Sessions, Build(s) PROVE TypeOK'
  <2>1. builds + 1 \in Nat /\ tx[s] \in Request
    BY <1>0
  <2>2. [tx[s] EXCEPT !.pc = "built", !.content = builds + 1] \in Request
    BY <2>1 DEF Request
  <2>3. tx' \in [Sessions -> Request]
    BY <1>0, <1>5, <2>2 DEF Build
  <2>4. file' \in [Reports -> Nat \union {None, Damaged}] /\ builds' \in Nat
    BY <1>0, <1>5, <2>1 DEF Build
  <2>5. QED
    BY <1>0, <1>5, <2>3, <2>4 DEF Build
<1>6. ASSUME NEW s \in Sessions, Recover(s) PROVE TypeOK'
  <2>1. file[tx[s].report] \in Nat /\ tx[s] \in Request
    BY <1>0, <1>6 DEF Recover, Verified
  <2>2. [tx[s] EXCEPT !.pc = "built", !.content = file[tx[s].report]] \in Request
    BY <2>1 DEF Request
  <2>3. QED
    BY <1>0, <1>6, <2>2 DEF Recover, Recovered
<1>7. ASSUME NEW s \in Sessions, RefuseFile(s) PROVE TypeOK'
  BY <1>0, <1>7 DEF RefuseFile, Request
<1>8. ASSUME NEW s \in Sessions, Commit(s) PROVE TypeOK'
  <2>1. tx[s].content \in Nat /\ tx[s].report \in Reports /\ tx[s].key \in Keys
    BY <1>8 DEF Commit, ExportInv, BuiltInPlace, Placed
  <2>2. QED
    BY <1>0, <1>8, <2>1 DEF Commit, Request, Row, Idle
<1>9. ASSUME NEW s \in Sessions, Fail(s) PROVE TypeOK'
  BY <1>0, <1>9, BoundAssumption DEF Fail, Request
<1>10. ASSUME NEW s \in Sessions, Crash(s) PROVE TypeOK'
  BY <1>0, <1>10, BoundAssumption DEF Crash, Request, Idle
<1>11. ASSUME NEW s \in Sessions, ReadForFailure(s) PROVE TypeOK'
  <2>1. row[tx[s].report] \in Row
    BY <1>11, RequestTypes DEF ReadForFailure
  <2>2. tx[s] \in Request /\ row[tx[s].report].status \in {"none", "failed", "completed"}
    BY <1>0, <2>1 DEF Row
  <2>3. [tx[s] EXCEPT !.pc = "recording", !.seen = row[tx[s].report].status] \in Request
    BY <2>2 DEF Request
  <2>4. QED
    BY <1>0, <1>11, <2>3 DEF ReadForFailure
<1>12. ASSUME NEW s \in Sessions, RecordFailure(s) PROVE TypeOK'
  <2>1. Written(s, tx[s].report) \in Row
    BY <1>12, WrittenType DEF RecordFailure
  <2>2. QED
    BY <1>0, <1>12, <2>1, RequestTypes DEF RecordFailure, Request, Idle
<1>13. ASSUME NEW r \in Reports, LoseFile(r) PROVE TypeOK'
  BY <1>0, <1>13, BoundAssumption DEF LoseFile
<1>14. ASSUME NEW r \in Reports, Download(r) PROVE TypeOK'
  <2>1. file[r] \in Nat
    BY <1>14, ReadableArtifact DEF Download
  <2>2. QED
    BY <1>0, <1>14, <2>1 DEF Download, Answer
<1>15. CASE UNCHANGED vars
  BY <1>0, <1>15 DEF vars
<1>16. QED
  BY <1>1, <1>2, <1>3, <1>4, <1>5, <1>6, <1>7, <1>8, <1>9, <1>10, <1>11, <1>12, <1>13,
     <1>14, <1>15 DEF Next, Proceed

-----------------------------------------------------------------------------
(* Rows, files and requests *)

Rest == Placed /\ OneHolder /\ HolderIncomplete /\ BuiltInPlace /\ ArtifactOfCompleted /\ FileKept

\* A step that leaves rows and files alone, and takes one request to a state
\* in which it has written no workbook.
LEMMA RequestStep ==
    ASSUME ExportInv, UNCHANGED <<row, file>>,
           NEW s \in Sessions, NEW q \in Request, tx' = [tx EXCEPT ![s] = q],
           q.pc # "idle" => q.report \in Reports /\ q.key \in Keys,
           q.pc # "built",
           q.pc \in {"found", "claimed"} =>
               /\ \A t \in Sessions \ {s} : ~HoldsLock(t)
               /\ row[q.report].status # "completed"
    PROVE  Rest'
<1>1. tx \in [Sessions -> Request]
  BY DEF ExportInv, TypeOK
<1>2. tx'[s] = q /\ \A t \in Sessions \ {s} : tx'[t] = tx[t]
  BY <1>1
<1>3. Placed'
  BY <1>2 DEF ExportInv, Placed
<1>4. OneHolder'
  BY <1>2 DEF ExportInv, OneHolder, HoldsLock
<1>5. HolderIncomplete'
  BY <1>2 DEF ExportInv, HolderIncomplete, HoldsLock
<1>6. BuiltInPlace'
  BY <1>2 DEF ExportInv, BuiltInPlace
<1>7. ArtifactOfCompleted' /\ FileKept'
  BY DEF ExportInv, ArtifactOfCompleted, FileKept
<1>8. QED
  BY <1>3, <1>4, <1>5, <1>6, <1>7 DEF Rest

LEMMA FindStep ==
    ASSUME ExportInv, NEW s \in Sessions, NEW r \in Reports, NEW k \in Keys, Find(s, r, k)
    PROVE  Rest'
<1> DEFINE q == [pc |-> "found", report |-> r, key |-> k, seen |-> row[r].status, content |-> None]
<1>1. q \in Request
  BY RequestTypes DEF Request, Row
<1>2. tx' = [tx EXCEPT ![s] = q] /\ UNCHANGED <<row, file>>
  BY DEF Find
<1>3. (\A t \in Sessions : ~HoldsLock(t)) /\ row[r].status # "completed"
  BY DEF Find, Requestable, LockFree, Incomplete
<1>4. q.pc = "found" /\ q.report = r /\ q.key = k
  OBVIOUS
<1> HIDE DEF q
<1>5. QED
  BY <1>1, <1>2, <1>3, <1>4, RequestStep

LEMMA ClaimStep ==
    ASSUME ExportInv, NEW s \in Sessions, Claim(s)
    PROVE  Rest'
<1> DEFINE q == [tx[s] EXCEPT !.pc = "claimed"]
<1>1. tx[s] \in Request /\ tx[s].report \in Reports /\ tx[s].key \in Keys /\ HoldsLock(s)
  BY RequestTypes DEF Claim, HoldsLock
<1>2. q \in Request /\ q.pc = "claimed" /\ q.report = tx[s].report /\ q.key = tx[s].key
  BY <1>1 DEF Request
<1>3. tx' = [tx EXCEPT ![s] = q] /\ UNCHANGED <<row, file>>
  BY DEF Claim
<1>4. (\A t \in Sessions \ {s} : ~HoldsLock(t)) /\ row[tx[s].report].status # "completed"
  BY <1>1 DEF ExportInv, OneHolder, HolderIncomplete
<1> HIDE DEF q
<1>5. QED
  BY <1>1, <1>2, <1>3, <1>4, RequestStep

\* A request that fails, dies or reads the row gives up the lock, or had.
LEMMA EndStep ==
    ASSUME ExportInv, NEW s \in Sessions,
           ClaimConflict(s) \/ RefuseFile(s) \/ Fail(s) \/ Crash(s) \/ ReadForFailure(s)
    PROVE  Rest'
<1>1. tx[s] \in Request /\ (tx[s].pc # "idle" => tx[s].report \in Reports /\ tx[s].key \in Keys)
  BY RequestTypes
<1>2. UNCHANGED <<row, file>>
  BY DEF ClaimConflict, RefuseFile, Fail, Crash, ReadForFailure
<1>3. CASE ClaimConflict(s) \/ RefuseFile(s) \/ Fail(s)
  <2> DEFINE q == [tx[s] EXCEPT !.pc = "failed"]
  <2>1. tx' = [tx EXCEPT ![s] = q] /\ tx[s].pc # "idle"
    BY <1>3 DEF ClaimConflict, RefuseFile, Fail, HoldsLock
  <2>2. q \in Request /\ q.pc = "failed" /\ q.report = tx[s].report /\ q.key = tx[s].key
    BY <1>1 DEF Request
  <2> HIDE DEF q
  <2>3. QED
    BY <1>1, <1>2, <2>1, <2>2, RequestStep
<1>4. CASE Crash(s)
  <2>1. Idle \in Request /\ Idle.pc = "idle"
    BY DEF Idle, Request
  <2>2. tx' = [tx EXCEPT ![s] = Idle]
    BY <1>4 DEF Crash
  <2>3. QED
    BY <1>2, <2>1, <2>2, RequestStep
<1>5. CASE ReadForFailure(s)
  <2> DEFINE q == [tx[s] EXCEPT !.pc = "recording", !.seen = row[tx[s].report].status]
  <2>1. tx' = [tx EXCEPT ![s] = q] /\ tx[s].pc # "idle"
    BY <1>5 DEF ReadForFailure
  <2>2. row[tx[s].report].status \in {"none", "failed", "completed"}
    BY <1>1, <2>1, RequestTypes DEF Row
  <2>3. q \in Request /\ q.pc = "recording" /\ q.report = tx[s].report /\ q.key = tx[s].key
    BY <1>1, <2>2 DEF Request
  <2> HIDE DEF q
  <2>4. QED
    BY <1>1, <1>2, <2>1, <2>3, RequestStep
<1>6. QED
  BY <1>3, <1>4, <1>5

\* The workbook is put in place, or found there, by the holder of the lock.
LEMMA WorkbookStep ==
    ASSUME ExportInv, NEW s \in Sessions, Build(s) \/ Recover(s)
    PROVE  Rest'
<1> DEFINE r == tx[s].report
<1>1. /\ tx[s] \in Request /\ r \in Reports /\ tx[s].key \in Keys /\ HoldsLock(s)
      /\ tx[s].pc = "claimed"
  BY RequestTypes DEF Build, Recover, HoldsLock
<1>2. tx \in [Sessions -> Request] /\ file \in [Reports -> Nat \union {None, Damaged}] /\ builds \in Nat
  BY DEF ExportInv, TypeOK
<1>3. PICK n \in Nat : /\ tx' = [tx EXCEPT ![s] = [tx[s] EXCEPT !.pc = "built", !.content = n]]
                       /\ file'[r] = n
  <2>1. CASE Build(s)
    <3>1. builds + 1 \in Nat
      BY <1>2
    <3>2. file'[r] = builds + 1
      BY <1>1, <1>2, <2>1 DEF Build
    <3>3. QED
      BY <2>1, <3>1, <3>2 DEF Build
  <2>2. CASE Recover(s)
    BY <2>2 DEF Recover, Recovered, Verified
  <2>3. QED
    BY <2>1, <2>2
<1>4. row' = row /\ (\A q \in Reports \ {r} : file'[q] = file[q])
  BY <1>2 DEF Build, Recover
<1>5. /\ tx'[s].pc = "built" /\ tx'[s].report = r /\ tx'[s].key = tx[s].key /\ tx'[s].content = n
      /\ \A t \in Sessions \ {s} : tx'[t] = tx[t]
  BY <1>1, <1>2, <1>3 DEF Request
<1>6. row[r].status # "completed"
  BY <1>1 DEF ExportInv, HolderIncomplete
<1>7. \A t \in Sessions \ {s} : ~HoldsLock(t)
  BY <1>1 DEF ExportInv, OneHolder
<1> HIDE DEF r
<1>8. Placed'
  BY <1>1, <1>5 DEF ExportInv, Placed, r
<1>9. OneHolder'
  BY <1>5, <1>7 DEF OneHolder, HoldsLock
<1>10. HolderIncomplete'
  BY <1>4, <1>5, <1>6, <1>7 DEF HolderIncomplete, HoldsLock
<1>11. BuiltInPlace'
  BY <1>3, <1>5, <1>7 DEF BuiltInPlace, HoldsLock
<1>12. ArtifactOfCompleted' /\ FileKept'
  BY <1>4, <1>6 DEF ExportInv, ArtifactOfCompleted, FileKept
<1>13. QED
  BY <1>8, <1>9, <1>10, <1>11, <1>12 DEF Rest

\* What Commit makes of a row.
LEMMA CommitFields ==
    ASSUME ExportInv, NEW s \in Sessions, Commit(s)
    PROVE  /\ tx[s].report \in Reports /\ HoldsLock(s)
           /\ tx[s].content \in Nat
           /\ row[tx[s].report].status # "completed"
           /\ row[tx[s].report].artifact = None
           /\ file[tx[s].report] \in {tx[s].content, None, Damaged}
           /\ row'[tx[s].report].status = "completed"
           /\ row'[tx[s].report].artifact = tx[s].content
           /\ \A r \in Reports \ {tx[s].report} : row'[r] = row[r]
           /\ tx'[s] = Idle
           /\ \A t \in Sessions \ {s} : tx'[t] = tx[t]
<1>1. tx[s].pc = "built" /\ HoldsLock(s) /\ tx[s].report \in Reports
  BY RequestTypes DEF Commit, HoldsLock
<1>2. row \in [Reports -> Row] /\ tx \in [Sessions -> Request]
  BY DEF ExportInv, TypeOK
<1>3. tx[s].content \in Nat /\ file[tx[s].report] \in {tx[s].content, None, Damaged}
  BY <1>1 DEF ExportInv, BuiltInPlace
<1>4. row[tx[s].report].status # "completed"
  BY <1>1 DEF ExportInv, HolderIncomplete
<1>5. row[tx[s].report].artifact = None
  BY <1>1, <1>4 DEF ExportInv, ArtifactOfCompleted
<1>6. QED
  BY <1>1, <1>2, <1>3, <1>4, <1>5 DEF Commit

LEMMA CommitStep ==
    ASSUME ExportInv, NEW s \in Sessions, Commit(s)
    PROVE  Rest'
<1>1. file' = file
  BY DEF Commit
<1>2. \A t \in Sessions \ {s} : ~HoldsLock(t)
  BY CommitFields DEF ExportInv, OneHolder
<1>3. Idle.pc = "idle"
  BY DEF Idle
<1>4. Placed'
  BY CommitFields, <1>3 DEF ExportInv, Placed
<1>5. OneHolder' /\ HolderIncomplete' /\ BuiltInPlace'
  BY CommitFields, <1>2, <1>3 DEF OneHolder, HolderIncomplete, BuiltInPlace, HoldsLock
<1>6. ArtifactOfCompleted'
  BY CommitFields DEF ExportInv, ArtifactOfCompleted
<1>7. FileKept'
  BY CommitFields, <1>1 DEF ExportInv, FileKept
<1>8. QED
  BY <1>4, <1>5, <1>6, <1>7 DEF Rest

\* What the record of a failure leaves of a row.
LEMMA WrittenFields ==
    ASSUME ExportInv, NEW s \in Sessions, NEW r \in Reports
    PROVE  /\ row[r].status = "completed" => Written(s, r) = row[r]
           /\ row[r].status # "completed" =>
                 Written(s, r).status # "completed" /\ Written(s, r).artifact = None
  BY RequestTypes DEF Written, Insertable, Mutable, Row, ExportInv, ArtifactOfCompleted

LEMMA RecordStep ==
    ASSUME ExportInv, NEW s \in Sessions, RecordFailure(s)
    PROVE  Rest'
<1> DEFINE r == tx[s].report
<1>1. row \in [Reports -> Row] /\ tx \in [Sessions -> Request] /\ file' = file /\ r \in Reports
  BY RequestTypes DEF ExportInv, TypeOK, RecordFailure
<1>2. /\ row'[r] = Written(s, r) /\ \A q \in Reports \ {r} : row'[q] = row[q]
      /\ tx'[s] = Idle /\ \A t \in Sessions \ {s} : tx'[t] = tx[t]
  BY <1>1 DEF RecordFailure
<1>3. Idle.pc = "idle"
  BY DEF Idle
<1> HIDE DEF r
<1>4. \A q \in Reports : /\ row[q].status = "completed" => row'[q] = row[q]
                         /\ row[q].status # "completed" =>
                               row'[q].status # "completed" /\ row'[q].artifact = None
  BY <1>1, <1>2, WrittenFields DEF ExportInv, ArtifactOfCompleted
<1>5. Placed' /\ OneHolder' /\ BuiltInPlace'
  BY <1>1, <1>2, <1>3 DEF ExportInv, Placed, OneHolder, BuiltInPlace, HoldsLock
<1>6. HolderIncomplete'
  BY <1>2, <1>3, <1>4 DEF ExportInv, HolderIncomplete, Placed, HoldsLock
<1>7. ArtifactOfCompleted' /\ FileKept'
  BY <1>1, <1>4 DEF ExportInv, ArtifactOfCompleted, FileKept
<1>8. QED
  BY <1>5, <1>6, <1>7 DEF Rest

LEMMA LoseStep ==
    ASSUME ExportInv, NEW r \in Reports, LoseFile(r)
    PROVE  Rest'
<1>1. file \in [Reports -> Nat \union {None, Damaged}]
  BY DEF ExportInv, TypeOK
<1>2. row' = row /\ tx' = tx
  BY DEF LoseFile
<1>3. file'[r] \in {None, Damaged} /\ \A q \in Reports \ {r} : file'[q] = file[q]
  BY <1>1 DEF LoseFile
<1>4. Placed' /\ OneHolder' /\ HolderIncomplete' /\ ArtifactOfCompleted'
  BY <1>2 DEF ExportInv, Placed, OneHolder, HolderIncomplete, ArtifactOfCompleted, HoldsLock
<1>5. BuiltInPlace'
  BY <1>2, <1>3 DEF ExportInv, BuiltInPlace, Placed
<1>6. FileKept'
  BY <1>2, <1>3 DEF ExportInv, FileKept
<1>7. QED
  BY <1>4, <1>5, <1>6 DEF Rest

LEMMA ExportStep == ExportInv /\ [Next]_vars => ExportInv'
<1> SUFFICES ASSUME ExportInv, [Next]_vars PROVE ExportInv'
  OBVIOUS
<1>1. TypeOK'
  BY TypeStep
<1>2. ASSUME row' = row, file' = file, tx' = tx PROVE Rest'
  BY <1>2 DEF Rest, ExportInv, Placed, OneHolder, HolderIncomplete, BuiltInPlace,
     ArtifactOfCompleted, FileKept, HoldsLock
<1>3. ASSUME NEW s \in Sessions, NEW r \in Reports, NEW k \in Keys,
             Find(s, r, k) \/ Reuse(s, r, k)
      PROVE  Rest'
  BY <1>2, <1>3, FindStep DEF Reuse
<1>4. ASSUME NEW s \in Sessions, Proceed(s) \/ Fail(s) \/ Crash(s) PROVE Rest'
  BY <1>4, ClaimStep, EndStep, WorkbookStep, CommitStep, RecordStep DEF Proceed
<1>5. ASSUME NEW r \in Reports, LoseFile(r) \/ Download(r) PROVE Rest'
  BY <1>2, <1>5, LoseStep DEF Download
<1>6. ASSUME UNCHANGED vars PROVE Rest'
  BY <1>2, <1>6 DEF vars
<1>7. Rest'
  BY <1>3, <1>4, <1>5, <1>6 DEF Next
<1>8. QED
  BY <1>1, <1>7 DEF ExportInv, Rest

\* The variables of ReportExport keep their types (create_report_export and the
\* record of its failures).
THEOREM TypeCorrect == Spec => []TypeOK
<1>1. ExportInv => TypeOK
  BY DEF ExportInv
<1>2. QED
  BY ExportInit, ExportStep, <1>1, PTL DEF Spec

\* Whatever fails, dies or is repeated, the file of a completed export is the
\* recorded one or was lost by the volume (_recover_or_build).
THEOREM FilesKept == Spec => []FileKept
<1>1. ExportInv => FileKept
  BY DEF ExportInv
<1>2. QED
  BY ExportInit, ExportStep, <1>1, PTL DEF Spec

\* Neither a late request nor the record of an older failure changes the row of
\* a completed export (_rollback_and_record_failure and the trigger).
THEOREM CompletedStay == Spec => CompletedKept
<1>1. ASSUME ExportInv, [Next]_vars, NEW r \in Reports, row[r].status = "completed"
      PROVE  row'[r] = row[r]
  <2>1. CASE row' = row
    BY <2>1
  <2>2. ASSUME NEW s \in Sessions, Commit(s) PROVE row'[r] = row[r]
    BY <1>1, <2>2, CommitFields
  <2>3. ASSUME NEW s \in Sessions, RecordFailure(s) PROVE row'[r] = row[r]
    <3>1. row \in [Reports -> Row]
      BY <1>1 DEF ExportInv, TypeOK
    <3>2. QED
      BY <1>1, <2>3, <3>1, WrittenFields DEF RecordFailure
  <2>4. QED
    BY <1>1, <2>1, <2>2, <2>3 DEF Next, Find, Reuse, Proceed, Claim, ClaimConflict, Build,
       Recover, RefuseFile, ReadForFailure, Fail, Crash, LoseFile, Download, vars
<1>2. ExportInv /\ [Next]_vars => [\A r \in Reports : row[r].status = "completed" => row'[r] = row[r]]_vars
  BY <1>1
<1>3. QED
  BY ExportInit, ExportStep, <1>2, PTL DEF Spec, CompletedKept

-----------------------------------------------------------------------------
(* Refinement *)

Artifacts == [r \in Reports |-> row[r].artifact]

LEMMA CommitPublishes ==
    ASSUME ExportInv, NEW s \in Sessions, Commit(s), NEW r \in Reports, r = tx[s].report
    PROVE  Once!Publish(r)
<1>1. /\ Artifacts[r] = None /\ Artifacts'[r] = tx[s].content /\ tx[s].content \in Nat
  BY CommitFields DEF Artifacts
<1>2. Artifacts' = [Artifacts EXCEPT ![r] = Artifacts'[r]]
  BY CommitFields DEF Artifacts
<1>3. /\ served' = [served EXCEPT ![r] = served[r] \union {tx[s].content}]
      /\ audits' = [audits EXCEPT ![r] = audits[r] + 1]
  BY DEF Commit
<1>4. QED
  BY <1>1, <1>2, <1>3 DEF Once!Publish, Artifacts

LEMMA AnswerServes ==
    ASSUME ExportInv, NEW r \in Reports, row[r].status = "completed", Readable(r), Answer(r),
           UNCHANGED <<row, audits>>
    PROVE  Once!Serve(r)
<1>1. file[r] = Artifacts[r] /\ Artifacts[r] # None
  BY ReadableArtifact, NoneAssumption DEF Artifacts
<1>2. Artifacts' = Artifacts
  BY DEF Artifacts
<1>3. QED
  BY <1>1, <1>2 DEF Once!Serve, Answer, Artifacts

\* Steps in which no export is completed and no answer given.
LEMMA OthersStutter ==
    ASSUME ExportInv, [Next]_vars,
           \A s \in Sessions : ~Commit(s),
           \A s \in Sessions, r \in Reports, k \in Keys : ~Reuse(s, r, k),
           \A r \in Reports : ~Download(r)
    PROVE  UNCHANGED <<Artifacts, audits, served>>
<1>1. UNCHANGED <<audits, served>>
  BY DEF Next, Find, Proceed, Claim, ClaimConflict, Build, Recover, RefuseFile,
     ReadForFailure, RecordFailure, Fail, Crash, LoseFile, vars
<1>2. CASE row' = row
  BY <1>1, <1>2 DEF Artifacts
<1>3. ASSUME NEW s \in Sessions, RecordFailure(s) PROVE Artifacts' = Artifacts
  <2>1. row \in [Reports -> Row] /\ tx[s].report \in Reports
    BY <1>3, RequestTypes DEF ExportInv, TypeOK, RecordFailure
  <2>2. \A r \in Reports : row'[r].artifact = row[r].artifact
    BY <1>3, <2>1, WrittenFields DEF RecordFailure, ExportInv, ArtifactOfCompleted
  <2>3. QED
    BY <2>2 DEF Artifacts
<1>4. QED
  BY <1>1, <1>2, <1>3 DEF Next, Find, Proceed, Claim, ClaimConflict, Build, Recover,
     RefuseFile, ReadForFailure, Fail, Crash, LoseFile, vars

\* Requests, failures, crashes and lost files in any interleaving publish each
\* report's workbook once, and answer with nothing else.
THEOREM Refinement == Spec => ImplementsArtifactOnce
<1>1. Init => Once!Init
  BY DEF Init, NoRow, Once!Init
<1>2. ExportInv /\ [Next]_vars => [Once!Next]_<<Artifacts, audits, served>>
  <2> SUFFICES ASSUME ExportInv, [Next]_vars
               PROVE  [Once!Next]_<<Artifacts, audits, served>>
    OBVIOUS
  <2>1. ASSUME NEW s \in Sessions, Commit(s) PROVE Once!Next
    <3>1. PICK r \in Reports : r = tx[s].report
      BY <2>1, CommitFields
    <3>2. Once!Publish(r)
      BY <2>1, <3>1, CommitPublishes
    <3>3. QED
      BY <3>2 DEF Once!Next
  <2>2. ASSUME NEW s \in Sessions, NEW r \in Reports, NEW k \in Keys, Reuse(s, r, k) PROVE Once!Next
    BY <2>2, AnswerServes DEF Once!Next, Reuse
  <2>3. ASSUME NEW r \in Reports, Download(r) PROVE Once!Next
    BY <2>3, AnswerServes DEF Once!Next, Download
  <2>4. CASE /\ \A s \in Sessions : ~Commit(s)
             /\ \A s \in Sessions, r \in Reports, k \in Keys : ~Reuse(s, r, k)
             /\ \A r \in Reports : ~Download(r)
    BY <2>4, OthersStutter
  <2>5. QED
    BY <2>1, <2>2, <2>3, <2>4
<1>3. QED
  BY ExportInit, ExportStep, <1>1, <1>2, PTL
  DEF Spec, ImplementsArtifactOnce, Once!Spec, Artifacts
=============================================================================
