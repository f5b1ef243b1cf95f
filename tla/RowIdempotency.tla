--------------------------- MODULE RowIdempotency ---------------------------
(***************************************************************************)
(* process_row_once: sessions, each in its own READ COMMITTED transaction, *)
(* process the rows of one file version in row order.  A row with a        *)
(* committed result is skipped; otherwise it is computed, which has        *)
(* database effects in the same transaction, and its result is inserted    *)
(* with ON CONFLICT DO NOTHING.  A session that dies is run again from the *)
(* first row.                                                              *)
(*                                                                         *)
(* Two callers exist.  validate_batch holds the tenant lock and raises     *)
(* when a row was not created (Locked, Strict); a LangGraph node, as the   *)
(* recovery tests build it, does neither.                                  *)
(***************************************************************************)
EXTENDS Integers

CONSTANTS
    Rows,       \* row numbers of the parsed rows
    Verdicts,
    None,       \* no verdict, no row
    Sessions,
    Locked,     \* the caller holds the tenant lock
    Strict,     \* the caller raises when the row was not created
    MaxFailures \* bound: computations that raise, processes that die

ASSUME RowsAssumption == Rows \subseteq Nat /\ None \notin Rows
ASSUME VerdictsAssumption == None \notin Verdicts
ASSUME CallerAssumption == Locked \in BOOLEAN /\ Strict \in BOOLEAN
ASSUME BoundAssumption == MaxFailures \in Nat

VARIABLES
    result,   \* row_result, committed
    effects,  \* committed effects of each row's computation
    tx,       \* each session's transaction
    failures

vars == <<result, effects, tx, failures>>

Results == [Rows -> Verdicts \union {None}]
NoResults == [r \in Rows |-> None]
NoEffects == [r \in Rows |-> 0]

\* A transaction: the rows left, the row computed and its verdict, the
\* results and effects not yet committed, and what process_row_once returned.
Transaction == [pc : {"idle", "open", "computed"},
                todo : SUBSET Rows,
                row : Rows \union {None},
                verdict : Verdicts \union {None},
                inserted : Results,
                effects : [Rows -> 0..1],
                outcome : Results]

Closed == [pc |-> "idle", todo |-> {}, row |-> None, verdict |-> None,
           inserted |-> NoResults, effects |-> NoEffects, outcome |-> NoResults]

TypeOK ==
    /\ result \in Results
    /\ effects \in [Rows -> Nat]
    /\ tx \in [Sessions -> Transaction]
    /\ failures \in 0..MaxFailures

Init ==
    /\ result = NoResults
    /\ effects = NoEffects
    /\ tx = [s \in Sessions |-> Closed]
    /\ failures = 0

-----------------------------------------------------------------------------

\* lock_tenant_nowait: with the lock, one transaction at a time.
Lockable(s) == Locked => \A t \in Sessions \ {s} : tx[t].pc = "idle"

\* The completed run that validate_batch returns without processing a row.
Validated == Strict /\ \A r \in Rows : result[r] # None

Begin(s) ==
    /\ tx[s].pc = "idle"
    /\ Lockable(s)
    /\ ~Validated
    /\ tx' = [tx EXCEPT ![s] = [Closed EXCEPT !.pc = "open", !.todo = Rows]]
    /\ UNCHANGED <<result, effects, failures>>

\* Mutant: rows are processed in any order.
AnyRow(s, r) == r \in tx[s].todo

\* The row the session comes to: rows are processed in order.
NextRow(s, r) == r \in tx[s].todo /\ \A q \in tx[s].todo : r <= q

Remaining(s, r) == tx[s].todo \ {r}

\* process_row_once returns verdict v for row r; the session goes on.
Return(s, r, v) ==
    [tx[s] EXCEPT !.pc = "open", !.todo = Remaining(s, r), !.row = None,
                  !.verdict = None, !.outcome = [tx[s].outcome EXCEPT ![r] = v]]

\* fetch_row_result finds a committed result: compute is not called.
SkipRow(s, r) ==
    /\ tx[s].pc = "open"
    /\ NextRow(s, r)
    /\ result[r] # None
    /\ tx' = [tx EXCEPT ![s] = IF Strict THEN Closed ELSE Return(s, r, result[r])]
    /\ UNCHANGED <<result, effects, failures>>

\* The row has no committed result.
Unsettled(r) == result[r] = None

Computed(s, r, v) ==
    [tx[s] EXCEPT !.pc = "computed", !.row = r, !.verdict = v,
                  !.effects = [tx[s].effects EXCEPT ![r] = tx[s].effects[r] + 1]]

\* Mutant: the effects are committed in a session of their own.
ComputeOutside(s, r) ==
    /\ tx[s].pc = "open"
    /\ NextRow(s, r)
    /\ Unsettled(r)
    /\ \E v \in Verdicts :
        tx' = [tx EXCEPT ![s] = [Computed(s, r, v) EXCEPT !.effects = tx[s].effects]]
    /\ effects' = [effects EXCEPT ![r] = effects[r] + 1]
    /\ UNCHANGED <<result, failures>>

\* fetch_row_result finds nothing, and compute leaves its effects in the
\* transaction.
ComputeRow(s, r) ==
    /\ tx[s].pc = "open"
    /\ NextRow(s, r)
    /\ Unsettled(r)
    /\ \E v \in Verdicts : tx' = [tx EXCEPT ![s] = Computed(s, r, v)]
    /\ UNCHANGED <<result, effects, failures>>

\* ON CONFLICT waits for a transaction that has inserted the row.
Awaited(s, r) == \E t \in Sessions \ {s} : tx[t].inserted[r] # None

\* Mutant: the result is committed in a session of its own.
InsertOutside(s) ==
    LET r == tx[s].row
        v == tx[s].verdict
    IN  /\ tx[s].pc = "computed"
        /\ result[r] = None
        /\ result' = [result EXCEPT ![r] = v]
        /\ tx' = [tx EXCEPT ![s] = Return(s, r, v)]
        /\ UNCHANGED <<effects, failures>>

\* upsert_row_result inserts the row.
InsertRow(s) ==
    LET r == tx[s].row
        v == tx[s].verdict
    IN  /\ tx[s].pc = "computed"
        /\ ~Awaited(s, r)
        /\ result[r] = None
        /\ tx' = [tx EXCEPT ![s] = [Return(s, r, v) EXCEPT
                    !.inserted = [tx[s].inserted EXCEPT ![r] = v]]]
        /\ UNCHANGED <<result, effects, failures>>

\* Mutant: the verdict just computed is returned.
ComputedVerdict(s) == tx[s].verdict

\* The result that was there first.
ExistingVerdict(s) == result[tx[s].row]

\* validate_batch raises when the row was not created, and rolls back.
NotCreated(s) == IF Strict THEN Closed ELSE Return(s, tx[s].row, ExistingVerdict(s))

\* upsert_row_result meets a result committed since: it does nothing.
ConflictRow(s) ==
    /\ tx[s].pc = "computed"
    /\ ~Awaited(s, tx[s].row)
    /\ result[tx[s].row] # None
    /\ tx' = [tx EXCEPT ![s] = NotCreated(s)]
    /\ UNCHANGED <<result, effects, failures>>

\* The transaction commits when every row is processed.
Commit(s) ==
    /\ tx[s].pc = "open"
    /\ tx[s].todo = {}
    /\ result' = [r \in Rows |->
                    IF tx[s].inserted[r] # None THEN tx[s].inserted[r] ELSE result[r]]
    /\ effects' = [r \in Rows |-> effects[r] + tx[s].effects[r]]
    /\ tx' = [tx EXCEPT ![s] = [Closed EXCEPT !.outcome = tx[s].outcome]]
    /\ UNCHANGED failures

\* compute raises, or the process dies: the transaction rolls back.
Fail(s) ==
    /\ tx[s].pc # "idle"
    /\ failures < MaxFailures
    /\ tx' = [tx EXCEPT ![s] = Closed]
    /\ failures' = failures + 1
    /\ UNCHANGED <<result, effects>>

Proceed(s) ==
    \/ Begin(s)
    \/ \E r \in Rows : SkipRow(s, r) \/ ComputeRow(s, r)
    \/ InsertRow(s)
    \/ ConflictRow(s)
    \/ Commit(s)

Next == \E s \in Sessions : Proceed(s) \/ Fail(s)

Spec == Init /\ [][Next]_vars

\* A batch is processed until it is done: the graph is resumed with its
\* thread, and the client repeats a validation that failed.
FairSpec == Spec /\ \A s \in Sessions : WF_vars(Proceed(s))

-----------------------------------------------------------------------------
(* Properties *)

Once == INSTANCE RowOnce

\* However often a batch fails and is run again, its rows are settled as
\* RowOnce says: once, effects and result together.
ImplementsRowOnce == Once!Spec

\* An unlocked caller keeps this much when its sessions overlap and die: no
\* row has a result without the effects of its computation, and no effects are
\* committed of a row that has none (process_row_once in one transaction).
EffectsWithResult ==
    \A r \in Rows : (effects[r] = 0) = (result[r] = None)

\* The effects of a row are committed once, with its result.  That is part of
\* RowOnce, for a caller that is locked or strict.  Concurrent writers that are
\* neither break it, although the docstring of core/orchestration/idempotency.py
\* includes them (line 22; specs/004:248 does not).
EffectsOnce ==
    \A r \in Rows : effects[r] = IF result[r] = None THEN 0 ELSE 1

\* What a caller was told of a row is what it stored or what is stored: on a
\* conflict it learns the verdict of the writer that came first.
OutcomesAgree ==
    \A s \in Sessions, r \in Rows :
        tx[s].outcome[r] # None =>
            tx[s].outcome[r] = IF tx[s].inserted[r] # None THEN tx[s].inserted[r]
                               ELSE result[r]

\* Every row of the batch is settled: sessions that wait for each other's
\* rows do not wait in a circle.
EveryRowSettles == <>(\A r \in Rows : result[r] # None)
=============================================================================
