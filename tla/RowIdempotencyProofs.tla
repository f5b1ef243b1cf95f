------------------------ MODULE RowIdempotencyProofs ------------------------
(***************************************************************************)
(* Proofs about RowIdempotency, for any rows, sessions and bounds: types,  *)
(* what callers are told, and, for callers that hold the tenant lock or    *)
(* raise when a row was not created, the implementation of RowOnce.        *)
(***************************************************************************)
EXTENDS RowIdempotency, TLAPS

\* A computed row is one of the rows left, with a verdict.
ComputedRow ==
    \A s \in Sessions : tx[s].pc = "computed" =>
        tx[s].row \in tx[s].todo /\ tx[s].verdict \in Verdicts

\* Nothing was inserted, returned or left behind for a row to come.
RowsToCome ==
    \A s \in Sessions : \A r \in tx[s].todo :
        /\ tx[s].inserted[r] = None
        /\ tx[s].outcome[r] = None
        /\ ~(tx[s].pc = "computed" /\ tx[s].row = r) => tx[s].effects[r] = 0

\* A closed transaction holds nothing.
ClosedEmpty ==
    \A s \in Sessions : tx[s].pc = "idle" =>
        /\ tx[s].todo = {}
        /\ \A r \in Rows : tx[s].inserted[r] = None /\ tx[s].effects[r] = 0

\* A row is inserted by one transaction, and only while it has no result.
InsertedAlone ==
    \A s \in Sessions, r \in Rows : tx[s].inserted[r] # None =>
        /\ result[r] = None
        /\ \A t \in Sessions \ {s} : tx[t].inserted[r] = None

TypeInv == TypeOK /\ ComputedRow /\ RowsToCome /\ ClosedEmpty /\ InsertedAlone

\* The empty transaction, and each way a transaction goes on.
LEMMA ClosedType == Closed \in Transaction
  BY DEF Closed, Transaction, NoResults, NoEffects, Results

LEMMA ReturnType ==
    ASSUME NEW s, tx[s] \in Transaction, NEW r \in Rows, NEW v \in Verdicts \union {None}
    PROVE  Return(s, r, v) \in Transaction
  BY DEF Return, Remaining, Transaction, Results

LEMMA ReturnFields ==
    ASSUME NEW s, tx[s] \in Transaction, NEW r \in Rows, NEW v \in Verdicts \union {None}
    PROVE  /\ Return(s, r, v).pc = "open"
           /\ Return(s, r, v).todo = tx[s].todo \ {r}
           /\ Return(s, r, v).inserted = tx[s].inserted
           /\ Return(s, r, v).effects = tx[s].effects
           /\ Return(s, r, v).outcome = [tx[s].outcome EXCEPT ![r] = v]
  BY DEF Return, Remaining, Transaction

LEMMA ReturnKeeps ==
    ASSUME NEW s, tx[s] \in Transaction, NEW r \in Rows, NEW v \in Verdicts \union {None}
    PROVE  /\ Return(s, r, v).pc = "open"
           /\ Return(s, r, v).inserted = tx[s].inserted
           /\ Return(s, r, v).effects = tx[s].effects
  BY DEF Return, Remaining, Transaction

LEMMA ClosedFields ==
    /\ Closed.pc = "idle" /\ Closed.todo = {}
    /\ Closed.inserted = NoResults /\ Closed.effects = NoEffects /\ Closed.outcome = NoResults
  BY DEF Closed

LEMMA TypeInit == Init => TypeInv
<1> SUFFICES ASSUME Init PROVE TypeInv
  OBVIOUS
<1>1. TypeOK
  BY ClosedType, BoundAssumption DEF Init, TypeOK, Results, NoResults, NoEffects
<1>2. \A s \in Sessions : tx[s] = Closed
  BY DEF Init
<1>3. QED
  BY <1>1, <1>2, ClosedFields
  DEF TypeInv, ComputedRow, RowsToCome, ClosedEmpty, InsertedAlone, NoResults, NoEffects

LEMMA TypeStep == TypeInv /\ [Next]_vars => TypeInv'
<1> SUFFICES ASSUME TypeInv, [Next]_vars PROVE TypeInv'
  OBVIOUS
<1> USE DEF TypeInv
<1>1. ASSUME NEW s \in Sessions, Begin(s) PROVE TypeInv'
  <2> DEFINE t == [Closed EXCEPT !.pc = "open", !.todo = Rows]
  <2>1. /\ t \in Transaction
        /\ t.pc = "open" /\ t.todo = Rows
        /\ t.inserted = NoResults /\ t.effects = NoEffects /\ t.outcome = NoResults
    BY ClosedType, ClosedFields DEF Transaction
  <2>2. tx' = [tx EXCEPT ![s] = t] /\ UNCHANGED <<result, effects, failures>>
    BY <1>1 DEF Begin
  <2> HIDE DEF t
  <2>3. TypeOK'
    BY <2>1, <2>2 DEF TypeOK
  <2>4. ComputedRow'
    BY <2>1, <2>2 DEF TypeOK, ComputedRow
  <2>9. ClosedEmpty'
    BY <2>1, <2>2 DEF TypeOK, ClosedEmpty
  <2>8. \A r \in t.todo : t.inserted[r] = None /\ t.outcome[r] = None /\ t.effects[r] = 0
    BY <2>1 DEF NoResults, NoEffects
  <2>7. RowsToCome'
    BY <2>1, <2>2, <2>8 DEF TypeOK, RowsToCome
  <2>5. InsertedAlone'
    BY <2>1, <2>2 DEF TypeOK, InsertedAlone, NoResults
  <2>6. QED
    BY <2>3, <2>4, <2>5, <2>7, <2>9
<1>2. ASSUME NEW s \in Sessions, tx' = [tx EXCEPT ![s] = Closed],
             UNCHANGED <<result, effects>>, failures' \in 0..MaxFailures
      PROVE  TypeInv'
  <2>1. TypeOK'
    BY <1>2, ClosedType DEF TypeOK
  <2>2. ComputedRow' /\ RowsToCome' /\ ClosedEmpty' /\ InsertedAlone'
    BY <1>2, ClosedFields
    DEF TypeOK, ComputedRow, RowsToCome, ClosedEmpty, InsertedAlone, NoResults, NoEffects
  <2>3. QED
    BY <2>1, <2>2
<1>3. ASSUME NEW s \in Sessions, NEW r \in Rows, NEW v \in Verdicts \union {None},
             tx[s].pc # "idle", r \in tx[s].todo,
             tx[s].pc = "computed" => tx[s].row = r,
             tx' = [tx EXCEPT ![s] = Return(s, r, v)],
             UNCHANGED <<result, effects, failures>>
      PROVE  TypeInv'
  <2> DEFINE t == Return(s, r, v)
  <2>1. tx[s] \in Transaction
    BY DEF TypeOK
  <2>2. /\ t \in Transaction
        /\ t.pc = "open" /\ t.todo = tx[s].todo \ {r}
        /\ t.inserted = tx[s].inserted /\ t.effects = tx[s].effects
        /\ t.outcome = [tx[s].outcome EXCEPT ![r] = v]
    BY <2>1, ReturnType, ReturnFields
  <2>3. tx' = [tx EXCEPT ![s] = t]
    BY <1>3
  <2> HIDE DEF t
  <2>4. TypeOK'
    BY <1>3, <2>2, <2>3 DEF TypeOK
  <2>5. tx[s].todo \subseteq Rows /\ tx[s].outcome \in Results
    BY <2>1 DEF Transaction
  <2>6. \A q \in t.todo : t.inserted[q] = None /\ t.outcome[q] = None /\ t.effects[q] = 0
    <3> TAKE q \in t.todo
    <3>1. q \in tx[s].todo /\ q # r
      BY <2>2
    <3>2. tx[s].pc = "computed" => tx[s].row = r
      BY <1>3
    <3> QED
      BY <3>1, <3>2, <2>2, <2>5 DEF RowsToCome, Results
  <2>7. ComputedRow'
    BY <2>2, <2>3 DEF TypeOK, ComputedRow
  <2>8. RowsToCome'
    BY <2>2, <2>3, <2>6 DEF TypeOK, RowsToCome
  <2>9. ClosedEmpty'
    BY <2>2, <2>3 DEF TypeOK, ClosedEmpty
  <2>10. InsertedAlone'
    BY <1>3, <2>2, <2>3 DEF TypeOK, InsertedAlone
  <2>11. QED
    BY <2>4, <2>7, <2>8, <2>9, <2>10
<1>4. ASSUME NEW s \in Sessions, NEW r \in Rows, SkipRow(s, r) PROVE TypeInv'
  <2>1. failures \in 0..MaxFailures /\ result[r] \in Verdicts \union {None}
    BY DEF TypeOK, Results
  <2>2. CASE Strict
    BY <1>2, <1>4, <2>1, <2>2 DEF SkipRow
  <2>3. CASE ~Strict
    BY <1>3, <1>4, <2>1, <2>3 DEF SkipRow, NextRow
  <2>4. QED
    BY <2>2, <2>3
<1>5. ASSUME NEW s \in Sessions, NEW r \in Rows, ComputeRow(s, r) PROVE TypeInv'
  <2>1. PICK v \in Verdicts : tx' = [tx EXCEPT ![s] = Computed(s, r, v)]
    BY <1>5 DEF ComputeRow
  <2> DEFINE t == Computed(s, r, v)
  <2>2. tx[s] \in Transaction /\ tx[s].pc = "open" /\ r \in tx[s].todo
    BY <1>5 DEF TypeOK, ComputeRow, NextRow
  <2>3. tx[s].effects \in [Rows -> 0..1] /\ tx[s].effects[r] = 0
    BY <2>2 DEF Transaction, RowsToCome
  <2>4. [tx[s].effects EXCEPT ![r] = tx[s].effects[r] + 1] \in [Rows -> 0..1]
    BY <2>3
  <2>5. /\ t \in Transaction
        /\ t.pc = "computed" /\ t.row = r /\ t.verdict = v /\ t.todo = tx[s].todo
        /\ t.inserted = tx[s].inserted /\ t.outcome = tx[s].outcome
        /\ t.effects = [tx[s].effects EXCEPT ![r] = tx[s].effects[r] + 1]
    BY <2>2, <2>4 DEF Computed, Transaction
  <2>6. tx' = [tx EXCEPT ![s] = t] /\ UNCHANGED <<result, effects, failures>>
    BY <1>5, <2>1 DEF ComputeRow
  <2> HIDE DEF t
  <2>7. TypeOK'
    BY <2>5, <2>6 DEF TypeOK
  <2>8. ComputedRow' /\ ClosedEmpty'
    BY <2>2, <2>5, <2>6 DEF TypeOK, ComputedRow, ClosedEmpty
  <2>9. \A q \in t.todo : /\ t.inserted[q] = None /\ t.outcome[q] = None
                          /\ t.row # q => t.effects[q] = 0
    BY <2>2, <2>3, <2>5 DEF RowsToCome, Transaction
  <2>10. RowsToCome'
    BY <2>5, <2>6, <2>9 DEF TypeOK, RowsToCome
  <2>11. InsertedAlone'
    BY <2>5, <2>6 DEF TypeOK, InsertedAlone
  <2>12. QED
    BY <2>7, <2>8, <2>10, <2>11
<1>6. ASSUME NEW s \in Sessions, ConflictRow(s) PROVE TypeInv'
  <2>1. tx[s].pc = "computed" /\ tx[s].row \in tx[s].todo /\ tx[s] \in Transaction
    BY <1>6 DEF ConflictRow, ComputedRow, TypeOK
  <2>2. tx[s].row \in Rows
    BY <2>1 DEF Transaction
  <2>3. failures \in 0..MaxFailures /\ result[tx[s].row] \in Verdicts \union {None}
    BY <2>2 DEF TypeOK, Results
  <2>4. CASE Strict
    BY <1>2, <1>6, <2>3, <2>4 DEF ConflictRow, NotCreated
  <2>5. CASE ~Strict
    BY <1>3, <1>6, <2>1, <2>2, <2>3, <2>5 DEF ConflictRow, NotCreated, ExistingVerdict
  <2>6. QED
    BY <2>4, <2>5
<1>7. ASSUME NEW s \in Sessions, InsertRow(s) PROVE TypeInv'
  <2> DEFINE r == tx[s].row
             v == tx[s].verdict
             t == [Return(s, r, v) EXCEPT !.inserted = [tx[s].inserted EXCEPT ![r] = v]]
  <2>1. /\ tx[s].pc = "computed" /\ r \in tx[s].todo /\ r \in Rows /\ v \in Verdicts
        /\ tx[s] \in Transaction /\ v # None
        /\ result[r] = None
        /\ \A u \in Sessions \ {s} : tx[u].inserted[r] = None
    BY <1>7, VerdictsAssumption DEF InsertRow, Awaited, ComputedRow, TypeOK, Transaction
  <2>2. tx[s].inserted \in Results /\ tx[s].outcome \in Results
    BY <2>1 DEF Transaction
  <2>3. [tx[s].inserted EXCEPT ![r] = v] \in Results
    BY <2>1, <2>2 DEF Results
  <2>4. Return(s, r, v) \in Transaction
    BY <2>1, ReturnType
  <2>5. /\ t \in Transaction
        /\ t.pc = "open" /\ t.todo = tx[s].todo \ {r}
        /\ t.inserted = [tx[s].inserted EXCEPT ![r] = v]
        /\ t.effects = tx[s].effects
        /\ t.outcome = [tx[s].outcome EXCEPT ![r] = v]
    <3> HIDE DEF r, v
    <3>1. /\ Return(s, r, v).pc = "open"
          /\ Return(s, r, v).todo = tx[s].todo \ {r}
          /\ Return(s, r, v).effects = tx[s].effects
          /\ Return(s, r, v).outcome = [tx[s].outcome EXCEPT ![r] = v]
      BY <2>1, ReturnType, ReturnFields
    <3>2. QED
      BY <2>3, <2>4, <3>1 DEF Transaction
  <2>6. tx' = [tx EXCEPT ![s] = t] /\ UNCHANGED <<result, effects, failures>>
    BY <1>7 DEF InsertRow
  <2> HIDE DEF t, r, v
  <2>7. TypeOK'
    BY <2>5, <2>6 DEF TypeOK
  <2>8. ComputedRow' /\ ClosedEmpty'
    BY <2>5, <2>6 DEF TypeOK, ComputedRow, ClosedEmpty
  <2>9. \A q \in t.todo : t.inserted[q] = None /\ t.outcome[q] = None /\ t.effects[q] = 0
    BY <2>1, <2>2, <2>5 DEF RowsToCome, Results, r
  <2>10. RowsToCome'
    BY <2>5, <2>6, <2>9 DEF TypeOK, RowsToCome
  <2>11. InsertedAlone'
    BY <2>1, <2>2, <2>5, <2>6 DEF TypeOK, InsertedAlone, Results
  <2>12. QED
    BY <2>7, <2>8, <2>10, <2>11
<1>8. ASSUME NEW s \in Sessions, Commit(s) PROVE TypeInv'
  <2> DEFINE t == [Closed EXCEPT !.outcome = tx[s].outcome]
  <2>1. tx[s] \in Transaction /\ tx[s].outcome \in Results /\ tx[s].inserted \in Results
        /\ tx[s].effects \in [Rows -> 0..1]
    BY DEF TypeOK, Transaction
  <2>2. /\ t \in Transaction
        /\ t.pc = "idle" /\ t.todo = {}
        /\ t.inserted = NoResults /\ t.effects = NoEffects
    BY <2>1, ClosedType, ClosedFields DEF Transaction
  <2>3. tx' = [tx EXCEPT ![s] = t] /\ UNCHANGED failures
    BY <1>8 DEF Commit
  <2> HIDE DEF t
  <2>4. result' \in Results
    BY <1>8, <2>1 DEF Commit, Results, TypeOK
  <2>5. effects' \in [Rows -> Nat]
    BY <1>8, <2>1 DEF Commit, TypeOK
  <2>6. TypeOK'
    BY <2>2, <2>3, <2>4, <2>5 DEF TypeOK
  <2>7. ComputedRow' /\ RowsToCome' /\ ClosedEmpty'
    BY <2>2, <2>3 DEF TypeOK, ComputedRow, RowsToCome, ClosedEmpty, NoResults, NoEffects
  <2>8. InsertedAlone'
    <3>1. \A q \in Rows : result'[q] = IF tx[s].inserted[q] # None THEN tx[s].inserted[q]
                                       ELSE result[q]
      BY <1>8 DEF Commit
    <3>2. QED
      BY <2>2, <2>3, <3>1 DEF TypeOK, InsertedAlone, NoResults
  <2>9. QED
    BY <2>6, <2>7, <2>8
<1>9. ASSUME NEW s \in Sessions, Fail(s) PROVE TypeInv'
  <2>1. failures' \in 0..MaxFailures
    BY <1>9, BoundAssumption DEF Fail, TypeOK
  <2>2. QED
    BY <1>2, <1>9, <2>1 DEF Fail
<1>10. CASE UNCHANGED vars
  BY <1>10 DEF vars, TypeOK, ComputedRow, RowsToCome, ClosedEmpty, InsertedAlone
<1>11. QED
  BY <1>1, <1>4, <1>5, <1>6, <1>7, <1>8, <1>9, <1>10 DEF Next, Proceed

\* A transaction computes a row at most once, whatever the caller.
THEOREM TypeCorrect == Spec => []TypeOK
<1>1. TypeInv => TypeOK
  BY DEF TypeInv
<1>2. QED
  BY TypeInit, TypeStep, <1>1, PTL DEF Spec

-----------------------------------------------------------------------------
(* What callers are told *)

LEMMA OutcomeStep == TypeInv /\ OutcomesAgree /\ [Next]_vars => OutcomesAgree'
<1> SUFFICES ASSUME TypeInv, OutcomesAgree, [Next]_vars PROVE OutcomesAgree'
  OBVIOUS
<1> USE DEF TypeInv
<1>1. ASSUME NEW s \in Sessions, NEW t \in Transaction, UNCHANGED result,
             tx' = [tx EXCEPT ![s] = t],
             \A r \in Rows : t.outcome[r] # None =>
                t.outcome[r] = IF t.inserted[r] # None THEN t.inserted[r] ELSE result[r]
      PROVE  OutcomesAgree'
  BY <1>1 DEF OutcomesAgree, TypeOK
<1>2. ASSUME NEW s \in Sessions, tx' = [tx EXCEPT ![s] = Closed], UNCHANGED result
      PROVE  OutcomesAgree'
  BY <1>1, <1>2, ClosedType, ClosedFields DEF NoResults
<1>3. ASSUME NEW s \in Sessions, NEW r \in tx[s].todo, NEW v \in Verdicts \union {None},
             tx' = [tx EXCEPT ![s] = Return(s, r, v)], v = result[r], UNCHANGED result
      PROVE  OutcomesAgree'
  <2>1. tx[s] \in Transaction /\ r \in Rows /\ tx[s].outcome \in Results
        /\ tx[s].inserted[r] = None
    BY DEF TypeOK, Transaction, RowsToCome
  <2> DEFINE t == Return(s, r, v)
  <2>2. t \in Transaction /\ t.inserted = tx[s].inserted
        /\ t.outcome = [tx[s].outcome EXCEPT ![r] = v]
    BY <2>1, ReturnType, ReturnFields
  <2>3. tx' = [tx EXCEPT ![s] = t]
    BY <1>3
  <2> HIDE DEF t
  <2>4. \A q \in Rows : t.outcome[q] # None =>
            t.outcome[q] = IF t.inserted[q] # None THEN t.inserted[q] ELSE result[q]
    BY <1>3, <2>1, <2>2 DEF OutcomesAgree, Results
  <2>5. QED
    BY <1>1, <1>3, <2>2, <2>3, <2>4
<1>4. ASSUME NEW s \in Sessions, Begin(s) PROVE OutcomesAgree'
  <2> DEFINE t == [Closed EXCEPT !.pc = "open", !.todo = Rows]
  <2>1. t \in Transaction /\ t.inserted = NoResults /\ t.outcome = NoResults
    BY ClosedType, ClosedFields DEF Transaction
  <2>2. tx' = [tx EXCEPT ![s] = t] /\ UNCHANGED result
    BY <1>4 DEF Begin
  <2> HIDE DEF t
  <2>3. QED
    BY <1>1, <2>1, <2>2 DEF NoResults
<1>5. ASSUME NEW s \in Sessions, NEW r \in Rows, SkipRow(s, r) PROVE OutcomesAgree'
  <2>1. r \in tx[s].todo /\ result[r] \in Verdicts \union {None} /\ UNCHANGED result
    BY <1>5 DEF SkipRow, NextRow, TypeOK, Results
  <2>2. CASE Strict
    BY <1>2, <1>5, <2>1, <2>2 DEF SkipRow
  <2>3. CASE ~Strict
    BY <1>3, <1>5, <2>1, <2>3 DEF SkipRow
  <2>4. QED
    BY <2>2, <2>3
<1>6. ASSUME NEW s \in Sessions, NEW r \in Rows, ComputeRow(s, r) PROVE OutcomesAgree'
  <2>1. PICK v \in Verdicts : tx' = [tx EXCEPT ![s] = Computed(s, r, v)]
    BY <1>6 DEF ComputeRow
  <2> DEFINE t == Computed(s, r, v)
  <2>2. t.inserted = tx[s].inserted /\ t.outcome = tx[s].outcome
    BY DEF Computed, TypeOK, Transaction
  <2>3. tx' = [tx EXCEPT ![s] = t] /\ UNCHANGED result
    BY <1>6, <2>1 DEF ComputeRow
  <2> HIDE DEF t
  <2>4. QED
    BY <2>2, <2>3 DEF OutcomesAgree, TypeOK
<1>7. ASSUME NEW s \in Sessions, ConflictRow(s) PROVE OutcomesAgree'
  <2>1. tx[s].row \in tx[s].todo /\ tx[s].row \in Rows /\ UNCHANGED result
    BY <1>7 DEF ConflictRow, ComputedRow, TypeOK, Transaction
  <2>2. result[tx[s].row] \in Verdicts \union {None}
    BY <2>1 DEF TypeOK, Results
  <2>3. CASE Strict
    BY <1>2, <1>7, <2>1, <2>3 DEF ConflictRow, NotCreated
  <2>4. CASE ~Strict
    BY <1>3, <1>7, <2>1, <2>2, <2>4 DEF ConflictRow, NotCreated, ExistingVerdict
  <2>5. QED
    BY <2>3, <2>4
<1>8. ASSUME NEW s \in Sessions, InsertRow(s) PROVE OutcomesAgree'
  <2> DEFINE r == tx[s].row
             v == tx[s].verdict
             t == [Return(s, r, v) EXCEPT !.inserted = [tx[s].inserted EXCEPT ![r] = v]]
  <2>1. r \in Rows /\ v \in Verdicts /\ v # None /\ tx[s] \in Transaction
    BY <1>8, VerdictsAssumption DEF InsertRow, ComputedRow, TypeOK, Transaction
  <2>2. tx[s].inserted \in Results /\ tx[s].outcome \in Results
    BY <2>1 DEF Transaction
  <2>3. tx' = [tx EXCEPT ![s] = t] /\ UNCHANGED result
    BY <1>8 DEF InsertRow
  <2> HIDE DEF r, v
  <2>4. Return(s, r, v) \in Transaction
        /\ Return(s, r, v).outcome = [tx[s].outcome EXCEPT ![r] = v]
    BY <2>1, ReturnType, ReturnFields
  <2>5. t.inserted = [tx[s].inserted EXCEPT ![r] = v]
        /\ t.outcome = [tx[s].outcome EXCEPT ![r] = v]
    BY <2>4 DEF Transaction
  <2> HIDE DEF t
  <2>6. \A q \in Rows : t.outcome[q] # None =>
            t.outcome[q] = IF t.inserted[q] # None THEN t.inserted[q] ELSE result[q]
    BY <2>1, <2>2, <2>5 DEF OutcomesAgree, Results
  <2>7. QED
    BY <2>3, <2>6 DEF OutcomesAgree, TypeOK
<1>9. ASSUME NEW s \in Sessions, Commit(s) PROVE OutcomesAgree'
  <2> DEFINE t == [Closed EXCEPT !.outcome = tx[s].outcome]
  <2>1. t.outcome = tx[s].outcome /\ t.inserted = NoResults
    BY ClosedType, ClosedFields DEF Transaction
  <2>2. tx' = [tx EXCEPT ![s] = t]
    BY <1>9 DEF Commit
  <2>3. \A q \in Rows : result'[q] = IF tx[s].inserted[q] # None THEN tx[s].inserted[q]
                                     ELSE result[q]
    BY <1>9 DEF Commit
  <2> HIDE DEF t
  <2>4. ASSUME NEW u \in Sessions, NEW q \in Rows, tx'[u].outcome[q] # None
        PROVE  tx'[u].outcome[q] = IF tx'[u].inserted[q] # None THEN tx'[u].inserted[q]
                                   ELSE result'[q]
    <3>1. CASE u = s
      BY <2>1, <2>2, <2>3, <2>4, <3>1 DEF OutcomesAgree, TypeOK, NoResults
    <3>2. CASE u # s
      <4>1. tx'[u] = tx[u]
        BY <2>2, <3>2 DEF TypeOK
      <4>2. tx[u].inserted[q] = None => result'[q] = result[q]
        BY <2>3, <2>4, <4>1 DEF InsertedAlone, OutcomesAgree
      <4>3. QED
        BY <2>4, <4>1, <4>2 DEF OutcomesAgree
    <3>3. QED
      BY <3>1, <3>2
  <2>5. QED
    BY <2>4 DEF OutcomesAgree
<1>10. ASSUME NEW s \in Sessions, Fail(s) PROVE OutcomesAgree'
  BY <1>2, <1>10 DEF Fail
<1>11. CASE UNCHANGED vars
  BY <1>11 DEF vars, OutcomesAgree
<1>12. QED
  BY <1>4, <1>5, <1>6, <1>7, <1>8, <1>9, <1>10, <1>11 DEF Next, Proceed

\* A caller of process_row_once is never told a verdict other than the one it
\* has inserted or the one row_result holds, with or without a lock.
THEOREM OutcomesTrue == Spec => []OutcomesAgree
<1>1. Init => OutcomesAgree
  BY ClosedFields DEF Init, OutcomesAgree, NoResults
<1>2. QED
  BY TypeInit, TypeStep, OutcomeStep, <1>1, PTL DEF Spec

-----------------------------------------------------------------------------
(* Effects: for callers that hold the lock or raise on a conflict *)

\* The effects in a transaction are those of the rows it has inserted and of
\* the row it has just computed.
OwnEffects ==
    \A s \in Sessions, r \in Rows :
        tx[s].effects[r] =
            IF tx[s].inserted[r] # None \/ (tx[s].pc = "computed" /\ tx[s].row = r)
            THEN 1 ELSE 0

\* The lock: one transaction, and no result comes between its look and insert.
LockAlone ==
    Locked =>
        /\ \A s, t \in Sessions : s # t => tx[s].pc = "idle" \/ tx[t].pc = "idle"
        /\ \A s \in Sessions : tx[s].pc = "computed" => result[tx[s].row] = None

EffectInv == OwnEffects /\ LockAlone /\ EffectsOnce

LEMMA EffectInit == Init => EffectInv
  BY ClosedFields
  DEF Init, EffectInv, OwnEffects, LockAlone, EffectsOnce, NoResults, NoEffects

LEMMA OwnEffectsStep ==
    ASSUME Locked \/ Strict, TypeInv, EffectInv, [Next]_vars
    PROVE  OwnEffects'
<1> USE DEF TypeInv, EffectInv
<1>1. ASSUME NEW s \in Sessions, NEW t, tx' = [tx EXCEPT ![s] = t],
             \A r \in Rows : t.effects[r] =
                IF t.inserted[r] # None \/ (t.pc = "computed" /\ t.row = r) THEN 1 ELSE 0
      PROVE  OwnEffects'
  BY <1>1 DEF OwnEffects, TypeOK
<1>2. ASSUME NEW s \in Sessions, tx' = [tx EXCEPT ![s] = Closed]
      PROVE  OwnEffects'
  BY <1>1, <1>2, ClosedFields DEF NoResults, NoEffects
<1>3. ASSUME NEW s \in Sessions, NEW r \in Rows, NEW v \in Verdicts \union {None},
             tx[s].pc = "open", tx' = [tx EXCEPT ![s] = Return(s, r, v)]
      PROVE  OwnEffects'
  <2> DEFINE t == Return(s, r, v)
  <2>0. tx[s] \in Transaction
    BY DEF TypeOK
  <2>1. t.pc = "open" /\ t.inserted = tx[s].inserted /\ t.effects = tx[s].effects
    BY <2>0, ReturnKeeps
  <2>2. tx' = [tx EXCEPT ![s] = t]
    BY <1>3
  <2> HIDE DEF t
  <2>3. QED
    BY <1>1, <1>3, <2>1, <2>2 DEF OwnEffects
<1>4. ASSUME NEW s \in Sessions, Begin(s) PROVE OwnEffects'
  <2> DEFINE t == [Closed EXCEPT !.pc = "open", !.todo = Rows]
  <2>1. t.pc = "open" /\ t.inserted = NoResults /\ t.effects = NoEffects
    BY ClosedType, ClosedFields DEF Transaction
  <2>2. tx' = [tx EXCEPT ![s] = t]
    BY <1>4 DEF Begin
  <2> HIDE DEF t
  <2>3. QED
    BY <1>1, <2>1, <2>2 DEF NoResults, NoEffects
<1>5. ASSUME NEW s \in Sessions, NEW r \in Rows, SkipRow(s, r) PROVE OwnEffects'
  <2>1. tx[s].pc = "open" /\ result[r] \in Verdicts \union {None}
    BY <1>5 DEF SkipRow, TypeOK, Results
  <2>2. CASE Strict
    BY <1>2, <1>5, <2>2 DEF SkipRow
  <2>3. CASE ~Strict
    BY <1>3, <1>5, <2>1, <2>3 DEF SkipRow
  <2>4. QED
    BY <2>2, <2>3
<1>6. ASSUME NEW s \in Sessions, NEW r \in Rows, ComputeRow(s, r) PROVE OwnEffects'
  <2>1. PICK v \in Verdicts : tx' = [tx EXCEPT ![s] = Computed(s, r, v)]
    BY <1>6 DEF ComputeRow
  <2> DEFINE t == Computed(s, r, v)
  <2>2. tx[s].pc = "open" /\ r \in tx[s].todo /\ tx[s] \in Transaction
    BY <1>6 DEF ComputeRow, NextRow, TypeOK
  <2>3. tx[s].effects[r] = 0 /\ tx[s].effects \in [Rows -> 0..1]
    BY <2>2 DEF RowsToCome, Transaction
  <2>4. /\ t.pc = "computed" /\ t.row = r /\ t.inserted = tx[s].inserted
        /\ t.effects = [tx[s].effects EXCEPT ![r] = tx[s].effects[r] + 1]
    BY <2>2 DEF Computed, Transaction
  <2>5. tx' = [tx EXCEPT ![s] = t]
    BY <2>1
  <2> HIDE DEF t
  <2>6. \A q \in Rows : t.effects[q] = IF q = r THEN 1 ELSE tx[s].effects[q]
    BY <2>3, <2>4
  <2>7. \A q \in Rows : t.effects[q] =
            IF t.inserted[q] # None \/ (t.pc = "computed" /\ t.row = q) THEN 1 ELSE 0
    BY <2>2, <2>4, <2>6 DEF OwnEffects
  <2>8. QED
    BY <1>1, <2>5, <2>7
<1>7. ASSUME NEW s \in Sessions, InsertRow(s) PROVE OwnEffects'
  <2> DEFINE r == tx[s].row
             v == tx[s].verdict
             t == [Return(s, r, v) EXCEPT !.inserted = [tx[s].inserted EXCEPT ![r] = v]]
  <2>1. r \in Rows /\ v \in Verdicts /\ v # None /\ tx[s] \in Transaction
        /\ tx[s].pc = "computed" /\ tx[s].inserted \in Results
    BY <1>7, VerdictsAssumption DEF InsertRow, ComputedRow, TypeOK, Transaction
  <2>2. tx' = [tx EXCEPT ![s] = t]
    BY <1>7 DEF InsertRow
  <2>3. \A q \in Rows : tx[s].effects[q] =
            IF tx[s].inserted[q] # None \/ r = q THEN 1 ELSE 0
    BY <2>1 DEF OwnEffects
  <2> HIDE DEF r, v
  <2>4. /\ Return(s, r, v) \in Transaction
        /\ Return(s, r, v).pc = "open"
        /\ Return(s, r, v).effects = tx[s].effects
    <3>1. v \in Verdicts \union {None}
      BY <2>1
    <3>2. Return(s, r, v) \in Transaction
      BY <2>1, <3>1, ReturnType
    <3>3. Return(s, r, v).pc = "open" /\ Return(s, r, v).effects = tx[s].effects
      BY <2>1, <3>1, ReturnKeeps
    <3>4. QED
      BY <3>2, <3>3
  <2>5. t.inserted = [tx[s].inserted EXCEPT ![r] = v]
        /\ t.pc = "open" /\ t.effects = tx[s].effects
    BY <2>4 DEF Transaction
  <2> HIDE DEF t
  <2>6. \A q \in Rows : t.effects[q] =
            IF t.inserted[q] # None \/ (t.pc = "computed" /\ t.row = q) THEN 1 ELSE 0
    BY <2>1, <2>3, <2>5 DEF Results
  <2>7. QED
    BY <1>1, <2>2, <2>6
<1>8. ASSUME NEW s \in Sessions, ConflictRow(s) PROVE OwnEffects'
  <2>1. Strict
    BY <1>8 DEF ConflictRow, LockAlone
  <2>2. QED
    BY <1>2, <1>8, <2>1 DEF ConflictRow, NotCreated
<1>9. ASSUME NEW s \in Sessions, Commit(s) PROVE OwnEffects'
  <2> DEFINE t == [Closed EXCEPT !.outcome = tx[s].outcome]
  <2>1. t.pc = "idle" /\ t.inserted = NoResults /\ t.effects = NoEffects
    BY ClosedType, ClosedFields DEF Transaction
  <2>2. tx' = [tx EXCEPT ![s] = t]
    BY <1>9 DEF Commit
  <2> HIDE DEF t
  <2>3. QED
    BY <1>1, <2>1, <2>2 DEF NoResults, NoEffects
<1>10. ASSUME NEW s \in Sessions, Fail(s) PROVE OwnEffects'
  BY <1>2, <1>10 DEF Fail
<1>11. CASE UNCHANGED vars
  BY <1>11 DEF vars, OwnEffects
<1>12. QED
  BY <1>4, <1>5, <1>6, <1>7, <1>8, <1>9, <1>10, <1>11 DEF Next, Proceed

LEMMA LockAloneStep ==
    ASSUME TypeInv, EffectInv, [Next]_vars
    PROVE  LockAlone'
<1> USE DEF TypeInv, EffectInv
\* The session that moves holds the lock; the others are idle and stay so.
<1>1. ASSUME NEW s \in Sessions, NEW t, tx' = [tx EXCEPT ![s] = t],
             Locked => \A u \in Sessions \ {s} : tx[u].pc = "idle",
             Locked /\ t.pc = "computed" => result'[t.row] = None
      PROVE  LockAlone'
  BY <1>1 DEF TypeOK, LockAlone
<1>2. ASSUME NEW s \in Sessions, tx[s].pc # "idle"
      PROVE  Locked => \A u \in Sessions \ {s} : tx[u].pc = "idle"
  BY <1>2 DEF LockAlone
<1>3. ASSUME NEW s \in Sessions, NEW t, tx' = [tx EXCEPT ![s] = t],
             tx[s].pc # "idle" \/ Lockable(s), t.pc # "computed"
      PROVE  LockAlone'
  BY <1>1, <1>2, <1>3 DEF Lockable
<1>4. ASSUME NEW s \in Sessions, NEW r \in Rows, NEW v \in Verdicts \union {None},
             tx[s].pc # "idle", tx' = [tx EXCEPT ![s] = Return(s, r, v)]
      PROVE  LockAlone'
  <2>1. tx[s] \in Transaction
    BY DEF TypeOK
  <2>2. Return(s, r, v).pc = "open"
    BY <2>1, ReturnKeeps
  <2>3. QED
    BY <1>3, <1>4, <2>2
<1>5. ASSUME NEW s \in Sessions, tx[s].pc # "idle", tx' = [tx EXCEPT ![s] = Closed]
      PROVE  LockAlone'
  BY <1>3, <1>5, ClosedFields
<1>6. ASSUME NEW s \in Sessions, Begin(s) PROVE LockAlone'
  <2> DEFINE t == [Closed EXCEPT !.pc = "open", !.todo = Rows]
  <2>1. t.pc = "open"
    BY ClosedType DEF Transaction
  <2>2. tx' = [tx EXCEPT ![s] = t] /\ Lockable(s)
    BY <1>6 DEF Begin
  <2> HIDE DEF t
  <2>3. QED
    BY <1>3, <2>1, <2>2
<1>7. ASSUME NEW s \in Sessions, NEW r \in Rows, SkipRow(s, r) PROVE LockAlone'
  <2>1. tx[s].pc # "idle" /\ result[r] \in Verdicts \union {None}
    BY <1>7 DEF SkipRow, TypeOK, Results
  <2>2. CASE Strict
    BY <1>5, <1>7, <2>1, <2>2 DEF SkipRow
  <2>3. CASE ~Strict
    BY <1>4, <1>7, <2>1, <2>3 DEF SkipRow
  <2>4. QED
    BY <2>2, <2>3
<1>8. ASSUME NEW s \in Sessions, NEW r \in Rows, ComputeRow(s, r) PROVE LockAlone'
  <2>1. PICK v \in Verdicts : tx' = [tx EXCEPT ![s] = Computed(s, r, v)]
    BY <1>8 DEF ComputeRow
  <2> DEFINE t == Computed(s, r, v)
  <2>2. tx[s].pc # "idle" /\ result'[r] = None
    BY <1>8 DEF ComputeRow, Unsettled
  <2>3. t.row = r
    BY DEF Computed, TypeOK, Transaction
  <2>4. tx' = [tx EXCEPT ![s] = t]
    BY <2>1
  <2> HIDE DEF t
  <2>5. QED
    BY <1>1, <1>2, <2>2, <2>3, <2>4
<1>9. ASSUME NEW s \in Sessions, ConflictRow(s) PROVE LockAlone'
  <2>1. ~Locked /\ UNCHANGED result
    BY <1>9 DEF ConflictRow, LockAlone
  <2>2. QED
    BY <2>1 DEF LockAlone
<1>10. ASSUME NEW s \in Sessions, InsertRow(s) PROVE LockAlone'
  <2> DEFINE r == tx[s].row
             v == tx[s].verdict
             t == [Return(s, r, v) EXCEPT !.inserted = [tx[s].inserted EXCEPT ![r] = v]]
  <2>1. r \in Rows /\ v \in Verdicts \union {None} /\ tx[s] \in Transaction
        /\ tx[s].pc # "idle"
    BY <1>10 DEF InsertRow, ComputedRow, TypeOK, Transaction
  <2>2. tx' = [tx EXCEPT ![s] = t]
    BY <1>10 DEF InsertRow
  <2> HIDE DEF r, v
  <2>3. Return(s, r, v) \in Transaction
    BY <2>1, ReturnType
  <2>4. Return(s, r, v).pc = "open"
    BY <2>1, ReturnKeeps
  <2>5. t.pc = "open"
    BY <2>3, <2>4 DEF Transaction
  <2> HIDE DEF t
  <2>6. QED
    BY <1>3, <2>1, <2>2, <2>5
<1>11. ASSUME NEW s \in Sessions, Commit(s) PROVE LockAlone'
  <2> DEFINE t == [Closed EXCEPT !.outcome = tx[s].outcome]
  <2>1. t.pc = "idle"
    BY ClosedType, ClosedFields DEF Transaction
  <2>2. tx' = [tx EXCEPT ![s] = t] /\ tx[s].pc # "idle"
    BY <1>11 DEF Commit
  <2> HIDE DEF t
  <2>3. QED
    BY <1>3, <2>1, <2>2
<1>12. ASSUME NEW s \in Sessions, Fail(s) PROVE LockAlone'
  BY <1>5, <1>12 DEF Fail
<1>13. CASE UNCHANGED vars
  BY <1>13 DEF vars, LockAlone
<1>14. QED
  BY <1>6, <1>7, <1>8, <1>9, <1>10, <1>11, <1>12, <1>13 DEF Next, Proceed

\* Only Commit writes results and effects, and it settles the rows inserted.
LEMMA OnlyCommits ==
    ASSUME [Next]_vars
    PROVE  UNCHANGED <<result, effects>> \/ \E s \in Sessions : Commit(s)
  BY DEF Next, Proceed, vars, Begin, SkipRow, ComputeRow, InsertRow, ConflictRow, Fail

LEMMA CommitSettles ==
    ASSUME TypeInv, EffectInv, NEW s \in Sessions, Commit(s)
    PROVE  \A r \in Rows :
            /\ result'[r] = IF tx[s].inserted[r] # None THEN tx[s].inserted[r] ELSE result[r]
            /\ effects'[r] = IF tx[s].inserted[r] # None THEN effects[r] + 1 ELSE effects[r]
            /\ tx[s].inserted[r] # None => result[r] = None
<1>1. tx[s].pc = "open" /\ effects \in [Rows -> Nat]
  BY DEF Commit, TypeInv, TypeOK
<1>2. \A r \in Rows : tx[s].effects[r] = IF tx[s].inserted[r] # None THEN 1 ELSE 0
  BY <1>1 DEF EffectInv, OwnEffects
<1>3. \A r \in Rows :
        /\ result'[r] = IF tx[s].inserted[r] # None THEN tx[s].inserted[r] ELSE result[r]
        /\ effects'[r] = effects[r] + tx[s].effects[r]
  BY DEF Commit
<1>4. QED
  BY <1>1, <1>2, <1>3 DEF TypeInv, InsertedAlone

LEMMA EffectStep ==
    ASSUME Locked \/ Strict
    PROVE  TypeInv /\ EffectInv /\ [Next]_vars => EffectInv'
<1> SUFFICES ASSUME TypeInv, EffectInv, [Next]_vars PROVE EffectInv'
  OBVIOUS
<1>1. OwnEffects' /\ LockAlone'
  BY OwnEffectsStep, LockAloneStep
<1>2. EffectsOnce'
  <2>1. CASE UNCHANGED <<result, effects>>
    BY <2>1 DEF EffectInv, EffectsOnce
  <2>2. ASSUME NEW s \in Sessions, Commit(s) PROVE EffectsOnce'
    <3>1. \A r \in Rows : tx[s].inserted[r] # None => effects[r] = 0
      BY <2>2, CommitSettles DEF EffectInv, EffectsOnce
    <3>2. QED
      BY <2>2, <3>1, CommitSettles DEF EffectInv, EffectsOnce
  <2>3. QED
    BY <2>1, <2>2, OnlyCommits
<1>3. QED
  BY <1>1, <1>2 DEF EffectInv

\* For a caller that holds the tenant lock, or that rolls back when a row was
\* not created, the effects of a row are committed once, with its result.
THEOREM EffectsAtMostOnce ==
    ASSUME Locked \/ Strict
    PROVE  Spec => []EffectsOnce
<1>1. EffectInv => EffectsOnce
  BY DEF EffectInv
<1>2. TypeInv /\ EffectInv /\ [Next]_vars => EffectInv'
  BY EffectStep
<1>3. QED
  BY TypeInit, TypeStep, EffectInit, <1>1, <1>2, PTL DEF Spec

-----------------------------------------------------------------------------
(* Effects: for every caller *)

\* The rows that a transaction has inserted, and the one it has computed.
Own(t, r) == t.inserted[r] # None \/ (t.pc = "computed" /\ t.row = r)

\* A transaction has the effects of its own rows; any others are of rows that
\* another transaction has settled.
EffectsBacked ==
    \A s \in Sessions, r \in Rows :
        /\ Own(tx[s], r) => tx[s].effects[r] = 1
        /\ tx[s].effects[r] # 0 => Own(tx[s], r) \/ result[r] # None

BackedInv == EffectsBacked /\ EffectsWithResult

LEMMA BackedInit == Init => BackedInv
  BY ClosedFields
  DEF Init, BackedInv, EffectsBacked, Own, EffectsWithResult, NoResults, NoEffects

LEMMA BackedStep == TypeInv /\ BackedInv /\ [Next]_vars => BackedInv'
<1> SUFFICES ASSUME TypeInv, BackedInv, [Next]_vars PROVE BackedInv'
  OBVIOUS
<1> USE DEF TypeInv, BackedInv
\* A step that commits nothing changes one transaction.
<1>1. ASSUME NEW s \in Sessions, NEW t, tx' = [tx EXCEPT ![s] = t],
             UNCHANGED <<result, effects>>,
             \A r \in Rows : /\ Own(t, r) => t.effects[r] = 1
                             /\ t.effects[r] # 0 => Own(t, r) \/ result[r] # None
      PROVE  BackedInv'
  BY <1>1 DEF EffectsBacked, EffectsWithResult, TypeOK
<1>2. ASSUME NEW s \in Sessions, tx' = [tx EXCEPT ![s] = Closed],
             UNCHANGED <<result, effects>>
      PROVE  BackedInv'
  BY <1>1, <1>2, ClosedFields DEF Own, NoResults, NoEffects
\* The row that is returned was not computed, or has a result.
<1>3. ASSUME NEW s \in Sessions, NEW r \in Rows, NEW v \in Verdicts \union {None},
             tx' = [tx EXCEPT ![s] = Return(s, r, v)],
             tx[s].pc = "computed" => tx[s].row = r, result[r] # None,
             UNCHANGED <<result, effects>>
      PROVE  BackedInv'
  <2> DEFINE t == Return(s, r, v)
  <2>1. tx[s] \in Transaction
    BY DEF TypeOK
  <2>2. t.pc = "open" /\ t.inserted = tx[s].inserted /\ t.effects = tx[s].effects
    BY <2>1, ReturnKeeps
  <2>3. tx' = [tx EXCEPT ![s] = t]
    BY <1>3
  <2> HIDE DEF t
  <2>4. ASSUME NEW q \in Rows
        PROVE  /\ Own(t, q) => t.effects[q] = 1
               /\ t.effects[q] # 0 => Own(t, q) \/ result[q] # None
    BY <1>3, <2>2 DEF EffectsBacked, Own
  <2>5. QED
    BY <1>1, <1>3, <2>3, <2>4
<1>4. ASSUME NEW s \in Sessions, Begin(s) PROVE BackedInv'
  <2> DEFINE t == [Closed EXCEPT !.pc = "open", !.todo = Rows]
  <2>1. t.pc = "open" /\ t.inserted = NoResults /\ t.effects = NoEffects
    BY ClosedType, ClosedFields DEF Transaction
  <2>2. tx' = [tx EXCEPT ![s] = t] /\ UNCHANGED <<result, effects>>
    BY <1>4 DEF Begin
  <2> HIDE DEF t
  <2>3. QED
    BY <1>1, <2>1, <2>2 DEF Own, NoResults, NoEffects
<1>5. ASSUME NEW s \in Sessions, NEW r \in Rows, SkipRow(s, r) PROVE BackedInv'
  <2>1. tx[s].pc = "open" /\ result[r] \in Verdicts \union {None} /\ result[r] # None
    BY <1>5 DEF SkipRow, TypeOK, Results
  <2>2. CASE Strict
    BY <1>2, <1>5, <2>2 DEF SkipRow
  <2>3. CASE ~Strict
    BY <1>3, <1>5, <2>1, <2>3 DEF SkipRow
  <2>4. QED
    BY <2>2, <2>3
<1>6. ASSUME NEW s \in Sessions, NEW r \in Rows, ComputeRow(s, r) PROVE BackedInv'
  <2>1. PICK v \in Verdicts : tx' = [tx EXCEPT ![s] = Computed(s, r, v)]
    BY <1>6 DEF ComputeRow
  <2> DEFINE t == Computed(s, r, v)
  <2>2. tx[s].pc = "open" /\ r \in tx[s].todo /\ tx[s] \in Transaction
    BY <1>6 DEF ComputeRow, NextRow, TypeOK
  <2>3. tx[s].effects[r] = 0 /\ tx[s].inserted[r] = None /\ tx[s].effects \in [Rows -> 0..1]
    BY <2>2 DEF RowsToCome, Transaction
  <2>4. /\ t.pc = "computed" /\ t.row = r /\ t.inserted = tx[s].inserted
        /\ t.effects = [tx[s].effects EXCEPT ![r] = tx[s].effects[r] + 1]
    BY <2>2 DEF Computed, Transaction
  <2>5. tx' = [tx EXCEPT ![s] = t] /\ UNCHANGED <<result, effects>>
    BY <1>6, <2>1 DEF ComputeRow
  <2> HIDE DEF t
  <2>6. \A q \in Rows : t.effects[q] = IF q = r THEN 1 ELSE tx[s].effects[q]
    BY <2>3, <2>4
  <2>7. ASSUME NEW q \in Rows
        PROVE  /\ Own(t, q) => t.effects[q] = 1
               /\ t.effects[q] # 0 => Own(t, q) \/ result[q] # None
    BY <2>2, <2>4, <2>6 DEF EffectsBacked, Own
  <2>8. QED
    BY <1>1, <2>5, <2>7
<1>7. ASSUME NEW s \in Sessions, InsertRow(s) PROVE BackedInv'
  <2> DEFINE r == tx[s].row
             v == tx[s].verdict
             t == [Return(s, r, v) EXCEPT !.inserted = [tx[s].inserted EXCEPT ![r] = v]]
  <2>1. r \in Rows /\ v \in Verdicts /\ v # None /\ tx[s] \in Transaction
        /\ tx[s].pc = "computed" /\ tx[s].inserted \in Results
        /\ result[r] = None
    BY <1>7, VerdictsAssumption DEF InsertRow, ComputedRow, TypeOK, Transaction
  <2>2. tx' = [tx EXCEPT ![s] = t] /\ UNCHANGED <<result, effects>>
    BY <1>7 DEF InsertRow
  <2>3. tx[s].effects[r] = 1
    BY <2>1 DEF EffectsBacked, Own
  <2> HIDE DEF r, v
  <2>4. /\ Return(s, r, v) \in Transaction
        /\ Return(s, r, v).pc = "open"
        /\ Return(s, r, v).effects = tx[s].effects
    <3>1. v \in Verdicts \union {None}
      BY <2>1
    <3>2. Return(s, r, v) \in Transaction
      BY <2>1, <3>1, ReturnType
    <3>3. Return(s, r, v).pc = "open" /\ Return(s, r, v).effects = tx[s].effects
      BY <2>1, <3>1, ReturnKeeps
    <3>4. QED
      BY <3>2, <3>3
  <2>5. t.inserted = [tx[s].inserted EXCEPT ![r] = v]
        /\ t.pc = "open" /\ t.effects = tx[s].effects
    BY <2>4 DEF Transaction
  <2> HIDE DEF t
  <2>6. \A q \in Rows : t.inserted[q] # None <=> tx[s].inserted[q] # None \/ q = r
    BY <2>1, <2>5 DEF Results
  <2>7. \A q \in Rows : Own(tx[s], q) <=> Own(t, q)
    BY <2>1, <2>5, <2>6 DEF Own, r
  <2>8. \A q \in Rows : /\ Own(t, q) => t.effects[q] = 1
                        /\ t.effects[q] # 0 => Own(t, q) \/ result[q] # None
    BY <2>5, <2>7 DEF EffectsBacked
  <2>9. QED
    BY <1>1, <2>2, <2>8
<1>8. ASSUME NEW s \in Sessions, ConflictRow(s) PROVE BackedInv'
  <2>1. tx[s].pc = "computed" /\ tx[s].row \in Rows /\ result[tx[s].row] # None
    BY <1>8 DEF ConflictRow, ComputedRow, TypeOK, Transaction
  <2>2. result[tx[s].row] \in Verdicts \union {None}
    BY <2>1 DEF TypeOK, Results
  <2>3. CASE Strict
    BY <1>2, <1>8, <2>3 DEF ConflictRow, NotCreated
  <2>4. CASE ~Strict
    BY <1>3, <1>8, <2>1, <2>2, <2>4 DEF ConflictRow, NotCreated, ExistingVerdict
  <2>5. QED
    BY <2>3, <2>4
<1>9. ASSUME NEW s \in Sessions, Commit(s) PROVE BackedInv'
  <2> DEFINE t == [Closed EXCEPT !.outcome = tx[s].outcome]
  <2>1. t.pc = "idle" /\ t.inserted = NoResults /\ t.effects = NoEffects
    BY ClosedType, ClosedFields DEF Transaction
  <2>2. tx' = [tx EXCEPT ![s] = t]
    BY <1>9 DEF Commit
  <2>3. \A q \in Rows :
          /\ result'[q] = IF tx[s].inserted[q] # None THEN tx[s].inserted[q] ELSE result[q]
          /\ effects'[q] = effects[q] + tx[s].effects[q]
    BY <1>9 DEF Commit
  <2>4. tx[s].pc = "open" /\ tx[s].effects \in [Rows -> 0..1] /\ effects \in [Rows -> Nat]
    BY <1>9 DEF Commit, TypeOK, Transaction
  <2> HIDE DEF t
  <2>5. EffectsBacked'
    BY <2>1, <2>2, <2>3 DEF EffectsBacked, Own, TypeOK, NoResults, NoEffects
  <2>6. ASSUME NEW q \in Rows PROVE (effects'[q] = 0) = (result'[q] = None)
    <3>1. tx[s].effects[q] \in 0..1 /\ effects[q] \in Nat
      BY <2>4
    <3>2. CASE tx[s].inserted[q] # None
      <4>1. tx[s].effects[q] = 1
        BY <3>2 DEF EffectsBacked, Own
      <4>2. effects'[q] # 0 /\ result'[q] # None
        BY <2>3, <3>1, <3>2, <4>1
      <4>3. QED
        BY <4>2
    <3>3. CASE tx[s].inserted[q] = None
      <4>1. result'[q] = result[q]
        BY <2>3, <3>3
      <4>2. tx[s].effects[q] # 0 => result[q] # None
        BY <2>4, <3>3 DEF EffectsBacked, Own
      <4>3. (effects[q] = 0) = (result[q] = None)
        BY DEF EffectsWithResult
      <4>4. effects'[q] = 0 <=> effects[q] = 0
        BY <2>3, <3>1, <4>2, <4>3
      <4>5. QED
        BY <4>1, <4>3, <4>4
    <3>4. QED
      BY <3>2, <3>3
  <2>7. QED
    BY <2>5, <2>6 DEF EffectsWithResult
<1>10. ASSUME NEW s \in Sessions, Fail(s) PROVE BackedInv'
  BY <1>2, <1>10 DEF Fail
<1>11. CASE UNCHANGED vars
  BY <1>11 DEF vars, EffectsBacked, EffectsWithResult
<1>12. QED
  BY <1>4, <1>5, <1>6, <1>7, <1>8, <1>9, <1>10, <1>11 DEF Next, Proceed

\* With or without a lock, and whatever the caller does on a conflict, results
\* and effects are committed together: a result is never without the effects of
\* its computation, nor are effects left of a row that no result settles.
THEOREM EffectsTogether == Spec => []EffectsWithResult
<1>1. BackedInv => EffectsWithResult
  BY DEF BackedInv
<1>2. QED
  BY TypeInit, TypeStep, BackedInit, BackedStep, <1>1, PTL DEF Spec

-----------------------------------------------------------------------------
(* Refinement *)

LEMMA CommitRefines ==
    ASSUME TypeInv, EffectInv, NEW s \in Sessions, Commit(s)
    PROVE  [Once!Next]_<<result, effects>>
<1> DEFINE S == {r \in Rows : tx[s].inserted[r] # None}
           v == [r \in S |-> tx[s].inserted[r]]
<1>1. /\ result \in Results /\ result' = [r \in Rows |-> result'[r]]
      /\ effects \in [Rows -> Nat] /\ effects' = [r \in Rows |-> effects'[r]]
  BY DEF Commit, TypeInv, TypeOK
<1>2. tx[s].inserted \in Results
  BY DEF TypeInv, TypeOK, Transaction
<1>3. CASE S = {}
  <2>1. \A r \in Rows : result'[r] = result[r] /\ effects'[r] = effects[r]
    BY <1>3, CommitSettles
  <2>2. result' = result /\ effects' = effects
    BY <1>1, <2>1 DEF Results
  <2>3. QED
    BY <2>2
<1>4. CASE S # {}
  <2>1. v \in [S -> Verdicts]
    BY <1>2 DEF Results
  <2>2. \A r \in S : result[r] = None
    BY CommitSettles
  <2>3. result' = [r \in Rows |-> IF r \in S THEN v[r] ELSE result[r]]
    <3>1. \A r \in Rows : result'[r] = IF r \in S THEN v[r] ELSE result[r]
      BY CommitSettles
    <3>2. QED
      BY <1>1, <3>1
  <2>4. effects' = [r \in Rows |-> IF r \in S THEN effects[r] + 1 ELSE effects[r]]
    <3>1. \A r \in Rows : effects'[r] = IF r \in S THEN effects[r] + 1 ELSE effects[r]
      BY CommitSettles
    <3>2. QED
      BY <1>1, <3>1
  <2>5. S \in SUBSET Rows
    OBVIOUS
  <2> HIDE DEF S, v
  <2>6. Once!Settle(S)
    BY <1>4, <2>1, <2>2, <2>3, <2>4 DEF Once!Settle
  <2>7. QED
    BY <2>5, <2>6 DEF Once!Next
<1>5. QED
  BY <1>3, <1>4

\* However a batch is processed, interrupted and processed again by such
\* callers, in any interleaving, its rows are settled as RowOnce says.
THEOREM Refinement ==
    ASSUME Locked \/ Strict
    PROVE  Spec => ImplementsRowOnce
<1>1. Init => Once!Init
  BY DEF Init, Once!Init, NoResults, NoEffects
<1>2. TypeInv /\ EffectInv /\ [Next]_vars => [Once!Next]_<<result, effects>>
  BY OnlyCommits, CommitRefines
<1>3. TypeInv /\ EffectInv /\ [Next]_vars => EffectInv'
  BY EffectStep
<1>4. QED
  BY TypeInit, TypeStep, EffectInit, <1>1, <1>2, <1>3, PTL
  DEF Spec, ImplementsRowOnce, Once!Spec
=============================================================================
