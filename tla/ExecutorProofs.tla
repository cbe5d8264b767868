--------------------------- MODULE ExecutorProofs ---------------------------
(***************************************************************************)
(* Proofs about Executor, for every length of a batch.                     *)
(***************************************************************************)
EXTENDS Executor, TLAPS

(***************************************************************************)
(* What the properties rest on                                             *)
(***************************************************************************)
\* While the executor runs, it has a statement to run and no error so far.
Running == pc = "run" => pos \in Statements /\ failed = {}

\* A transaction holds changes only while it is open, and only those of
\* statements before the next one.
Transaction ==
  /\ \A i \in pending : i < pos
  /\ ~inTxn => pending = {}
  /\ pc \in {"undo", "done"} => ~inTxn
  /\ mode = "ephemeral" \/ Single => ~inTxn

\* The inductive invariant of this module.
ExecInv == TypeOK /\ Running /\ Transaction

\* The positions of the statements are an initial segment of the positive numbers.
LEMMA StatementFacts ==
  ASSUME TypeOK
  PROVE  /\ Statements \subseteq 1..MaxStatements
         /\ \A i \in Statements : i + 1 \in 1..MaxStatements + 1
         /\ Single => 2 \in 1..MaxStatements + 1
<1>1. PICK n \in Position : batch \in [1..n -> Kind]
  BY DEF TypeOK, Batches
<1>2. Statements = 1..n
  BY <1>1 DEF Statements
<1> QED
  BY <1>1, <1>2, BoundsAssumption DEF Position, Single

\* A request starts at its first statement, outside a transaction.
LEMMA InitExec == Init => ExecInv
<1> SUFFICES ASSUME Init PROVE ExecInv
  OBVIOUS
<1>1. mode \in Modes
  BY ModeAssumption DEF Init
<1>2. PICK n \in Position : batch \in [1..n -> Kind]
  BY DEF Init, Batches
<1>3. 1 \in Statements
  BY <1>2 DEF Statements, Position
<1>4. 1 \in 1..MaxStatements + 1
  BY BoundsAssumption
<1>5. TypeOK
  BY <1>1, <1>4 DEF Init, TypeOK
<1>6. Running /\ Transaction
  BY <1>3 DEF Init, Running, Transaction
<1> QED
  BY <1>5, <1>6 DEF ExecInv

\* Every step of execute() keeps the types.
LEMMA TypeStep ==
  ASSUME ExecInv, [Next]_vars
  PROVE  TypeOK'
<1>0. ExecInv /\ Statements \subseteq 1..MaxStatements /\ (\A i \in Statements : i + 1 \in 1..MaxStatements + 1) /\ (Single => 2 \in 1..MaxStatements + 1)
  BY StatementFacts DEF ExecInv
<1> USE DEF ExecInv, Running, TypeOK, Statements, Reversible
<1>1. CASE SingleDDL
  BY <1>0, <1>1 DEF ExecInv, SingleDDL, SingleStep, Single, Run, Answer, Fate, Raises, Outcomes
<1>2. CASE SingleUndo
  BY <1>0, <1>2 DEF ExecInv, SingleUndo, Single, Reverse, Reversed, Answer
<1>3. CASE SingleNonTxn
  BY <1>0, <1>3 DEF ExecInv, SingleNonTxn, SingleStep, Single, Run, Answer, Fate, Raises, Outcomes
<1>4. CASE SingleRolledBack
  BY <1>0, <1>4 DEF ExecInv, SingleRolledBack, SingleStep, Single, Answer, Fate, Raises
<1>5. CASE CloseTxn
  BY <1>0, <1>5 DEF ExecInv, CloseTxn, BatchStep, Rollback
<1>6. CASE BeginTxn
  BY <1>0, <1>6 DEF ExecInv, BeginTxn, BatchStep, db
<1>7. CASE BatchStandalone
  BY <1>0, <1>7 DEF ExecInv, BatchStandalone, BatchStep, Run, Advance, Raises, Outcomes
<1>8. CASE BatchInTxn
  BY <1>0, <1>8 DEF ExecInv, BatchInTxn, BatchStep, Run, Advance, Raises, Outcomes
<1>9. CASE EndBatch
  BY <1>0, <1>9 DEF ExecInv, EndBatch, Rollback, Answer
<1>10. CASE BatchRaises
  BY <1>0, <1>10 DEF ExecInv, BatchRaises, Rollback, Answer
<1>11. CASE BatchUndo
  BY <1>0, <1>11 DEF ExecInv, BatchUndo, Reverse, Reversed
<1>12. CASE BatchUndone
  BY <1>0, <1>12 DEF ExecInv, BatchUndone, Answer, db
<1>13. CASE EphemeralStatement
  BY <1>0, <1>13 DEF ExecInv, EphemeralStatement, Run, Answer, Fate, Raises, Outcomes
<1>14. CASE Idle
  BY <1>0, <1>14 DEF ExecInv, Idle, vars, db
<1>15. CASE UNCHANGED vars
  BY <1>0, <1>15 DEF ExecInv, vars, db
<1> QED
  BY <1>1, <1>2, <1>3, <1>4, <1>5, <1>6, <1>7, <1>8, <1>9, <1>10, <1>11, <1>12, <1>13, <1>14, <1>15 DEF Next, ExecuteSingle, ExecuteBatch

\* The loops go on only without an error and while a statement is left.
LEMMA RunningStep ==
  ASSUME ExecInv, [Next]_vars
  PROVE  Running'
<1>0. ExecInv /\ Statements \subseteq 1..MaxStatements
  BY StatementFacts DEF ExecInv
<1> USE DEF ExecInv, Running, Statements
<1>1. CASE SingleDDL
  BY <1>0, <1>1 DEF ExecInv, SingleDDL, SingleStep, Single, Run, Answer, Fate, Raises, Outcomes
<1>2. CASE SingleUndo
  BY <1>0, <1>2 DEF ExecInv, SingleUndo, Single, Reverse, Reversed, Answer
<1>3. CASE SingleNonTxn
  BY <1>0, <1>3 DEF ExecInv, SingleNonTxn, SingleStep, Single, Run, Answer, Fate, Raises, Outcomes
<1>4. CASE SingleRolledBack
  BY <1>0, <1>4 DEF ExecInv, SingleRolledBack, SingleStep, Single, Answer, Fate, Raises
<1>5. CASE CloseTxn
  BY <1>0, <1>5 DEF ExecInv, CloseTxn, BatchStep, Rollback
<1>6. CASE BeginTxn
  BY <1>0, <1>6 DEF ExecInv, BeginTxn, BatchStep, db
<1>7. CASE BatchStandalone
  BY <1>0, <1>7 DEF ExecInv, BatchStandalone, BatchStep, Run, Advance, Raises, Outcomes
<1>8. CASE BatchInTxn
  BY <1>0, <1>8 DEF ExecInv, BatchInTxn, BatchStep, Run, Advance, Raises, Outcomes
<1>9. CASE EndBatch
  BY <1>0, <1>9 DEF ExecInv, EndBatch, Rollback, Answer
<1>10. CASE BatchRaises
  BY <1>0, <1>10 DEF ExecInv, BatchRaises, Rollback, Answer
<1>11. CASE BatchUndo
  BY <1>0, <1>11 DEF ExecInv, BatchUndo, Reverse, Reversed
<1>12. CASE BatchUndone
  BY <1>0, <1>12 DEF ExecInv, BatchUndone, Answer, db
<1>13. CASE EphemeralStatement
  BY <1>0, <1>13 DEF ExecInv, EphemeralStatement, Run, Answer, Fate, Raises, Outcomes
<1>14. CASE Idle
  BY <1>0, <1>14 DEF ExecInv, Idle, vars, db
<1>15. CASE UNCHANGED vars
  BY <1>0, <1>15 DEF ExecInv, vars, db
<1> QED
  BY <1>1, <1>2, <1>3, <1>4, <1>5, <1>6, <1>7, <1>8, <1>9, <1>10, <1>11, <1>12, <1>13, <1>14, <1>15 DEF Next, ExecuteSingle, ExecuteBatch

\* Whoever leaves the loop closes the transaction it opened.
LEMMA TransactionStep ==
  ASSUME ExecInv, [Next]_vars
  PROVE  Transaction'
<1>0. ExecInv /\ Statements \subseteq 1..MaxStatements /\ pos \in Int
  BY StatementFacts DEF ExecInv, TypeOK
<1> USE DEF ExecInv, Running, Transaction, Statements, Single
<1>1. CASE SingleDDL
  BY <1>0, <1>1 DEF ExecInv, SingleDDL, SingleStep, Single, Run, Answer, Fate, Raises, Outcomes
<1>2. CASE SingleUndo
  BY <1>0, <1>2 DEF ExecInv, SingleUndo, Single, Reverse, Reversed, Answer
<1>3. CASE SingleNonTxn
  BY <1>0, <1>3 DEF ExecInv, SingleNonTxn, SingleStep, Single, Run, Answer, Fate, Raises, Outcomes
<1>4. CASE SingleRolledBack
  BY <1>0, <1>4 DEF ExecInv, SingleRolledBack, SingleStep, Single, Answer, Fate, Raises
<1>5. CASE CloseTxn
  BY <1>0, <1>5 DEF ExecInv, CloseTxn, BatchStep, Rollback
<1>6. CASE BeginTxn
  BY <1>0, <1>6 DEF ExecInv, BeginTxn, BatchStep, db
<1>7. CASE BatchStandalone
  BY <1>0, <1>7 DEF ExecInv, BatchStandalone, BatchStep, Run, Advance, Raises, Outcomes
<1>8. CASE BatchInTxn
  <2>1. PICK o \in Outcomes(pos) : Run(pos, o, TRUE) /\ Advance(o)
    BY <1>8 DEF BatchInTxn
  <2>2. /\ inTxn /\ inTxn' = inTxn /\ mode # "ephemeral" /\ ~Single
        /\ mode' = mode /\ batch' = batch /\ ~Standalone(pos) /\ pos \in Statements
    BY <1>8 DEF BatchInTxn, BatchStep
  <2>3. pos' = pos + 1 /\ pc' \in {"run", "finally"}
    BY <2>1 DEF Advance
  <2>4. /\ pending' \subseteq pending \cup {pos}
        /\ durable' \subseteq durable \cup (IF batch[pos] = "commits" THEN pending \cup {pos} ELSE {})
    BY <2>1, <2>2 DEF Run, Standalone, NonTxn
  <2>5. pending \subseteq Int /\ \A i \in pending : i < pos
    BY <1>0 DEF ExecInv, TypeOK
  <2>6. \A i \in pending' : i < pos'
    <3> SUFFICES ASSUME NEW i \in pending' PROVE i < pos + 1
      BY <2>3
    <3>1. i \in pending \/ i = pos
      BY <2>4
    <3>2. pos \in Int /\ i \in Int
      BY <1>0, <2>5, <3>1
    <3>3. i < pos \/ i = pos
      BY <2>5, <3>1
    <3> QED
      BY <3>2, <3>3
  <2> QED
    BY <1>0, <2>2, <2>3, <2>6
<1>9. CASE EndBatch
  BY <1>0, <1>9 DEF ExecInv, EndBatch, Rollback, Answer
<1>10. CASE BatchRaises
  BY <1>0, <1>10 DEF ExecInv, BatchRaises, Rollback, Answer
<1>11. CASE BatchUndo
  BY <1>0, <1>11 DEF ExecInv, BatchUndo, Reverse, Reversed
<1>12. CASE BatchUndone
  BY <1>0, <1>12 DEF ExecInv, BatchUndone, Answer, db
<1>13. CASE EphemeralStatement
  BY <1>0, <1>13 DEF ExecInv, EphemeralStatement, Run, Answer, Fate, Raises, Outcomes
<1>14. CASE Idle
  BY <1>0, <1>14 DEF ExecInv, Idle, vars, db
<1>15. CASE UNCHANGED vars
  BY <1>0, <1>15 DEF ExecInv, vars, db
<1> QED
  BY <1>1, <1>2, <1>3, <1>4, <1>5, <1>6, <1>7, <1>8, <1>9, <1>10, <1>11, <1>12, <1>13, <1>14, <1>15 DEF Next, ExecuteSingle, ExecuteBatch

\* What becomes durable was standalone or is committed by a later statement.
LEMMA DmlStep ==
  ASSUME ExecInv, DmlRolledBack, [Next]_vars
  PROVE  DmlRolledBack'
<1>0. ExecInv /\ DmlRolledBack /\ Statements \subseteq 1..MaxStatements /\ pos \in Int
  BY StatementFacts DEF ExecInv, TypeOK
<1> USE DEF Running, Transaction, Statements, DmlRolledBack, Standalone, IsDDL, NonTxn
<1>1. CASE SingleDDL
  BY <1>0, <1>1 DEF ExecInv, SingleDDL, SingleStep, Single, Run, Answer, Fate, Raises, Outcomes
<1>2. CASE SingleUndo
  BY <1>0, <1>2 DEF ExecInv, SingleUndo, Single, Reverse, Reversed, Answer
<1>3. CASE SingleNonTxn
  BY <1>0, <1>3 DEF ExecInv, SingleNonTxn, SingleStep, Single, Run, Answer, Fate, Raises, Outcomes
<1>4. CASE SingleRolledBack
  BY <1>0, <1>4 DEF ExecInv, SingleRolledBack, SingleStep, Single, Answer, Fate, Raises
<1>5. CASE CloseTxn
  BY <1>0, <1>5 DEF ExecInv, CloseTxn, BatchStep, Rollback
<1>6. CASE BeginTxn
  BY <1>0, <1>6 DEF ExecInv, BeginTxn, BatchStep, db
<1>7. CASE BatchStandalone
  BY <1>0, <1>7 DEF ExecInv, BatchStandalone, BatchStep, Run, Advance, Raises, Outcomes
<1>8. CASE BatchInTxn
  <2>1. PICK o \in Outcomes(pos) : Run(pos, o, TRUE) /\ Advance(o)
    BY <1>8 DEF BatchInTxn
  <2>2. /\ inTxn /\ inTxn' = inTxn /\ mode # "ephemeral" /\ ~Single
        /\ mode' = mode /\ batch' = batch /\ ~Standalone(pos) /\ pos \in Statements
    BY <1>8 DEF BatchInTxn, BatchStep
  <2>3. pos' = pos + 1 /\ pc' \in {"run", "finally"}
    BY <2>1 DEF Advance
  <2>4. /\ pending' \subseteq pending \cup {pos}
        /\ durable' \subseteq durable \cup (IF batch[pos] = "commits" THEN pending \cup {pos} ELSE {})
    BY <2>1, <2>2 DEF Run, Standalone, NonTxn
  <2>5. pending \subseteq Statements
    BY <1>0 DEF ExecInv, TypeOK, Statements
  <2>6. \A i \in pending : i < pos /\ i \in Int
    BY <1>0, <2>5 DEF ExecInv
  <2> QED
    BY <1>0, <2>2, <2>4, <2>5, <2>6
<1>9. CASE EndBatch
  BY <1>0, <1>9 DEF ExecInv, EndBatch, Rollback, Answer
<1>10. CASE BatchRaises
  BY <1>0, <1>10 DEF ExecInv, BatchRaises, Rollback, Answer
<1>11. CASE BatchUndo
  BY <1>0, <1>11 DEF ExecInv, BatchUndo, Reverse, Reversed
<1>12. CASE BatchUndone
  BY <1>0, <1>12 DEF ExecInv, BatchUndone, Answer, db
<1>13. CASE EphemeralStatement
  BY <1>0, <1>13 DEF ExecInv, EphemeralStatement, Run, Answer, Fate, Raises, Outcomes
<1>14. CASE Idle
  BY <1>0, <1>14 DEF ExecInv, Idle, vars, db
<1>15. CASE UNCHANGED vars
  BY <1>0, <1>15 DEF ExecInv, vars, db
<1> QED
  BY <1>1, <1>2, <1>3, <1>4, <1>5, <1>6, <1>7, <1>8, <1>9, <1>10, <1>11, <1>12, <1>13, <1>14, <1>15 DEF Next, ExecuteSingle, ExecuteBatch

\* A statement that fails is the last one.
LEMMA ErrorStep ==
  ASSUME ExecInv, ErrorEndsBatch, [Next]_vars
  PROVE  ErrorEndsBatch'
<1>0. ExecInv /\ ErrorEndsBatch
  OBVIOUS
<1> USE DEF Running, ErrorEndsBatch
<1>1. CASE SingleDDL
  BY <1>0, <1>1 DEF ExecInv, SingleDDL, SingleStep, Single, Run, Answer, Fate, Raises, Outcomes
<1>2. CASE SingleUndo
  BY <1>0, <1>2 DEF ExecInv, SingleUndo, Single, Reverse, Reversed, Answer
<1>3. CASE SingleNonTxn
  BY <1>0, <1>3 DEF ExecInv, SingleNonTxn, SingleStep, Single, Run, Answer, Fate, Raises, Outcomes
<1>4. CASE SingleRolledBack
  BY <1>0, <1>4 DEF ExecInv, SingleRolledBack, SingleStep, Single, Answer, Fate, Raises
<1>5. CASE CloseTxn
  BY <1>0, <1>5 DEF ExecInv, CloseTxn, BatchStep, Rollback
<1>6. CASE BeginTxn
  BY <1>0, <1>6 DEF ExecInv, BeginTxn, BatchStep, db
<1>7. CASE BatchStandalone
  BY <1>0, <1>7 DEF ExecInv, BatchStandalone, BatchStep, Run, Advance, Raises, Outcomes
<1>8. CASE BatchInTxn
  BY <1>0, <1>8 DEF ExecInv, BatchInTxn, BatchStep, Run, Advance, Raises, Outcomes
<1>9. CASE EndBatch
  BY <1>0, <1>9 DEF ExecInv, EndBatch, Rollback, Answer
<1>10. CASE BatchRaises
  BY <1>0, <1>10 DEF ExecInv, BatchRaises, Rollback, Answer
<1>11. CASE BatchUndo
  BY <1>0, <1>11 DEF ExecInv, BatchUndo, Reverse, Reversed
<1>12. CASE BatchUndone
  BY <1>0, <1>12 DEF ExecInv, BatchUndone, Answer, db
<1>13. CASE EphemeralStatement
  BY <1>0, <1>13 DEF ExecInv, EphemeralStatement, Run, Answer, Fate, Raises, Outcomes
<1>14. CASE Idle
  BY <1>0, <1>14 DEF ExecInv, Idle, vars, db
<1>15. CASE UNCHANGED vars
  BY <1>0, <1>15 DEF ExecInv, vars, db
<1> QED
  BY <1>1, <1>2, <1>3, <1>4, <1>5, <1>6, <1>7, <1>8, <1>9, <1>10, <1>11, <1>12, <1>13, <1>14, <1>15 DEF Next, ExecuteSingle, ExecuteBatch

\* The strengthened invariant: the executor's loop and its open transaction agree.
THEOREM ExecInvariant == Spec => []ExecInv
<1>1. Init => ExecInv
  BY InitExec
<1>2. ExecInv /\ [Next]_vars => ExecInv'
  BY TypeStep, RunningStep, TransactionStep DEF ExecInv
<1> QED
  BY <1>1, <1>2, PTL DEF Spec

(***************************************************************************)
(* The theorems                                                            *)
(***************************************************************************)
\* The types of the executor's state, for every length of a batch.
THEOREM ExecutorTypes == Spec => []TypeOK
<1>1. ExecInv => TypeOK
  BY DEF ExecInv
<1> QED
  BY <1>1, ExecInvariant, PTL

\* What can be rolled back never becomes durable: the loop of execute() closes
\* the transaction before each standalone statement.
THEOREM DmlNeverDurable == Spec => []DmlRolledBack
<1>1. Init => DmlRolledBack
  BY DEF Init, DmlRolledBack
<1>2. ExecInv /\ DmlRolledBack /\ [Next]_vars => DmlRolledBack'
  BY DmlStep
<1> QED
  BY <1>1, <1>2, ExecInvariant, PTL DEF Spec

\* No statement is executed after one that raised.
THEOREM ErrorIsLast == Spec => []ErrorEndsBatch
<1>1. Init => ErrorEndsBatch
  BY DEF Init, ErrorEndsBatch
<1>2. ExecInv /\ ErrorEndsBatch /\ [Next]_vars => ErrorEndsBatch'
  BY ErrorStep
<1> QED
  BY <1>1, <1>2, ExecInvariant, PTL DEF Spec

(***************************************************************************)
(* With an adapter that supports DDL in a transaction, and without         *)
(* statements that commit or cannot run in one, nothing is left behind,    *)
(* whatever fails.                                                         *)
(***************************************************************************)
NothingDurable == durable = {} /\ damaged = FALSE /\ undo = {} /\ pc # "undo"

\* execute() changes neither its adapter nor its statements.
LEMMA SameRequest ==
  ASSUME [Next]_vars
  PROVE  UNCHANGED <<mode, batch>>
BY DEF Next, ExecuteSingle, ExecuteBatch, SingleDDL, SingleUndo, SingleNonTxn, SingleRolledBack,
       SingleStep, CloseTxn, BeginTxn, BatchStandalone, BatchInTxn, EndBatch, BatchRaises,
       BatchUndo, BatchUndone, BatchStep, EphemeralStatement, Idle, vars

\* If all statements run in transactions, no step makes a change durable.
LEMMA NothingDurableStep ==
  ASSUME ExecInv, AllInTxn, NothingDurable, [Next]_vars
  PROVE  NothingDurable'
<1>0. ExecInv /\ AllInTxn /\ NothingDurable
  OBVIOUS
<1> USE DEF Running, Transaction, AllInTxn, NothingDurable, Statements, Standalone, NonTxn
<1>1. CASE SingleDDL
  BY <1>0, <1>1 DEF ExecInv, SingleDDL, SingleStep, Single, Run, Answer, Fate, Raises, Outcomes
<1>2. CASE SingleUndo
  BY <1>0, <1>2 DEF ExecInv, SingleUndo, Single, Reverse, Reversed, Answer
<1>3. CASE SingleNonTxn
  BY <1>0, <1>3 DEF ExecInv, SingleNonTxn, SingleStep, Single, Run, Answer, Fate, Raises, Outcomes
<1>4. CASE SingleRolledBack
  BY <1>0, <1>4 DEF ExecInv, SingleRolledBack, SingleStep, Single, Answer, Fate, Raises
<1>5. CASE CloseTxn
  BY <1>0, <1>5 DEF ExecInv, CloseTxn, BatchStep, Rollback
<1>6. CASE BeginTxn
  BY <1>0, <1>6 DEF ExecInv, BeginTxn, BatchStep, db
<1>7. CASE BatchStandalone
  BY <1>0, <1>7 DEF ExecInv, BatchStandalone, BatchStep, Run, Advance, Raises, Outcomes
<1>8. CASE BatchInTxn
  BY <1>0, <1>8 DEF ExecInv, BatchInTxn, BatchStep, Run, Advance, Raises, Outcomes
<1>9. CASE EndBatch
  BY <1>0, <1>9 DEF ExecInv, EndBatch, Rollback, Answer
<1>10. CASE BatchRaises
  BY <1>0, <1>10 DEF ExecInv, BatchRaises, Rollback, Answer
<1>11. CASE BatchUndo
  BY <1>0, <1>11 DEF ExecInv, BatchUndo, Reverse, Reversed
<1>12. CASE BatchUndone
  BY <1>0, <1>12 DEF ExecInv, BatchUndone, Answer, db
<1>13. CASE EphemeralStatement
  BY <1>0, <1>13 DEF ExecInv, EphemeralStatement, Run, Answer, Fate, Raises, Outcomes
<1>14. CASE Idle
  BY <1>0, <1>14 DEF ExecInv, Idle, vars, db
<1>15. CASE UNCHANGED vars
  BY <1>0, <1>15 DEF ExecInv, vars, db
<1> QED
  BY <1>1, <1>2, <1>3, <1>4, <1>5, <1>6, <1>7, <1>8, <1>9, <1>10, <1>11, <1>12, <1>13, <1>14, <1>15 DEF Next, ExecuteSingle, ExecuteBatch

\* A shared container is given back as it was: the whole batch ran in
\* transactions, and each of them was rolled back.
THEOREM RollbackLeavesNothing == Spec => []TxnLeavesNothing
<1> DEFINE Clean == AllInTxn => NothingDurable
<1>1. Init => Clean
  BY DEF Init, NothingDurable
<1>2. ExecInv /\ Clean /\ [Next]_vars => Clean'
  BY NothingDurableStep, SameRequest DEF AllInTxn, NonTxn, Statements
<1>3. ExecInv /\ Clean => TxnLeavesNothing
  BY DEF ExecInv, Transaction, NothingDurable, TxnLeavesNothing
<1> QED
  BY <1>1, <1>2, <1>3, ExecInvariant, PTL DEF Spec

(***************************************************************************)
(* Without DDL transactions the executor queues a reverse statement for    *)
(* what it cannot roll back.                                               *)
(***************************************************************************)
\* Such a database opens no transaction around DDL, so that what a later
\* statement commits has nothing to reverse.
NoneOpen == mode = "direct" /\ ~Single => \A i \in pending : ~IsDDL(i)

\* The finally block belongs to a batch; a single statement finds nothing done.
Paths ==
  /\ pc = "finally" => ~Single
  /\ Single /\ pc = "run" => durable = {}

\* Success is reported when the queue was worked off, or when the single
\* statement left nothing.
Settled ==
  mode = "direct" /\ pc = "done" /\ reply = "success" =>
    IF Single THEN ~destroy /\ batch[1] \in {"dml", "ddl"} => durable = {}
              ELSE undo = {}

\* What the queue of reverse statements stands for at every step.
Reverses == NoneOpen /\ Paths /\ Settled /\ UndoCovers

\* A queued reverse finds the change of its statement, unless that one raised,
\* and only the reverse of one that raised takes something older away.
Blame ==
  AllReversed =>
    /\ undo \subseteq durable \cup failed
    /\ Single /\ pc = "undo" => undo = {1}
    /\ damaged => \E i \in failed : Reversible(i)

\* A transaction of such a database holds no DDL.
LEMMA NoneOpenStep ==
  ASSUME ExecInv, Reverses, [Next]_vars
  PROVE  NoneOpen'
<1>0. ExecInv /\ Reverses /\ UNCHANGED <<mode, batch>>
  BY SameRequest
<1> USE DEF Reverses, NoneOpen, Statements, Single, IsDDL, Standalone
<1>1. CASE SingleDDL
  BY <1>0, <1>1 DEF SingleDDL, SingleStep, Single, Run, Answer, Fate, Raises, Outcomes
<1>2. CASE SingleUndo
  BY <1>0, <1>2 DEF SingleUndo, Single, Reverse, Reversed, Answer
<1>3. CASE SingleNonTxn
  BY <1>0, <1>3 DEF SingleNonTxn, SingleStep, Single, Run, Answer, Fate, Raises, Outcomes
<1>4. CASE SingleRolledBack
  BY <1>0, <1>4 DEF SingleRolledBack, SingleStep, Single, Answer, Fate, Raises
<1>5. CASE CloseTxn
  BY <1>0, <1>5 DEF CloseTxn, BatchStep, Rollback
<1>6. CASE BeginTxn
  BY <1>0, <1>6 DEF BeginTxn, BatchStep, db
<1>7. CASE BatchStandalone
  BY <1>0, <1>7 DEF BatchStandalone, BatchStep, Run, Advance, Raises, Outcomes
<1>8. CASE BatchInTxn
  BY <1>0, <1>8 DEF BatchInTxn, BatchStep, Run, Advance, Raises, Outcomes
<1>9. CASE EndBatch
  BY <1>0, <1>9 DEF EndBatch, Rollback, Answer
<1>10. CASE BatchRaises
  BY <1>0, <1>10 DEF BatchRaises, Rollback, Answer
<1>11. CASE BatchUndo
  BY <1>0, <1>11 DEF BatchUndo, Reverse, Reversed
<1>12. CASE BatchUndone
  BY <1>0, <1>12 DEF BatchUndone, Answer, db
<1>13. CASE EphemeralStatement
  BY <1>0, <1>13 DEF EphemeralStatement, Run, Answer, Fate, Raises, Outcomes
<1>14. CASE Idle
  BY <1>0, <1>14 DEF Idle, vars, db
<1>15. CASE UNCHANGED vars
  BY <1>0, <1>15 DEF vars, db
<1> QED
  BY <1>1, <1>2, <1>3, <1>4, <1>5, <1>6, <1>7, <1>8, <1>9, <1>10, <1>11, <1>12, <1>13, <1>14, <1>15 DEF Next, ExecuteSingle, ExecuteBatch

\* A batch stays a batch, and a single statement is over in one step.
LEMMA PathsStep ==
  ASSUME ExecInv, Reverses, [Next]_vars
  PROVE  Paths'
<1>0. ExecInv /\ Reverses /\ UNCHANGED <<mode, batch>>
  BY SameRequest
<1> USE DEF Reverses, Paths, Statements, Single
<1>1. CASE SingleDDL
  BY <1>0, <1>1 DEF SingleDDL, SingleStep, Single, Run, Answer, Fate, Raises, Outcomes
<1>2. CASE SingleUndo
  BY <1>0, <1>2 DEF SingleUndo, Single, Reverse, Reversed, Answer
<1>3. CASE SingleNonTxn
  BY <1>0, <1>3 DEF SingleNonTxn, SingleStep, Single, Run, Answer, Fate, Raises, Outcomes
<1>4. CASE SingleRolledBack
  BY <1>0, <1>4 DEF SingleRolledBack, SingleStep, Single, Answer, Fate, Raises
<1>5. CASE CloseTxn
  BY <1>0, <1>5 DEF CloseTxn, BatchStep, Rollback
<1>6. CASE BeginTxn
  BY <1>0, <1>6 DEF BeginTxn, BatchStep, db
<1>7. CASE BatchStandalone
  BY <1>0, <1>7 DEF BatchStandalone, BatchStep, Run, Advance, Raises, Outcomes
<1>8. CASE BatchInTxn
  BY <1>0, <1>8 DEF BatchInTxn, BatchStep, Run, Advance, Raises, Outcomes
<1>9. CASE EndBatch
  BY <1>0, <1>9 DEF EndBatch, Rollback, Answer
<1>10. CASE BatchRaises
  BY <1>0, <1>10 DEF BatchRaises, Rollback, Answer
<1>11. CASE BatchUndo
  BY <1>0, <1>11 DEF BatchUndo, Reverse, Reversed
<1>12. CASE BatchUndone
  BY <1>0, <1>12 DEF BatchUndone, Answer, db
<1>13. CASE EphemeralStatement
  BY <1>0, <1>13 DEF ExecInv, Running, EphemeralStatement, Run, Answer
<1>14. CASE Idle
  BY <1>0, <1>14 DEF Idle, vars, db
<1>15. CASE UNCHANGED vars
  BY <1>0, <1>15 DEF vars, db
<1> QED
  BY <1>1, <1>2, <1>3, <1>4, <1>5, <1>6, <1>7, <1>8, <1>9, <1>10, <1>11, <1>12, <1>13, <1>14, <1>15 DEF Next, ExecuteSingle, ExecuteBatch

\* Success is reported of a queue that was worked off.
LEMMA SettledStep ==
  ASSUME ExecInv, Reverses, [Next]_vars
  PROVE  Settled'
<1>0. /\ ExecInv /\ Reverses /\ UNCHANGED <<mode, batch>>
      /\ TypeOK /\ TypeOK'
  BY SameRequest, TypeStep DEF ExecInv
<1> USE DEF Reverses, Paths, Settled, TypeOK, Statements, Single, IsDDL, Reversible
<1>1. CASE SingleDDL
  BY <1>0, <1>1 DEF SingleDDL, SingleStep, Single, Run, Answer, Fate, Raises, Outcomes
<1>2. CASE SingleUndo
  BY <1>0, <1>2 DEF SingleUndo, Single, Reverse, Reversed, Answer
<1>3. CASE SingleNonTxn
  BY <1>0, <1>3 DEF SingleNonTxn, SingleStep, Single, Run, Answer, Fate, Raises, Outcomes
<1>4. CASE SingleRolledBack
  BY <1>0, <1>4 DEF SingleRolledBack, SingleStep, Single, Answer, Fate, Raises
<1>5. CASE CloseTxn
  BY <1>0, <1>5 DEF CloseTxn, BatchStep, Rollback
<1>6. CASE BeginTxn
  BY <1>0, <1>6 DEF BeginTxn, BatchStep, db
<1>7. CASE BatchStandalone
  BY <1>0, <1>7 DEF BatchStandalone, BatchStep, Run, Advance, Raises, Outcomes
<1>8. CASE BatchInTxn
  BY <1>0, <1>8 DEF BatchInTxn, BatchStep, Run, Advance, Raises, Outcomes
<1>9. CASE EndBatch
  BY <1>0, <1>9 DEF EndBatch, Rollback, Answer
<1>10. CASE BatchRaises
  BY <1>0, <1>10 DEF BatchRaises, Rollback, Answer
<1>11. CASE BatchUndo
  BY <1>0, <1>11 DEF BatchUndo, Reverse, Reversed
<1>12. CASE BatchUndone
  BY <1>0, <1>12 DEF BatchUndone, Answer, db
<1>13. CASE EphemeralStatement
  BY <1>0, <1>13 DEF EphemeralStatement, Run, Answer, Fate, Raises, Outcomes
<1>14. CASE Idle
  BY <1>0, <1>14 DEF Idle, vars, db
<1>15. CASE UNCHANGED vars
  BY <1>0, <1>15 DEF vars, db
<1> QED
  BY <1>1, <1>2, <1>3, <1>4, <1>5, <1>6, <1>7, <1>8, <1>9, <1>10, <1>11, <1>12, <1>13, <1>14, <1>15 DEF Next, ExecuteSingle, ExecuteBatch

\* Whatever DDL becomes durable is queued, until the lease is marked.
LEMMA CoversStep ==
  ASSUME ExecInv, Reverses, [Next]_vars
  PROVE  UndoCovers'
<1>0. /\ ExecInv /\ Reverses /\ UNCHANGED <<mode, batch>>
      /\ TypeOK /\ Transaction
  BY SameRequest DEF ExecInv
<1> USE DEF Reverses, NoneOpen, UndoCovers, Transaction, Statements, Single, IsDDL, Reversible, Standalone
<1>1. CASE SingleDDL
  BY <1>0, <1>1 DEF SingleDDL, SingleStep, Single, Run, Answer, Fate, Raises, Outcomes
<1>2. CASE SingleUndo
  BY <1>0, <1>2 DEF SingleUndo, Single, Reverse, Reversed, Answer
<1>3. CASE SingleNonTxn
  BY <1>0, <1>3 DEF SingleNonTxn, SingleStep, Single, Run, Answer, Fate, Raises, Outcomes
<1>4. CASE SingleRolledBack
  BY <1>0, <1>4 DEF SingleRolledBack, SingleStep, Single, Answer, Fate, Raises
<1>5. CASE CloseTxn
  BY <1>0, <1>5 DEF CloseTxn, BatchStep, Rollback
<1>6. CASE BeginTxn
  BY <1>0, <1>6 DEF BeginTxn, BatchStep, db
<1>7. CASE BatchStandalone
  BY <1>0, <1>7 DEF BatchStandalone, BatchStep, Run, Advance, Raises, Outcomes
<1>8. CASE BatchInTxn
  BY <1>0, <1>8 DEF BatchInTxn, BatchStep, Run, Advance, Raises, Outcomes
<1>9. CASE EndBatch
  BY <1>0, <1>9 DEF EndBatch, Rollback, Answer
<1>10. CASE BatchRaises
  BY <1>0, <1>10 DEF BatchRaises, Rollback, Answer
<1>11. CASE BatchUndo
  BY <1>0, <1>11 DEF BatchUndo, Reverse, Reversed
<1>12. CASE BatchUndone
  BY <1>0, <1>12 DEF BatchUndone, Answer, db
<1>13. CASE EphemeralStatement
  BY <1>0, <1>13 DEF EphemeralStatement, Run, Answer, Fate, Raises, Outcomes
<1>14. CASE Idle
  BY <1>0, <1>14 DEF Idle, vars, db
<1>15. CASE UNCHANGED vars
  BY <1>0, <1>15 DEF vars, db
<1> QED
  BY <1>1, <1>2, <1>3, <1>4, <1>5, <1>6, <1>7, <1>8, <1>9, <1>10, <1>11, <1>12, <1>13, <1>14, <1>15 DEF Next, ExecuteSingle, ExecuteBatch

\* A statement of such a request that did not raise has changed something.
LEMMA BlameStep ==
  ASSUME ExecInv, Reverses, Blame, [Next]_vars
  PROVE  Blame'
<1>0. /\ ExecInv /\ Reverses /\ Blame /\ UNCHANGED <<mode, batch>>
      /\ TypeOK /\ Running
  BY SameRequest DEF ExecInv
<1> USE DEF Blame, AllReversed, Running, Paths, Reverses, Statements, Single, IsDDL, Reversible, Standalone, TakesEffect
<1>1. CASE SingleDDL
  BY <1>0, <1>1 DEF SingleDDL, SingleStep, Single, Run, Answer, Fate, Raises, Outcomes
<1>2. CASE SingleUndo
  <2>1. PICK raises \in BOOLEAN : Reverse(1, raises)
    BY <1>2 DEF SingleUndo
  <2>2. undo' = {} /\ pc' = "done" /\ UNCHANGED <<mode, batch, failed>> /\ Single /\ pc = "undo"
    BY <1>2 DEF SingleUndo, Answer
  <2>3. SUFFICES ASSUME AllReversed PROVE damaged' => \E i \in failed : Reversible(i)
    BY <1>0, <2>2
  <2>4. undo = {1} /\ batch[1] # "ddlOther" /\ Reversible(1)
    BY <1>0, <2>2, <2>3 DEF TypeOK
  <2>5. damaged' => damaged \/ 1 \notin durable
    BY <1>0, <2>1, <2>4 DEF Reverse, Reversed, TypeOK
  <2> QED
    BY <1>0, <2>3, <2>4, <2>5
<1>3. CASE SingleNonTxn
  BY <1>0, <1>3 DEF SingleNonTxn, SingleStep, Single, Run, Answer, Fate, Raises, Outcomes
<1>4. CASE SingleRolledBack
  BY <1>0, <1>4 DEF SingleRolledBack, SingleStep, Single, Answer, Fate, Raises
<1>5. CASE CloseTxn
  BY <1>0, <1>5 DEF CloseTxn, BatchStep, Rollback
<1>6. CASE BeginTxn
  BY <1>0, <1>6 DEF BeginTxn, BatchStep, db
<1>7. CASE BatchStandalone
  BY <1>0, <1>7 DEF BatchStandalone, BatchStep, Run, Advance, Raises, Outcomes
<1>8. CASE BatchInTxn
  BY <1>0, <1>8 DEF BatchInTxn, BatchStep, Run, Advance, Raises, Outcomes
<1>9. CASE EndBatch
  BY <1>0, <1>9 DEF EndBatch, Rollback, Answer
<1>10. CASE BatchRaises
  BY <1>0, <1>10 DEF BatchRaises, Rollback, Answer
<1>11. CASE BatchUndo
  <2>1. PICK i \in undo, raises \in BOOLEAN : Reverse(i, raises) /\ undo' = undo \ {i}
    BY <1>11 DEF BatchUndo
  <2>2. UNCHANGED <<mode, batch, failed, pc>> /\ ~Single
    BY <1>11 DEF BatchUndo
  <2>3. SUFFICES ASSUME AllReversed
                 PROVE  /\ undo' \subseteq durable' \cup failed
                        /\ damaged' => \E j \in failed : Reversible(j)
    BY <1>0, <2>2
  <2>4. batch[i] # "ddlOther" /\ Reversible(i)
    BY <1>0, <2>1, <2>3 DEF TypeOK
  <2>5. durable \ {i} \subseteq durable' /\ (damaged' => damaged \/ i \notin durable)
    BY <1>0, <2>1, <2>4 DEF Reverse, Reversed, TypeOK
  <2> QED
    BY <1>0, <2>1, <2>3, <2>4, <2>5
<1>12. CASE BatchUndone
  BY <1>0, <1>12 DEF BatchUndone, Answer, db
<1>13. CASE EphemeralStatement
  BY <1>0, <1>13 DEF EphemeralStatement, Run, Answer, Fate, Raises, Outcomes
<1>14. CASE Idle
  BY <1>0, <1>14 DEF Idle, vars, db
<1>15. CASE UNCHANGED vars
  BY <1>0, <1>15 DEF vars, db
<1> QED
  BY <1>1, <1>2, <1>3, <1>4, <1>5, <1>6, <1>7, <1>8, <1>9, <1>10, <1>11, <1>12, <1>13, <1>14, <1>15 DEF Next, ExecuteSingle, ExecuteBatch

\* The queue of reverse statements stands for what is durable, at every step.
LEMMA ReversesInvariant == Spec => []Reverses
<1>1. Init => Reverses
  BY DEF Init, Reverses, NoneOpen, Paths, Settled, UndoCovers
<1>2. ExecInv /\ Reverses /\ [Next]_vars => Reverses'
  BY NoneOpenStep, PathsStep, SettledStep, CoversStep DEF Reverses
<1> QED
  BY <1>1, <1>2, ExecInvariant, PTL DEF Spec

\* Until the lease is marked, a durable change of a reversible statement of a
\* batch has its reverse queued, also when the statement timed out.
THEOREM QueueCovers == Spec => []UndoCovers
<1>1. Reverses => UndoCovers
  BY DEF Reverses
<1> QED
  BY <1>1, ReversesInvariant, PTL

\* A request of a database without DDL transactions whose statements can all be
\* rolled back or reversed, when it is answered with success and not marked,
\* gives the container back as it was: what was rolled back was never durable,
\* what was durable was reversed, and a reverse finds its own change there unless
\* its statement raised.
THEOREM ReverseIsComplete == Spec => []ReverseLeavesNothing
<1>1. Init => Blame
  BY DEF Init, Blame
<1>2. ExecInv /\ Reverses /\ Blame /\ [Next]_vars => Blame'
  BY BlameStep
<1>3. ExecInv /\ DmlRolledBack /\ Reverses /\ Blame => ReverseLeavesNothing
  <2> SUFFICES ASSUME ExecInv, DmlRolledBack, Reverses, Blame,
                      mode = "direct", \A i \in Statements : batch[i] \in {"dml", "ddl"},
                      pc = "done", reply = "success", ~destroy
               PROVE  durable = {} /\ pending = {}
    BY DEF ReverseLeavesNothing, Blame, AllReversed
  <2>1. pending = {}
    BY DEF ExecInv, Transaction
  <2>2. CASE Single
    BY <2>1, <2>2 DEF Reverses, Settled, Single
  <2>3. CASE ~Single
    <3>1. undo = {} /\ {i \in durable : batch[i] = "ddl"} \subseteq undo
      BY <2>3 DEF Reverses, Settled, UndoCovers
    <3>2. \A i \in durable : Standalone(i)
      BY DEF DmlRolledBack
    <3>3. \A i \in durable : i \in Statements /\ batch[i] = "ddl"
      BY <3>2 DEF ExecInv, TypeOK, Standalone, IsDDL
    <3> QED
      BY <2>1, <3>1, <3>3
  <2> QED
    BY <2>2, <2>3
<1> QED
  BY <1>1, <1>2, <1>3, ExecInvariant, DmlNeverDurable, ReversesInvariant, PTL DEF Spec

\* Only a reverse statement takes back what is durable, and the queue is worked
\* off from its end.
LEMMA OrderStep ==
  ASSUME ExecInv, Reverses, [Next]_vars
  PROVE  \A i \in durable \ durable' : \A j \in durable' \cap undo' : j < i
<1>0. /\ ExecInv /\ Reverses
      /\ TypeOK
      /\ durable \subseteq Int /\ undo \subseteq Int
  BY StatementFacts DEF ExecInv, TypeOK
<1> USE DEF Paths, Reverses, Statements, Single
<1>1. CASE SingleDDL
  BY <1>0, <1>1 DEF SingleDDL, SingleStep, Single, Run, Answer, Fate, Raises, Outcomes
<1>2. CASE SingleUndo
  BY <1>0, <1>2 DEF SingleUndo, Single, Reverse, Reversed, Answer
<1>3. CASE SingleNonTxn
  BY <1>0, <1>3 DEF SingleNonTxn, SingleStep, Single, Run, Answer, Fate, Raises, Outcomes
<1>4. CASE SingleRolledBack
  BY <1>0, <1>4 DEF SingleRolledBack, SingleStep, Single, Answer, Fate, Raises
<1>5. CASE CloseTxn
  BY <1>0, <1>5 DEF CloseTxn, BatchStep, Rollback
<1>6. CASE BeginTxn
  BY <1>0, <1>6 DEF BeginTxn, BatchStep, db
<1>7. CASE BatchStandalone
  BY <1>0, <1>7 DEF BatchStandalone, BatchStep, Run, Advance, Raises, Outcomes
<1>8. CASE BatchInTxn
  BY <1>0, <1>8 DEF BatchInTxn, BatchStep, Run, Advance, Raises, Outcomes
<1>9. CASE EndBatch
  BY <1>0, <1>9 DEF EndBatch, Rollback, Answer
<1>10. CASE BatchRaises
  BY <1>0, <1>10 DEF BatchRaises, Rollback, Answer
<1>11. CASE BatchUndo
  <2>1. PICK i \in undo, raises \in BOOLEAN :
          (\A j \in undo : j <= i) /\ Reverse(i, raises) /\ undo' = undo \ {i}
    BY <1>11 DEF BatchUndo
  <2>2. durable \ durable' \subseteq {i}
    BY <2>1 DEF Reverse, Reversed
  <2>3. \A j \in undo' : j < i
    <3> SUFFICES ASSUME NEW j \in undo' PROVE j < i
      OBVIOUS
    <3>1. j \in Int /\ i \in Int /\ j <= i /\ j # i
      BY <1>0, <2>1
    <3> QED
      BY <3>1
  <2> QED
    BY <2>2, <2>3
<1>12. CASE BatchUndone
  BY <1>0, <1>12 DEF BatchUndone, Answer, db
<1>13. CASE EphemeralStatement
  BY <1>0, <1>13 DEF EphemeralStatement, Run, Answer, Fate, Raises, Outcomes
<1>14. CASE Idle
  BY <1>0, <1>14 DEF Idle, vars, db
<1>15. CASE UNCHANGED vars
  BY <1>0, <1>15 DEF vars, db
<1> QED
  BY <1>1, <1>2, <1>3, <1>4, <1>5, <1>6, <1>7, <1>8, <1>9, <1>10, <1>11, <1>12, <1>13, <1>14, <1>15 DEF Next, ExecuteSingle, ExecuteBatch

\* A DDL statement is reversed before those of the queue that it may depend on.
THEOREM LastReversedFirst == Spec => UndoOrder
<1>1. ExecInv /\ Reverses /\ [Next]_vars =>
        [\A i \in durable \ durable' : \A j \in durable' \cap undo' : j < i]_vars
  BY OrderStep
<1> QED
  BY <1>1, ExecInvariant, ReversesInvariant, PTL DEF Spec, UndoOrder
=============================================================================
