------------------------------ MODULE Executor ------------------------------
(***************************************************************************)
(* MCPExecutor.execute of src/executor.py once it holds a lease: how the   *)
(* statements of one request run, what each leaves in the container and    *)
(* how the executor takes it back: by a rollback, by reverse DDL, or by    *)
(* marking the lease so that the container is destroyed.                   *)
(*                                                                         *)
(* A statement is its kind, that is what the patterns of the executor and  *)
(* the database make of it.  A change is named after the position of the   *)
(* statement that made it.  The database is external: it is the sets of    *)
(* changes in the open transaction and of durable ones.                    *)
(*                                                                         *)
(* _generate_reverse_ddl searches its patterns anywhere in the text and    *)
(* answers the first match: of ADD COLUMN a, ADD COLUMN b it drops a only, *)
(* a replaced view it drops, and in a procedure it finds the table that    *)
(* the body creates.  Such statements are of kind "ddlOther".              *)
(***************************************************************************)
EXTENDS Integers

CONSTANTS
  Mode,           \* the ways through execute() of this instance
  Kind,           \* the kinds of statements in its requests
  Event,          \* what may go wrong
  MaxStatements   \* bound: statements of a request

Modes ==
  { "txnDDL",      \* the adapter supports DDL in a transaction
    "direct",      \* it does not: MySQL, Oracle, KingbaseES outside pg mode
    "ephemeral" }  \* a lease of a container with a custom configuration

Kinds ==
  { "dml",        \* matches no pattern and can be rolled back
    "commits",    \* matches no pattern and commits: COMMIT, GRANT on MySQL
    "ddl",        \* DDL whose generated reverse takes it back
    "ddlFound",   \* CREATE ... IF NOT EXISTS of an object that is there
    "ddlOther",   \* DDL whose generated reverse takes back less or something else
    "ddlOneWay",  \* DDL without a generated reverse: DROP, TRUNCATE
    "nonTxn" }    \* DDL without reverse, impossible in a transaction: CREATE DATABASE

Events ==
  { "fails",           \* a statement raises and changes nothing
    "late",            \* it raises, or times out, after it took effect
    "reverseFails",    \* a reverse statement raises
    "connectionLost" } \* begin_transaction or rollback raises

ASSUME ModeAssumption == Mode \subseteq Modes
ASSUME KindAssumption == Kind \subseteq Kinds
ASSUME EventAssumption == Event \subseteq Events
ASSUME BoundsAssumption == MaxStatements \in Nat \ {0}

VARIABLES
  mode,     \* the way this request goes
  batch,    \* the kinds of its statements
  pos,      \* the statement to execute next
  failed,   \* the statements whose result is an error
  noted,    \* those whose result says "container will be destroyed"
  inTxn,    \* in_txn, in_dml_txn
  pending,  \* changes in the open transaction
  durable,  \* changes outside
  damaged,  \* a reverse statement removed what the request did not create
  undo,     \* statements whose reverse is still to be executed
  destroy,  \* destroy_container
  reply,    \* status of the answer
  pc        \* where the executor is

db == <<pending, durable, damaged>>
vars == <<mode, batch, pos, failed, noted, inTxn, db, undo, destroy, reply, pc>>

Position == 1..MaxStatements
Batches == UNION {[1..n -> Kind] : n \in Position}
Statements == DOMAIN batch
Single == Statements = {1}

IsDDL(i) == batch[i] \in {"ddl", "ddlFound", "ddlOther", "ddlOneWay", "nonTxn"}
NonTxn(i) == batch[i] = "nonTxn"

\* _generate_reverse_ddl answers a statement, whatever that one takes back.
Reversible(i) == batch[i] \in {"ddl", "ddlFound", "ddlOther"}

\* A statement that must not find a transaction open.
Standalone(i) == IF mode = "txnDDL" THEN NonTxn(i) ELSE IsDDL(i)

TypeOK ==
  /\ mode \in Modes
  /\ batch \in Batches
  /\ pos \in 1..MaxStatements + 1
  /\ failed \subseteq Statements /\ noted \subseteq Statements
  /\ inTxn \in BOOLEAN /\ damaged \in BOOLEAN /\ destroy \in BOOLEAN
  /\ pending \subseteq Statements /\ durable \subseteq Statements
  /\ undo \subseteq {i \in Statements : Reversible(i)}
  /\ reply \in {"none", "success", "error"}
  /\ pc \in {"run", "finally", "undo", "done"}

Init ==
  /\ mode \in Mode
  /\ batch \in Batches
  /\ pos = 1
  /\ failed = {} /\ noted = {}
  /\ inTxn = FALSE
  /\ pending = {} /\ durable = {} /\ damaged = FALSE
  /\ undo = {}
  /\ destroy = FALSE
  /\ reply = "none"
  /\ pc = "run"

(***************************************************************************)
(* The database                                                            *)
(***************************************************************************)
Outcomes(i) == {"done"} \cup (Event \cap {"fails", "late"})

TakesEffect(i, o) == o \in {"done", "late"} /\ batch[i] # "ddlFound"
Raises(o) == o \in {"fails", "late"}

\* adapter.execute of statement i in a transaction or not.  A statement that
\* times out is waited for all the same: leaving the "with" block of the
\* executor's thread pool joins its thread.
Run(i, o, open) ==
  LET commits == ~open \/ batch[i] = "commits" \/ (mode # "txnDDL" /\ IsDDL(i)) IN
  /\ o \in Outcomes(i)
  /\ durable' = IF TakesEffect(i, o) /\ commits THEN durable \cup pending \cup {i} ELSE durable
  /\ pending' = IF ~TakesEffect(i, o) THEN pending
                ELSE IF commits THEN {} ELSE pending \cup {i}
  /\ UNCHANGED damaged

Rollback ==
  /\ pending' = {}
  /\ inTxn' = FALSE
  /\ UNCHANGED <<durable, damaged>>

\* The reverse of statement i is executed: it removes the change or, when i
\* changed nothing, what was there before; that of a "ddlOther" may leave the
\* change, or a part of it, and may remove something older.
Reversed(i) ==
  /\ \/ durable' = durable \ {i}
     \/ batch[i] = "ddlOther" /\ durable' = durable
  /\ \/ damaged' = (damaged \/ i \notin durable)
     \/ batch[i] = "ddlOther" /\ damaged' = TRUE

\* The reverse of a change that is not there may raise, too.
Reverse(i, raises) ==
  /\ raises => "reverseFails" \in Event \/ i \notin durable
  /\ IF raises THEN UNCHANGED <<durable, damaged>> ELSE Reversed(i)
  /\ UNCHANGED pending

Fate(o) == IF Raises(o) THEN "error" ELSE "success"

\* The finally block marks the lease if destroy_container is set and gives it
\* back; the handlers around it turn an exception into an error.
Answer(status) ==
  /\ reply' = status
  /\ pc' = "done"

(***************************************************************************)
(* _execute_single: one statement on a shared container                    *)
(***************************************************************************)
SingleStep ==
  /\ pc = "run"
  /\ Single /\ mode # "ephemeral"
  /\ pos' = 2
  /\ UNCHANGED <<mode, batch, inTxn>>

\* DDL that its database commits at once.
SingleDDL ==
  /\ SingleStep
  /\ mode = "direct" /\ IsDDL(1)
  /\ \E o \in Outcomes(1) :
       /\ Run(1, o, FALSE)
       /\ failed' = IF Raises(o) THEN {1} ELSE {}
       /\ IF ~Raises(o) /\ Reversible(1)
          THEN /\ undo' = {1}
               /\ pc' = "undo"
               /\ UNCHANGED <<noted, destroy, reply>>
          ELSE /\ noted' = IF Raises(o) THEN {} ELSE {1}
               /\ destroy' = ~Raises(o)
               /\ Answer(Fate(o))
               /\ UNCHANGED undo

\* Mutant: a reverse that fails does not mark the lease.
SingleUndo_Ignores ==
  /\ pc = "undo" /\ Single
  /\ \E raises \in BOOLEAN :
       /\ Reverse(1, raises)
       /\ noted' = IF raises THEN {1} ELSE {}
  /\ undo' = {}
  /\ Answer("success")
  /\ UNCHANGED <<mode, batch, pos, failed, inTxn, destroy>>

SingleUndo ==
  /\ pc = "undo" /\ Single
  /\ \E raises \in BOOLEAN :
       /\ Reverse(1, raises)
       /\ noted' = IF raises THEN {1} ELSE {}
       /\ destroy' = raises
  /\ undo' = {}
  /\ Answer("success")
  /\ UNCHANGED <<mode, batch, pos, failed, inTxn>>

\* A statement that cannot run in a transaction: nothing takes it back.
SingleNonTxn ==
  /\ SingleStep
  /\ mode = "txnDDL" /\ NonTxn(1)
  /\ \E o \in Outcomes(1) :
       /\ Run(1, o, FALSE)
       /\ failed' = IF Raises(o) THEN {1} ELSE {}
       /\ Answer(Fate(o))
  /\ UNCHANGED <<noted, undo, destroy>>

\* execute_with_rollback, when nothing else applies.
SingleRolledBack ==
  /\ SingleStep
  /\ ~Standalone(1)
  /\ \E o \in Outcomes(1) :
       /\ durable' = IF TakesEffect(1, o) /\ batch[1] = "commits" THEN {1} ELSE {}
       /\ failed' = IF Raises(o) THEN {1} ELSE {}
       /\ Answer(Fate(o))
  /\ UNCHANGED <<pending, damaged, noted, undo, destroy>>

(***************************************************************************)
(* Several statements on a shared container                                *)
(***************************************************************************)
BatchStep ==
  /\ pc = "run"
  /\ ~Single /\ mode # "ephemeral"
  /\ pos \in Statements
  /\ UNCHANGED <<mode, batch, destroy>>

\* Mutant: the transaction stays open.
CloseTxn_Open ==
  /\ BatchStep
  /\ inTxn /\ Standalone(pos)
  /\ inTxn' = FALSE
  /\ UNCHANGED <<db, pos, failed, noted, undo, reply, pc>>

\* adapter.rollback or _flush_dml before a standalone statement.
CloseTxn ==
  /\ BatchStep
  /\ inTxn /\ Standalone(pos)
  /\ Rollback
  /\ UNCHANGED <<pos, failed, noted, undo, reply, pc>>

BeginTxn ==
  /\ BatchStep
  /\ ~inTxn /\ ~Standalone(pos)
  /\ inTxn' = TRUE
  /\ UNCHANGED <<db, pos, failed, noted, undo, reply, pc>>

\* Mutant: the batch goes on after an error.
Advance_GoesOn(o) ==
  /\ pos' = pos + 1
  /\ failed' = IF Raises(o) THEN failed \cup {pos} ELSE failed
  /\ pc' = IF pos + 1 \notin Statements THEN "finally" ELSE "run"

\* The first error ends the batch.
Advance(o) ==
  /\ pos' = pos + 1
  /\ failed' = IF Raises(o) THEN failed \cup {pos} ELSE failed
  /\ pc' = IF Raises(o) \/ pos + 1 \notin Statements THEN "finally" ELSE "run"

\* Mutant: the reverse of a statement that raised is not queued.
BatchStandalone_Succeeded ==
  /\ BatchStep
  /\ ~inTxn /\ Standalone(pos)
  /\ \E o \in Outcomes(pos) :
       /\ Run(pos, o, FALSE) /\ Advance(o)
       /\ undo' = IF mode = "direct" /\ Reversible(pos) /\ ~Raises(o)
                  THEN undo \cup {pos} ELSE undo
  /\ noted' = IF mode = "direct" /\ ~Reversible(pos) THEN noted \cup {pos} ELSE noted
  /\ UNCHANGED <<inTxn, reply>>

\* In "direct" mode the reverse is queued, or the result noted, also for a
\* statement that raised.
BatchStandalone ==
  /\ BatchStep
  /\ ~inTxn /\ Standalone(pos)
  /\ \E o \in Outcomes(pos) : Run(pos, o, FALSE) /\ Advance(o)
  /\ undo' = IF mode = "direct" /\ Reversible(pos) THEN undo \cup {pos} ELSE undo
  /\ noted' = IF mode = "direct" /\ ~Reversible(pos) THEN noted \cup {pos} ELSE noted
  /\ UNCHANGED <<inTxn, reply>>

BatchInTxn ==
  /\ BatchStep
  /\ inTxn /\ ~Standalone(pos)
  /\ \E o \in Outcomes(pos) : Run(pos, o, TRUE) /\ Advance(o)
  /\ UNCHANGED <<noted, inTxn, undo, reply>>

\* Mutant: the finally block commits.
EndBatch_Commits ==
  /\ pc = "finally"
  /\ durable' = durable \cup pending
  /\ pending' = {} /\ inTxn' = FALSE
  /\ IF undo = {} THEN Answer("success") ELSE pc' = "undo" /\ UNCHANGED reply
  /\ UNCHANGED <<mode, batch, pos, failed, noted, damaged, undo, destroy>>

\* The finally block rolls back; reverse DDL follows where there is any.
EndBatch ==
  /\ pc = "finally"
  /\ Rollback
  /\ IF undo = {} THEN Answer("success") ELSE pc' = "undo" /\ UNCHANGED reply
  /\ UNCHANGED <<mode, batch, pos, failed, noted, undo, destroy>>

\* begin_transaction or a rollback raises: the exception passes the reverse
\* statements by.  The database drops the transaction of a lost connection.
BatchRaises ==
  /\ "connectionLost" \in Event
  /\ ~Single /\ mode # "ephemeral"
  /\ \/ pc = "run" /\ pos \in Statements /\ inTxn = Standalone(pos)
     \/ pc = "finally" /\ inTxn
  /\ Rollback
  /\ Answer("error")
  /\ UNCHANGED <<mode, batch, pos, failed, noted, undo, destroy>>

\* Mutant: the reverses are executed in the order of the statements.
BatchUndo_Forward ==
  /\ pc = "undo" /\ ~Single
  /\ undo # {}
  /\ \E i \in undo, raises \in BOOLEAN :
       /\ \A j \in undo : i <= j
       /\ Reverse(i, raises)
       /\ undo' = undo \ {i}
       /\ destroy' = (destroy \/ raises)
  /\ UNCHANGED <<mode, batch, pos, failed, noted, inTxn, reply, pc>>

\* The reverse statements, the last one first.
BatchUndo ==
  /\ pc = "undo" /\ ~Single
  /\ undo # {}
  /\ \E i \in undo, raises \in BOOLEAN :
       /\ \A j \in undo : j <= i
       /\ Reverse(i, raises)
       /\ undo' = undo \ {i}
       /\ destroy' = (destroy \/ raises)
  /\ UNCHANGED <<mode, batch, pos, failed, noted, inTxn, reply, pc>>

BatchUndone ==
  /\ pc = "undo" /\ ~Single
  /\ undo = {}
  /\ Answer("success")
  /\ UNCHANGED <<mode, batch, pos, failed, noted, inTxn, db, undo, destroy>>

(***************************************************************************)
(* The ephemeral path: no transaction and nothing taken back               *)
(***************************************************************************)
EphemeralStatement ==
  /\ pc = "run" /\ mode = "ephemeral"
  /\ \E o \in Outcomes(pos) :
       /\ Run(pos, o, FALSE)
       /\ pos' = pos + 1
       /\ failed' = IF Raises(o) THEN failed \cup {pos} ELSE failed
       /\ IF Raises(o) \/ pos + 1 \notin Statements
          THEN Answer(IF Single THEN Fate(o) ELSE "success")
          ELSE UNCHANGED <<reply, pc>>
  /\ UNCHANGED <<mode, batch, noted, inTxn, undo, destroy>>

\* The request was answered.
Idle ==
  /\ pc = "done"
  /\ UNCHANGED vars

ExecuteSingle == SingleDDL \/ SingleUndo \/ SingleNonTxn \/ SingleRolledBack

ExecuteBatch ==
  \/ CloseTxn \/ BeginTxn \/ BatchStandalone \/ BatchInTxn
  \/ EndBatch \/ BatchRaises \/ BatchUndo \/ BatchUndone

Next == ExecuteSingle \/ ExecuteBatch \/ EphemeralStatement \/ Idle

Spec == Init /\ [][Next]_vars

(***************************************************************************)
(* Safety                                                                  *)
(***************************************************************************)
\* Every statement of the request can run in a transaction and none commits it.
AllInTxn ==
  mode = "txnDDL" /\ \A i \in Statements : ~NonTxn(i) /\ batch[i] # "commits"

\* Such a request gives its container back as it was, whatever statement fails
\* or times out and wherever the connection is lost.
TxnLeavesNothing == AllInTxn /\ pc = "done" => durable = {} /\ pending = {} /\ ~damaged

\* Every statement can be rolled back or has a reverse that takes it back.
AllReversed == mode = "direct" /\ \A i \in Statements : batch[i] \in {"dml", "ddl"}

\* Without DDL transactions such a request, when it is answered with success and
\* its lease not marked, leaves nothing of its own, also one that stopped at an
\* error; and nothing older is gone unless one of its DDL statements raised,
\* whose reverse was executed all the same.
ReverseLeavesNothing ==
  AllReversed /\ pc = "done" /\ reply = "success" /\ ~destroy =>
    /\ durable = {} /\ pending = {}
    /\ damaged => \E i \in failed : Reversible(i)

\* What can be rolled back never becomes durable, although the loop opens and
\* closes transactions around standalone statements: a durable change was
\* made by a standalone statement or has a committing one at or after it.
DmlRolledBack ==
  mode # "ephemeral" =>
    \A i \in durable :
      Standalone(i) \/ \E j \in Statements : j >= i /\ batch[j] = "commits"

\* Until the container is marked, every durable change of a batch that a reverse
\* takes back still has that reverse queued, also if its statement timed out.
UndoCovers ==
  mode = "direct" /\ ~Single /\ ~destroy =>
    {i \in durable : batch[i] = "ddl"} \subseteq undo

\* A DDL statement is reversed before the ones that it may depend on.
UndoOrder ==
  [][\A i \in durable \ durable' : \A j \in durable' \cap undo' : j < i]_vars

\* After an error the batch executes nothing.
ErrorEndsBatch == \A i \in failed : pos = i + 1

(***************************************************************************)
(* What a comment says and the code does not do                            *)
(***************************************************************************)
\* A reverse statement undoes the statement it was generated for, and nothing
\* that was in the container before.
UndoOnlyOwn == ~damaged
=============================================================================
