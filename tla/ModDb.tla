-------------------------------- MODULE ModDb --------------------------------
(***************************************************************************)
(* class mhwimm_db: one registered operation, one record that is both the  *)
(* operand and the result, and at most one SELECT that is read row by row. *)
(*                                                                         *)
(* A call is a step.  The id of a row is its rowid: the column unused_id   *)
(* is no alias of it and stays NULL.  An INSERT takes the largest rowid    *)
(* plus one, and a SELECT scans in the order of the rowids.  The date of a *)
(* row is left out, that it is set is not.  A SELECT is bound to the       *)
(* buffer of the record (SQLITE_STATIC), so that going on with it compares *)
(* with the name that is there by then; mod names are taken to be of one   *)
(* length, other than that of Bug.                                         *)
(***************************************************************************)
EXTENDS Naturals, FiniteSets, FiniteSetsExt

CONSTANTS
  Names,        \* mod names
  Paths,        \* paths below the game's root
  Bug           \* what an unset field holds

VARIABLES
  table,
  current_op, record_buf, current_status, more_rows, sql_stmt

dbVars == <<table, current_op, record_buf, current_status, more_rows, sql_stmt>>

ASSUME DbAssumption == Bug \notin Names \cup Paths

Ops    == {"NOP", "ASK", "ADD", "DEL"}
Status == {"IDLE", "WORKING", "ERROR"}
Fields == {"name", "path", "date"}
Rows   == [id : Nat, name : Names, path : Paths]
Record == [name : Names \cup {Bug}, path : Paths \cup {Bug}, set : SUBSET Fields]

ZeroRecord == [name |-> Bug, path |-> Bug, set |-> {}]
NoStmt == [where |-> {}, at |-> 0]

\* The rows of a WHERE over the fields that are set.  Values are bound only if
\* the name is one of them: an unbound parameter is NULL and equals nothing.
Matches(row, where, buf) ==
  \/ where = {}
  \/ /\ "name" \in where
     /\ row.name = buf.name
     /\ "path" \in where => row.path = buf.path

DbInit ==
  /\ table = {}
  /\ current_op = "NOP"
  /\ record_buf = ZeroRecord
  /\ current_status = "IDLE"
  /\ more_rows = FALSE
  /\ sql_stmt = NoStmt

(* The operations.                                                          *)

registerDBOperation(op, operand) ==
  /\ current_op' = op
  /\ record_buf' = operand
  /\ current_status' = "IDLE"
  /\ UNCHANGED <<table, more_rows, sql_stmt>>

resetDB == registerDBOperation("NOP", ZeroRecord)

chgDBStatus(s) ==
  /\ current_status' = s
  /\ UNCHANGED <<table, current_op, record_buf, more_rows, sql_stmt>>

\* How a call ends other than with a row: the statement, if any, is finalized.
Complete(status) ==
  /\ current_status' = status
  /\ more_rows' = FALSE
  /\ sql_stmt' = NoStmt

\* Label more_row: one step of a SELECT that has passed the row at.
FetchRow(where, at, buf, fails) ==
  LET rest == {row \in table : row.id > at /\ Matches(row, where, buf)} IN
  /\ UNCHANGED table
  /\ \/ /\ fails
        /\ Complete("ERROR")
        /\ record_buf' = buf
     \/ /\ ~fails
        /\ rest = {}
        /\ Complete("IDLE")
        /\ record_buf' = buf
     \/ /\ ~fails
        /\ \E row \in rest :
             /\ \A other \in rest : row.id <= other.id
             /\ sql_stmt' = [where |-> where, at |-> row.id]
             /\ record_buf' = [buf EXCEPT !.name = row.name, !.path = row.path]
        /\ current_status' = "WORKING"
        /\ more_rows' = TRUE

NextId == 1 + Max({row.id : row \in table} \cup {0})

ExecuteNop(op) ==
  /\ op = "NOP"
  /\ current_status' = "IDLE"
  /\ UNCHANGED <<table, more_rows, sql_stmt>>

\* Whatever the operation is: the SELECT left open goes on.
ResumeSelect(op, buf, fails) ==
  /\ op # "NOP"
  /\ more_rows
  /\ FetchRow(sql_stmt.where, sql_stmt.at, buf, fails)

StartSelect(op, buf, fails) ==
  /\ op = "ASK"
  /\ ~more_rows
  /\ FetchRow(buf.set, 0, buf, fails)

LacksValues(op, buf) ==
  /\ op = "ADD"
  /\ ~more_rows
  /\ buf.set # Fields
  /\ current_status' = "ERROR"
  /\ UNCHANGED <<table, more_rows, sql_stmt>>

Insert(op, buf, fails) ==
  /\ op = "ADD"
  /\ ~more_rows
  /\ buf.set = Fields
  /\ \/ /\ fails
        /\ Complete("ERROR")
        /\ UNCHANGED table
     \/ /\ ~fails
        /\ Complete("IDLE")
        /\ table' = table \cup {[id |-> NextId, name |-> buf.name, path |-> buf.path]}

Delete(op, buf, fails) ==
  /\ op = "DEL"
  /\ ~more_rows
  /\ \/ /\ fails
        /\ Complete("ERROR")
        /\ UNCHANGED table
     \/ /\ ~fails
        /\ Complete("IDLE")
        /\ table' = {row \in table : ~Matches(row, buf.set, buf)}

\* registerDBOperation(op, buf) and executeDBOperation() in one step; fails says
\* whether preparing, binding or stepping the statement does.
RegisterAndExecute(op, buf, fails) ==
  /\ current_op' = op
  /\ \/ ResumeSelect(op, buf, fails)
     \/ StartSelect(op, buf, fails)
     \/ /\ \/ ExecuteNop(op)
           \/ LacksValues(op, buf)
           \/ Insert(op, buf, fails)
           \/ Delete(op, buf, fails)
        /\ record_buf' = buf

executeDBOperation(fails) == RegisterAndExecute(current_op, record_buf, fails)

\* closeDB, or the end of the process, and openDB.
Reopen ==
  /\ current_op' = "NOP"
  /\ record_buf' = ZeroRecord
  /\ current_status' = "IDLE"
  /\ more_rows' = FALSE
  /\ sql_stmt' = NoStmt
  /\ UNCHANGED table

DbTypeOK ==
  /\ table \subseteq Rows
  /\ current_op \in Ops
  /\ record_buf \in Record
  /\ current_status \in Status
  /\ more_rows \in BOOLEAN
  /\ sql_stmt \in [where : SUBSET Fields, at : Nat]
===============================================================================
