---------------------------- MODULE ModStoreProofs ----------------------------
(***************************************************************************)
(* Whatever is typed, fails or is killed: no write to the database is      *)
(* taken for the rest of an ASK, and of the files of the game only those   *)
(* are ever removed that the mods, the faults and the roots expose.        *)
(***************************************************************************)
EXTENDS ModStore, FiniteSetTheorems, WellFoundedInduction, TLAPS

-------------------------------------------------------------------------------
(* Writes never resume.                                                    *)

\* An ASK that has succeeded has been read to its end, and what follows it, up
\* to the writes, leaves the handler alone; uninstall as the undo does not lead
\* to a write.
NoOpenSelect ==
  /\ pc = "ask" => current_op = "ASK"
  /\ pc = "stat" => current_op = "ASK"
  /\ pc = "asked" => current_status = "ERROR" \/ ~more_rows
  /\ pc \in {"execute", "check", "mkdir", "link", "add", "add_undo", "del"} => ~more_rows
  /\ pc \in {"unlink", "rmdir"} => undoing \/ ~more_rows

\* One step of an ASK leaves a row, or no SELECT.
LEMMA AskStep ==
  ASSUME NEW fails, current_op = "ASK", executeDBOperation(fails)
  PROVE  /\ current_op' = "ASK"
         /\ current_status' \in Status
         /\ current_status' # "WORKING" => ~more_rows'
BY DEF executeDBOperation, RegisterAndExecute, ResumeSelect, StartSelect,
       ExecuteNop, LacksValues, Insert, Delete, FetchRow, Complete, Status

\* A write that does not resume a SELECT leaves none.
LEMMA WriteStep ==
  ASSUME NEW op \in {"ADD", "DEL"}, NEW buf, NEW fails, ~more_rows,
         RegisterAndExecute(op, buf, fails)
  PROVE  ~more_rows'
BY DEF RegisterAndExecute, ResumeSelect, StartSelect, ExecuteNop, LacksValues,
       Insert, Delete, Complete

LEMMA NoOpenSelectStep ==
  ASSUME NoOpenSelect, [Next]_vars
  PROVE  NoOpenSelect'
<1> USE DEF NoOpenSelect, Goto, Loop, Answer, Advance, dbVars, lists, request
<1>1. CASE Request
  BY <1>1 DEF Request, registerDBOperation
<1>2. CASE FetchName
  <2>1. PICK fails : executeDBOperation(fails)
    BY <1>2 DEF FetchName
  <2> QED
    BY <1>2, <2>1, AskStep DEF FetchName
<1>3. CASE FetchPath
  <2>1. PICK fails : executeDBOperation(fails)
    BY <1>3 DEF FetchPath
  <2> QED
    BY <1>3, <2>1, AskStep DEF FetchPath
<1>4. CASE StatRow
  BY <1>4 DEF StatRow, chgDBStatus
<1>5. CASE Asked
  BY <1>5 DEF Asked, RoundFails, BeginUninstall, resetDB, registerDBOperation
<1>6. CASE Traverse \/ Check \/ Mkdir \/ MkdirsDone \/ Link \/ RbUnlink
           \/ RbUnlinksDone \/ RbRmdir \/ RolledBack \/ AddsDone \/ BeginsUninstall
           \/ Unlink \/ UnlinksDone \/ Rmdir \/ UninstallFails \/ Undone \/ Installed
  BY <1>6 DEF Traverse, Check, Mkdir, MkdirsDone, Link, RbUnlink, RbUnlinksDone,
     RbRmdir, RolledBack, AddsDone, BeginsUninstall, BeginUninstall, Unlink,
     UnlinksDone, Rmdir, UninstallFails, Undone, Installed, RollbackDirectories
<1>7. CASE LinksDone \/ FilesRemoved
  BY <1>7 DEF LinksDone, FilesRemoved, registerDBOperation
<1>8. CASE Add
  <2>1. PICK buf, fails : RegisterAndExecute("ADD", buf, fails)
    BY <1>8 DEF Add
  <2>2. ~more_rows'
    BY <1>8, <2>1, WriteStep DEF Add
  <2> QED
    BY <1>8, <2>2 DEF Add
<1>9. CASE AddUndo \/ AddFailed \/ Del
  BY <1>9 DEF AddUndo, AddFailed, Del
<1>10. CASE After
  BY <1>10 DEF After, RoundFails, BeginUninstall
<1>11. CASE Answered \/ Quit \/ Kill
  BY <1>11 DEF Answered, Quit, Kill, ToIdle
<1>12. CASE Config
  BY <1>12 DEF Config
<1>13. CASE UNCHANGED vars
  BY <1>13 DEF vars
<1> QED
  BY <1>1, <1>2, <1>3, <1>4, <1>5, <1>6, <1>7, <1>8, <1>9, <1>10, <1>11, <1>12, <1>13
     DEF Next, Command

\* No INSERT or DELETE is carried out as the rest of an ASK: with every fault, and
\* killed at any step.
THEOREM NoWriteResumes == Spec => []WritesNeverResume
<1>1. Init => NoOpenSelect
  BY DEF Init, NoOpenSelect
<1>2. NoOpenSelect => WritesNeverResume
  BY DEF NoOpenSelect, WritesNeverResume
<1> QED
  BY <1>1, <1>2, NoOpenSelectStep, PTL DEF Spec

-------------------------------------------------------------------------------
(* The game is kept.                                                       *)

RowsExposed == \A row \in table : row.name \in Names \cup {Bug} /\ row.path \in Exposed

\* What the steps need of the types.
Types ==
  /\ record_buf \in Record
  /\ env \in Environments
  /\ cmd \in env.requests \cup {NoCmd}
  /\ mhwiroot \in env.roots
  /\ fs \in [Roots -> [Paths -> Kinds]]

\* Only exposed paths are ever on record or up for an unlink: install lists them
\* after the conflict check, do_DB_ask from the records.
ListsExposed ==
  /\ pc = "stat" => record_buf.path \in Exposed
  /\ pc = "check" => regular_file_list \in Seq(ModFiles)
  /\ pc \notin {"check", "reply"} => regular_file_list \in Seq(Exposed)
  /\ pc \in {"check", "mkdir", "link"} => directory_list \in Seq(Exposed)
  /\ pc \in {"rb_unlink", "add", "unlink"} => todo \in Seq(Exposed)

\* What executeDBOperation is called for is no INSERT.
Registered ==
  /\ pc \in {"ask", "stat"} => current_op = "ASK"
  /\ pc = "del" => current_op = "DEL"

Safe == Types /\ RowsExposed /\ ListsExposed /\ Registered /\ GameKept

(* What is exposed does not change, and is a set of paths.                 *)

LEMMA ExposedStays ==
  ASSUME [Next]_vars
  PROVE  env' = env /\ Exposed' = Exposed
<1>1. env' = env
  BY DEF Next, Command, Request, FetchName, FetchPath, StatRow, Asked, Traverse, Check,
     Mkdir, MkdirsDone, Link, LinksDone, RbUnlink, RbUnlinksDone, RbRmdir, RolledBack,
     Add, AddsDone, AddUndo, AddFailed, After, BeginsUninstall, Unlink, UnlinksDone,
     Rmdir, UninstallFails, Undone, FilesRemoved, Del, Installed, Answered, Quit, Kill,
     Config, ToIdle, request, vars
<1> QED
  BY <1>1 DEF Exposed

LEMMA ExposedPaths ==
  /\ Exposed \subseteq Paths
  /\ ModFiles \subseteq Paths
  /\ \A d \in Dirs : Listing[d].files \in Seq(ModFiles) /\ Listing[d].dirs \in Seq(Exposed)
<1>1. /\ \A d \in Dirs : Listing[d].files \in Seq(Paths) /\ Listing[d].dirs \in Seq(Paths)
      /\ ModFiles \subseteq Paths /\ ModDirs \subseteq Paths
  BY StoreAssumption DEF ModFiles, ModDirs, ToSet
<1>2. ASSUME NEW d \in Dirs
      PROVE  Listing[d].files \in Seq(ModFiles) /\ Listing[d].dirs \in Seq(ModDirs)
  BY <1>1, <1>2 DEF ModFiles, ModDirs, ToSet
<1>3. ModDirs \subseteq Exposed
  BY DEF Exposed
<1>4. \A s \in Seq(ModDirs) : s \in Seq(Exposed)
  BY <1>3
<1> QED
  BY <1>1, <1>2, <1>4 DEF Exposed

(* The handler returns and stores exposed paths only.                      *)

LEMMA FetchExposed ==
  ASSUME NEW where, NEW at, NEW buf \in Record, NEW fails, RowsExposed,
         FetchRow(where, at, buf, fails)
  PROVE  /\ record_buf' \in Record
         /\ table' = table
         /\ current_status' = "WORKING" => record_buf'.path \in Exposed
<1>1. CASE current_status' # "WORKING"
  BY <1>1 DEF FetchRow, Complete
<1>2. CASE current_status' = "WORKING"
  <2>1. PICK row \in table : record_buf' = [buf EXCEPT !.name = row.name, !.path = row.path]
    BY <1>2 DEF FetchRow, Complete
  <2>2. row.name \in Names \cup {Bug} /\ row.path \in Paths /\ row.path \in Exposed
    BY ExposedPaths DEF RowsExposed
  <2>3. record_buf' = [name |-> row.name, path |-> row.path, set |-> buf.set]
    BY <2>1 DEF Record
  <2> QED
    BY <1>2, <2>2, <2>3 DEF Record, FetchRow
<1> QED
  BY <1>1, <1>2

LEMMA ExecuteExposed ==
  ASSUME NEW op, NEW buf \in Record, NEW fails, RowsExposed,
         Exposed' = Exposed,
         op = "ADD" => buf.path \in Exposed,
         RegisterAndExecute(op, buf, fails)
  PROVE  /\ record_buf' \in Record
         /\ RowsExposed'
         /\ op = "ASK" /\ current_status' = "WORKING" => record_buf'.path \in Exposed
<1>1. CASE ResumeSelect(op, buf, fails) \/ StartSelect(op, buf, fails)
  BY <1>1, FetchExposed DEF ResumeSelect, StartSelect, RowsExposed
<1>2. CASE record_buf' = buf /\ (ExecuteNop(op) \/ LacksValues(op, buf))
  BY <1>2 DEF ExecuteNop, LacksValues, RowsExposed
<1>3. CASE record_buf' = buf /\ Insert(op, buf, fails)
  <2>1. \A row \in table' :
          row \in table \/ row = [id |-> NextId, name |-> buf.name, path |-> buf.path]
    BY <1>3 DEF Insert
  <2>2. buf.name \in Names \cup {Bug} /\ op = "ADD"
    BY <1>3 DEF Record, Insert
  <2>3. RowsExposed'
    BY <2>1, <2>2 DEF RowsExposed
  <2> QED
    BY <1>3, <2>2, <2>3
<1>4. CASE record_buf' = buf /\ Delete(op, buf, fails)
  BY <1>4 DEF Delete, RowsExposed
<1> QED
  BY <1>1, <1>2, <1>3, <1>4 DEF RegisterAndExecute

(* A call to the file system keeps the game if it makes a file, finds none *)
(* or goes to an exposed path.                                             *)

LEMMA PutKeepsGame ==
  ASSUME Types, GameKept, Exposed' = Exposed, NEW p, NEW kind \in Kinds, Put(p, kind),
         p \in Exposed \/ tree[p] # "file" \/ kind = "file"
  PROVE  fs' \in [Roots -> [Paths -> Kinds]] /\ GameKept'
<1>1. mhwiroot \in Roots /\ fs \in [Roots -> [Paths -> Kinds]]
  BY StoreAssumption DEF Types
<1>2. fs' = [fs EXCEPT ![mhwiroot] = [fs[mhwiroot] EXCEPT ![p] = kind]]
  BY DEF Put
<1>3. fs' \in [Roots -> [Paths -> Kinds]]
  BY <1>1, <1>2
<1>4. ASSUME NEW r \in Roots, NEW q \in Paths, Game[r][q] = "file", fs'[r][q] # "file"
      PROVE  q \in Exposed
  <2>1. CASE fs[r][q] # "file"
    BY <1>4, <2>1 DEF GameKept
  <2>2. CASE fs[r][q] = "file"
    <3>1. r = mhwiroot /\ q = p /\ kind # "file"
      BY <1>1, <1>2, <1>4, <2>2
    <3> QED
      BY <2>2, <3>1 DEF tree
  <2> QED
    BY <2>1, <2>2
<1> QED
  BY <1>3, <1>4 DEF GameKept

(* Every step.                                                             *)

LEMMA SafeInit == Init => Safe
<1> SUFFICES ASSUME Init PROVE Safe
  OBVIOUS
<1>1. Types
  BY StoreAssumption DEF Init, DbInit, Types, Record, ZeroRecord
<1>2. RowsExposed /\ Registered /\ GameKept
  BY DEF Init, DbInit, RowsExposed, Registered, GameKept
<1>3. ListsExposed
  BY DEF Init, ListsExposed
<1> QED
  BY <1>1, <1>2, <1>3 DEF Safe

LEMMA SafeStep ==
  ASSUME Safe, [Next]_vars
  PROVE  Safe'
<1> USE DEF Goto, Loop, Answer, Advance, dbVars, lists, request
<1>0. /\ Types /\ RowsExposed /\ ListsExposed /\ Registered /\ GameKept
      /\ ZeroRecord \in Record
      /\ \A n \in Names : NameOnly(n) \in Record
      /\ env.roots \subseteq Roots
      /\ \A c \in env.requests : c.op \in StoreOps /\ c.name \in Names /\ c.dir \in Dirs
      /\ env' = env /\ Exposed' = Exposed
  BY StoreAssumption, ExposedStays DEF Safe, Types, Record, ZeroRecord, NameOnly, Fields
<1>1. CASE Request
  <2>1. cmd' \in env.requests /\ record_buf' \in Record /\ current_op' = "ASK"
    BY <1>0, <1>1 DEF Request, registerDBOperation
  <2> QED
    BY <1>0, <1>1, <2>1
       DEF Request, registerDBOperation, Safe, Types, RowsExposed, ListsExposed, Registered, GameKept
<1>2. CASE FetchName \/ FetchPath
  <2>1. PICK fails : RegisterAndExecute(current_op, record_buf, fails)
    BY <1>2 DEF FetchName, FetchPath, executeDBOperation
  <2>2. pc = "ask" /\ current_op = "ASK"
    BY <1>0, <1>2 DEF FetchName, FetchPath, Registered
  <2>3. /\ record_buf' \in Record /\ RowsExposed'
        /\ current_status' = "WORKING" => record_buf'.path \in Exposed
    BY <1>0, <2>1, <2>2, ExecuteExposed DEF Types
  <2>4. current_op' = "ASK"
    BY <2>1, <2>2 DEF RegisterAndExecute
  <2> QED
    BY <1>0, <1>2, <2>2, <2>3, <2>4
       DEF FetchName, FetchPath, Safe, Types, ListsExposed, Registered, GameKept
<1>3. CASE StatRow
  <2>1. pc = "stat" /\ record_buf.path \in Exposed /\ regular_file_list \in Seq(Exposed)
    BY <1>0, <1>3 DEF StatRow, ListsExposed
  <2>2. regular_file_list' \in Seq(Exposed)
    <3>1. <<record_buf.path>> \o regular_file_list \in Seq(Exposed)
      BY <2>1
    <3> QED
      BY <1>3, <2>1, <3>1 DEF StatRow, ListFile, ListDirectory
  <2>3. pc' \in {"ask", "asked"} /\ (pc' = "ask" => current_op' = "ASK")
    BY <1>0, <1>3 DEF StatRow, chgDBStatus, Registered
  <2> QED
    BY <1>0, <1>3, <2>2, <2>3
       DEF StatRow, chgDBStatus, Safe, Types, RowsExposed, ListsExposed, Registered, GameKept
<1>4. CASE Asked \/ After
  BY <1>0, <1>4
     DEF Asked, After, RoundFails, BeginUninstall, resetDB, registerDBOperation,
         Safe, Types, RowsExposed, ListsExposed, Registered, GameKept
<1>5. CASE Traverse
  <2>1. cmd \in env.requests /\ cmd.dir \in Dirs
    BY <1>0, <1>5 DEF Traverse, Types, NoCmd
  <2>2. Listing[cmd.dir].files \in Seq(ModFiles) /\ Listing[cmd.dir].dirs \in Seq(Exposed)
    BY <2>1, ExposedPaths
  <2> QED
    BY <1>0, <1>5, <2>2
       DEF Traverse, Safe, Types, RowsExposed, ListsExposed, Registered, GameKept
<1>6. CASE Check
  <2>1. regular_file_list \in Seq(ModFiles) /\ directory_list \in Seq(Exposed)
    BY <1>0, <1>6 DEF Check, ListsExposed
  <2>2. ASSUME Conflict => "stat" \in env.faults
        PROVE  regular_file_list \in Seq(Exposed)
    <3>1. CASE "stat" \in env.faults
      <4>1. ModFiles \subseteq Exposed
        BY <3>1 DEF Exposed
      <4> QED
        BY <2>1, <4>1
    <3>2. CASE ~Conflict
      <4>1. ASSUME NEW i \in DOMAIN regular_file_list
            PROVE  regular_file_list[i] \in Exposed
        <5> DEFINE p == regular_file_list[i]
        <5>1. p \in ModFiles /\ p \in Paths
          BY <2>1, ExposedPaths
        <5>2. fs[mhwiroot][p] = "none"
          BY <3>2 DEF Conflict, tree
        <5>3. mhwiroot \in env.roots /\ mhwiroot \in Roots
          BY <1>0 DEF Types
        <5>4. CASE Game[mhwiroot][p] = "file"
          BY <1>0, <5>1, <5>2, <5>3, <5>4 DEF GameKept
        <5>5. CASE Game[mhwiroot][p] # "file"
          BY <5>1, <5>3, <5>5 DEF Exposed
        <5> QED
          BY <5>4, <5>5
      <4> QED
        BY <2>1, <4>1
    <3> QED
      BY <2>2, <3>1, <3>2
  <2> QED
    BY <1>0, <1>6, <2>1, <2>2
       DEF Check, Safe, Types, RowsExposed, ListsExposed, Registered, GameKept
<1>7. CASE Mkdir
  <2>1. fs' \in [Roots -> [Paths -> Kinds]] /\ GameKept'
    <3>1. CASE UNCHANGED fs
      BY <1>0, <1>7, <3>1 DEF Mkdir, Types, GameKept
    <3>2. CASE CanCreate(Head(todo)) /\ Put(Head(todo), "dir")
      BY <1>0, <3>2, PutKeepsGame DEF CanCreate, Kinds
    <3> QED
      BY <1>7, <3>1, <3>2 DEF Mkdir
  <2> QED
    BY <1>0, <1>7, <2>1
       DEF Mkdir, RollbackDirectories, Safe, Types, RowsExposed, ListsExposed, Registered
<1>8. CASE Link
  <2>1. fs' \in [Roots -> [Paths -> Kinds]] /\ GameKept'
    <3>1. CASE UNCHANGED fs
      BY <1>0, <1>8, <3>1 DEF Link, Types, GameKept
    <3>2. CASE CanCreate(Head(todo)) /\ Put(Head(todo), "file")
      BY <1>0, <3>2, PutKeepsGame DEF Kinds
    <3> QED
      BY <1>8, <3>1, <3>2 DEF Link
  <2> QED
    BY <1>0, <1>8, <2>1
       DEF Link, Safe, Types, RowsExposed, ListsExposed, Registered
<1>9. CASE RbRmdir \/ Rmdir
  <2>1. fs' \in [Roots -> [Paths -> Kinds]] /\ GameKept'
    <3>1. CASE UNCHANGED fs
      BY <1>0, <1>9, <3>1 DEF RbRmdir, Rmdir, Types, GameKept
    <3>2. CASE CanRmdir(Head(todo)) /\ Put(Head(todo), "none")
      BY <1>0, <3>2, PutKeepsGame DEF CanRmdir, Kinds
    <3> QED
      BY <1>9, <3>1, <3>2 DEF RbRmdir, Rmdir
  <2> QED
    BY <1>0, <1>9, <2>1
       DEF RbRmdir, Rmdir, Safe, Types, RowsExposed, ListsExposed, Registered
<1>10. CASE RbUnlink \/ Unlink
  <2>1. Head(todo) \in Exposed /\ Tail(todo) \in Seq(Exposed)
    BY <1>0, <1>10 DEF RbUnlink, Unlink, ListsExposed
  <2>2. fs' \in [Roots -> [Paths -> Kinds]] /\ GameKept'
    <3>1. CASE UNCHANGED fs
      BY <1>0, <1>10, <3>1 DEF RbUnlink, Unlink, Types, GameKept
    <3>2. CASE Put(Head(todo), "none")
      BY <1>0, <2>1, <3>2, PutKeepsGame DEF Kinds
    <3> QED
      BY <1>10, <3>1, <3>2 DEF RbUnlink, Unlink
  <2> QED
    BY <1>0, <1>10, <2>1, <2>2
       DEF RbUnlink, Unlink, Safe, Types, RowsExposed, ListsExposed, Registered
<1>11. CASE MkdirsDone \/ RbUnlinksDone \/ RolledBack \/ AddsDone \/ BeginsUninstall
            \/ UnlinksDone \/ UninstallFails \/ Undone \/ Installed
  BY <1>0, <1>11
     DEF MkdirsDone, RbUnlinksDone, RollbackDirectories, RolledBack, AddsDone,
         BeginsUninstall, BeginUninstall, UnlinksDone, UninstallFails, Undone, Installed,
         Safe, Types, RowsExposed, ListsExposed, Registered, GameKept
<1>12. CASE LinksDone
  <2>1. cmd \in env.requests \cup {NoCmd} /\ pc = "link"
    BY <1>0, <1>12 DEF LinksDone, Types
  <2>2. NameOnly(cmd.name) \in Record
    BY <1>0, <2>1 DEF Record, NameOnly, NoCmd, Fields
  <2>3. EntriesToAdd \in Seq(Exposed)
    BY <1>0, <2>1 DEF EntriesToAdd, ListsExposed
  <2> QED
    BY <1>0, <1>12, <2>2, <2>3
       DEF LinksDone, registerDBOperation, Safe, Types, RowsExposed, ListsExposed, Registered, GameKept
<1>13. CASE FilesRemoved
  <2>1. NameOnly(cmd.name) \in Record
    BY <1>0 DEF Record, NameOnly, NoCmd, Fields, Types
  <2> QED
    BY <1>0, <1>13, <2>1
       DEF FilesRemoved, registerDBOperation, Safe, Types, RowsExposed, ListsExposed, Registered, GameKept
<1>14. CASE Add
  <2>1. Head(todo) \in Exposed /\ Tail(todo) \in Seq(Exposed)
    BY <1>0, <1>14 DEF Add, ListsExposed
  <2> DEFINE buf == [name |-> record_buf.name, path |-> Head(todo), set |-> Fields]
  <2>2. buf \in Record /\ buf.path \in Exposed
    BY <1>0, <2>1, ExposedPaths DEF Record, Types
  <2>3. PICK fails : RegisterAndExecute("ADD", buf, fails)
    BY <1>14 DEF Add
  <2>4. record_buf' \in Record /\ RowsExposed'
    <3> HIDE DEF buf
    <3> QED
      BY <1>0, <2>2, <2>3, ExecuteExposed
  <2> QED
    BY <1>0, <1>14, <2>1, <2>4
       DEF Add, Safe, Types, ListsExposed, Registered, GameKept
<1>15. CASE AddUndo \/ Del
  <2>1. record_buf \in Record /\ [record_buf EXCEPT !.set = {"name"}] \in Record
    <3>1. record_buf \in Record
      BY <1>0 DEF Types
    <3>2. [record_buf EXCEPT !.set = {"name"}]
            = [name |-> record_buf.name, path |-> record_buf.path, set |-> {"name"}]
      BY <3>1 DEF Record
    <3> QED
      BY <3>1, <3>2 DEF Record, Fields
  <2>2. \E fails : \E buf \in Record : RegisterAndExecute("DEL", buf, fails)
    <3>1. CASE AddUndo
      <4> DEFINE buf == [record_buf EXCEPT !.set = {"name"}]
      <4>1. PICK fails : RegisterAndExecute("DEL", buf, fails)
        BY <3>1, Zenon DEF AddUndo
      <4> HIDE DEF buf
      <4> QED
        BY <2>1, <4>1, Zenon DEF buf
    <3>2. CASE Del
      <4>1. current_op = "DEL"
        BY <1>0, <3>2 DEF Del, Registered
      <4> QED
        BY <2>1, <3>2, <4>1, Zenon DEF Del, executeDBOperation
    <3> QED
      BY <1>15, <3>1, <3>2
  <2>3. PICK fails : \E buf \in Record : RegisterAndExecute("DEL", buf, fails)
    BY <2>2
  <2>4. record_buf' \in Record /\ RowsExposed'
    BY <1>0, <2>3, ExecuteExposed
  <2> QED
    BY <1>0, <1>15, <2>4
       DEF AddUndo, Del, Safe, Types, ListsExposed, Registered, GameKept
<1>16. CASE AddFailed
  BY <1>0, <1>16
     DEF AddFailed, chgDBStatus, Safe, Types, RowsExposed, ListsExposed, Registered, GameKept
<1>17. CASE Answered \/ Quit \/ Kill
  <2>1. <<>> \in Seq(Exposed)
    OBVIOUS
  <2>2. ToIdle /\ (UNCHANGED dbVars \/ Reopen)
    BY <1>17 DEF Answered, Quit, Kill
  <2>3. Types' /\ RowsExposed' /\ Registered' /\ GameKept'
    BY <1>0, <2>2 DEF ToIdle, Reopen, Types, RowsExposed, Registered, GameKept
  <2>4. ListsExposed'
    BY <1>0, <2>1, <2>2 DEF ToIdle, ListsExposed
  <2> QED
    BY <2>3, <2>4 DEF Safe
<1>18. CASE Config
  BY <1>0, <1>18
     DEF Config, Safe, Types, RowsExposed, ListsExposed, Registered, GameKept
<1>19. CASE UNCHANGED vars
  BY <1>0, <1>19
     DEF vars, Safe, Types, RowsExposed, ListsExposed, Registered, GameKept
<1> QED
  BY <1>1, <1>2, <1>3, <1>4, <1>5, <1>6, <1>7, <1>8, <1>9, <1>10, <1>11, <1>12, <1>13,
     <1>14, <1>15, <1>16, <1>17, <1>18, <1>19 DEF Next, Command

\* Whatever the mods and the copies of the game are, no command, failure, death or
\* change of the root removes a file of the game but those that are exposed: the
\* conflict check keeps all others from being linked, recorded, listed and so from
\* every rollback and uninstall.
THEOREM GameIsKept == Spec => []GameKept
<1>1. Safe => GameKept
  BY DEF Safe
<1>2. Safe /\ [Next]_vars => Safe'
  BY SafeStep
<1> QED
  BY <1>1, <1>2, SafeInit, PTL DEF Spec

-------------------------------------------------------------------------------
(* What a row's id is, and what unique() leaves.                           *)

\* A bounded set of numbers has a largest one.
LEMMA MaxIsThere ==
  ASSUME NEW S \in SUBSET Nat, S # {}, NEW n \in Nat, \A x \in S : x <= n
  PROVE  Max(S) \in S /\ \A x \in S : x <= Max(S)
<1> DEFINE Bounds == {m \in Nat : \A x \in S : x <= m}
<1>1. n \in Bounds
  OBVIOUS
<1>2. PICK m \in Bounds : \A k \in Bounds : ~(<<k, m>> \in OpToRel(<, Nat))
  BY <1>1, NatLessThanWellFounded, WFMin, Zenon
<1>3. \A k \in Bounds : ~(k < m)
  BY <1>2 DEF OpToRel
<1>4. m \in S
  <2>1. SUFFICES ASSUME m \notin S PROVE FALSE
    OBVIOUS
  <2>2. PICK x \in S : TRUE
    OBVIOUS
  <2>3. m > 0 /\ m - 1 \in Nat
    BY <2>1, <2>2
  <2>4. \A y \in S : y <= m - 1
    BY <2>1, <2>3
  <2> QED
    BY <1>3, <2>3, <2>4
<1>5. \E x \in S : \A y \in S : x >= y
  BY <1>4
<1> QED
  BY <1>5 DEF Max

\* Rows are told apart by their ids, and there is a largest id.
IdsInv ==
  /\ table \subseteq Rows
  /\ \A row \in table : row.id > 0
  /\ \A row, other \in table : row.id = other.id => row = other
  /\ \E n \in Nat : \A row \in table : row.id <= n

LEMMA NextIdIsNew ==
  ASSUME IdsInv
  PROVE  NextId \in Nat /\ NextId > 0 /\ \A row \in table : row.id < NextId
<1> DEFINE S == {row.id : row \in table} \cup {0}
<1>1. S \in SUBSET Nat /\ S # {}
  BY DEF IdsInv, Rows
<1>2. PICK n \in Nat : \A row \in table : row.id <= n
  BY DEF IdsInv
<1>3. \A x \in S : x <= n
  BY <1>2
<1>4. Max(S) \in S /\ \A x \in S : x <= Max(S)
  <2> HIDE DEF S
  <2> QED
    BY <1>1, <1>3, MaxIsThere
<1>5. Max(S) \in Nat /\ \A row \in table : row.id <= Max(S)
  BY <1>1, <1>4
<1>6. NextId = 1 + Max(S)
  BY DEF NextId
<1> HIDE DEF S
<1> QED
  BY <1>5, <1>6 DEF IdsInv, Rows

\* The positions whose entries unique() keeps.
RunStarts(s) == {i \in DOMAIN s : i = 1 \/ s[i] # s[i - 1]}

\* Each place in what unique() leaves stands for one of these positions, and each
\* of them for a place.
LEMMA UniqueTakesStarts ==
  ASSUME NEW S, NEW s \in Seq(S)
  PROVE  /\ DOMAIN Unique(s) = 1..Cardinality(RunStarts(s))
         /\ Cardinality(RunStarts(s)) \in Nat
         /\ \E at \in [DOMAIN Unique(s) -> RunStarts(s)] :
              /\ \A k \in DOMAIN Unique(s) : Unique(s)[k] = s[at[k]]
              /\ \A k, l \in DOMAIN Unique(s) : at[k] = at[l] => k = l
              /\ \A i \in RunStarts(s) : \E k \in DOMAIN Unique(s) : at[k] = i
<1> DEFINE R == RunStarts(s)
           n == Cardinality(R)
           Upto(i) == {j \in R : j <= i}
           rank == [i \in R |-> Cardinality(Upto(i))]
<1>1. R \subseteq 1..Len(s) /\ Len(s) \in Nat
  BY DEF RunStarts
<1>2. IsFiniteSet(R) /\ n \in Nat
  <2>1. IsFiniteSet(1..Len(s))
    BY <1>1, FS_Interval
  <2> QED
    BY <1>1, <2>1, FS_Subset, FS_CardinalityType
<1>3. \A i \in R : rank[i] \in 1..n /\ IsFiniteSet(Upto(i))
  <2> TAKE i \in R
  <2>1. Upto(i) \in SUBSET R /\ i \in Upto(i)
    BY <1>1
  <2>2. IsFiniteSet(Upto(i)) /\ Cardinality(Upto(i)) \in Nat /\ Cardinality(Upto(i)) <= n
    BY <1>2, <2>1, FS_Subset, FS_CardinalityType
  <2>3. Cardinality(Upto(i)) # 0
    BY <2>1, <2>2, FS_EmptySet
  <2> HIDE DEF Upto, n
  <2> QED
    BY <1>2, <2>2, <2>3
<1>4. \A i, j \in R : i < j => rank[i] # rank[j]
  <2> SUFFICES ASSUME NEW i \in R, NEW j \in R, i < j, rank[i] = rank[j] PROVE FALSE
    OBVIOUS
  <2>1. Upto(i) \in SUBSET Upto(j) /\ j \in Upto(j) /\ j \notin Upto(i)
    BY <1>1
  <2> HIDE DEF Upto
  <2>2. Cardinality(Upto(i)) = Cardinality(Upto(j))
    OBVIOUS
  <2>3. Upto(j) = Upto(i)
    BY <1>3, <2>1, <2>2, FS_Subset
  <2> QED
    BY <2>1, <2>3
<1>5. rank \in Injection(R, 1..n)
  <2>1. rank \in [R -> 1..n]
    BY <1>3
  <2>2. \A i, j \in R : rank[i] = rank[j] => i = j
    <3> HIDE DEF rank, R
    <3> QED
      BY <1>1, <1>4
  <2> HIDE DEF rank
  <2> QED
    BY <2>1, <2>2 DEF Injection, IsInjective
<1>6. rank \in Surjection(R, 1..n)
  <2>1. IsFiniteSet(1..n) /\ Cardinality(1..n) = n
    BY <1>2, FS_Interval
  <2> HIDE DEF rank, n, R
  <2> QED
    BY <1>2, <1>5, <2>1, FS_Injection DEF n
<1> DEFINE at == [k \in 1..n |-> CHOOSE i \in R : Cardinality(Upto(i)) = k]
<1>7. \A k \in 1..n : at[k] \in R /\ rank[at[k]] = k
  <2> TAKE k \in 1..n
  <2>1. \E i \in R : rank[i] = k
    BY <1>6 DEF Surjection
  <2>2. \E i \in R : Cardinality(Upto(i)) = k
    BY <2>1
  <2> QED
    BY <2>2
<1>8. Unique(s) = [k \in 1..n |-> s[at[k]]]
  BY DEF Unique, RunStarts
<1>9. \A i \in R : rank[i] \in 1..n /\ at[rank[i]] = i
  <2> HIDE DEF at, rank, n
  <2> QED
    BY <1>3, <1>5, <1>7 DEF Injection, IsInjective
<1>10. at \in [1..n -> R]
  BY <1>7
<1> HIDE DEF at, rank
<1> QED
  BY <1>2, <1>7, <1>8, <1>9, <1>10

LEMMA UniqueIsSeq ==
  ASSUME NEW S, NEW s \in Seq(S)
  PROVE  Unique(s) \in Seq(S)
<1> DEFINE n == Cardinality(RunStarts(s))
<1>1. PICK at \in [DOMAIN Unique(s) -> RunStarts(s)] :
        \A k \in DOMAIN Unique(s) : Unique(s)[k] = s[at[k]]
  BY UniqueTakesStarts
<1>2. n \in Nat /\ DOMAIN Unique(s) = 1..n
  BY UniqueTakesStarts
<1>3. \A k \in 1..n : Unique(s)[k] \in S
  BY <1>1, <1>2 DEF RunStarts
<1>4. Unique(s) = [k \in 1..n |-> Unique(s)[k]]
  BY <1>2 DEF Unique, RunStarts
<1> HIDE DEF n
<1> QED
  BY <1>2, <1>3, <1>4

-------------------------------------------------------------------------------
(* The types.                                                              *)

DbTypes ==
  /\ current_op \in Ops
  /\ record_buf \in Record
  /\ current_status \in Status
  /\ more_rows \in BOOLEAN
  /\ sql_stmt \in [where : SUBSET Fields, at : Nat]

StoreTypes ==
  /\ env \in Environments
  /\ fs \in [Roots -> [Paths -> Kinds]]
  /\ mhwiroot \in env.roots
  /\ pc \in Labels
  /\ cmd \in env.requests \cup {NoCmd}
  /\ interest_field \in {"NONE", "NAME", "PATH"}
  /\ regular_file_list \in Seq(Paths)
  /\ directory_list \in Seq(Paths \cup Names)
  /\ todo \in Seq(Paths \cup Names)
  /\ undoing \in BOOLEAN
  /\ failed \in BOOLEAN
  /\ reply \in {"none", "error", "done", "list"}

\* What makes a row of the table: the name of the command, and paths that come from
\* the mod's directory, although directory_list holds names at times.
ToRecord ==
  /\ pc = "stat" => record_buf.path \in Paths
  /\ pc \in {"check", "mkdir", "link"} => directory_list \in Seq(Paths)
  /\ pc \in {"check", "mkdir", "link", "add", "add_undo"} => cmd.op = "INSTALL"
  /\ pc = "add" => todo \in Seq(Paths) /\ record_buf.name = cmd.name
  /\ pc # "idle" => cmd \in env.requests
  /\ pc = "del" => current_op = "DEL"

TypeInv == IdsInv /\ DbTypes /\ StoreTypes /\ ToRecord

LEMMA CompleteTyped ==
  ASSUME NEW status \in {"IDLE", "ERROR"}, Complete(status)
  PROVE  /\ current_status' \in Status /\ current_status' # "WORKING"
         /\ more_rows' \in BOOLEAN /\ sql_stmt' \in [where : SUBSET Fields, at : Nat]
<1>1. more_rows' = FALSE /\ current_status' = status /\ sql_stmt' = NoStmt
  BY DEF Complete
<1>2. NoStmt \in [where : SUBSET Fields, at : Nat]
  BY DEF NoStmt
<1> QED
  BY <1>1, <1>2 DEF Status

LEMMA FetchTyped ==
  ASSUME IdsInv, DbTypes, NEW where \in SUBSET Fields, NEW at, NEW buf \in Record, NEW fails,
         FetchRow(where, at, buf, fails)
  PROVE  /\ table' = table
         /\ record_buf' \in Record /\ current_status' \in Status
         /\ more_rows' \in BOOLEAN /\ sql_stmt' \in [where : SUBSET Fields, at : Nat]
         /\ current_status' = "WORKING" => record_buf'.name \in Names /\ record_buf'.path \in Paths
<1>1. CASE current_status' # "WORKING"
  <2>1. PICK status \in {"IDLE", "ERROR"} :
          Complete(status) /\ record_buf' = buf /\ table' = table
    BY <1>1 DEF FetchRow
  <2> QED
    BY <1>1, <2>1, CompleteTyped
<1>2. CASE current_status' = "WORKING"
  <2>1. PICK row \in table :
          /\ sql_stmt' = [where |-> where, at |-> row.id]
          /\ record_buf' = [buf EXCEPT !.name = row.name, !.path = row.path]
    BY <1>2 DEF FetchRow, Complete
  <2>2. row.id \in Nat /\ row.name \in Names /\ row.path \in Paths
    BY DEF IdsInv, Rows
  <2>3. record_buf' = [name |-> row.name, path |-> row.path, set |-> buf.set]
    BY <2>1 DEF Record
  <2>4. more_rows' = TRUE /\ table' = table
    BY <1>2 DEF FetchRow, Complete
  <2> QED
    BY <1>2, <2>1, <2>2, <2>3, <2>4 DEF Record, Status
<1> QED
  BY <1>1, <1>2

LEMMA ExecuteTyped ==
  ASSUME IdsInv, DbTypes, NEW op \in Ops, NEW buf \in Record, NEW fails,
         op = "ADD" => ~more_rows /\ buf.name \in Names /\ buf.path \in Paths,
         RegisterAndExecute(op, buf, fails)
  PROVE  /\ IdsInv' /\ DbTypes'
         /\ op = "ASK" /\ current_status' = "WORKING" =>
              record_buf'.name \in Names /\ record_buf'.path \in Paths
<1>0. current_op' = op
  BY DEF RegisterAndExecute
<1>1. CASE ResumeSelect(op, buf, fails) \/ StartSelect(op, buf, fails)
  <2>1. PICK where \in SUBSET Fields : \E at : FetchRow(where, at, buf, fails)
    <3>1. buf.set \in SUBSET Fields /\ sql_stmt.where \in SUBSET Fields
      BY DEF DbTypes, Record
    <3> QED
      BY <1>1, <3>1, Zenon DEF ResumeSelect, StartSelect
  <2> QED
    BY <1>0, <2>1, FetchTyped DEF IdsInv, DbTypes
<1>2. CASE record_buf' = buf /\ (ExecuteNop(op) \/ LacksValues(op, buf))
  BY <1>0, <1>2 DEF ExecuteNop, LacksValues, IdsInv, DbTypes, Status
<1>3. CASE record_buf' = buf /\ Insert(op, buf, fails)
  <2>1. DbTypes' /\ current_status' # "WORKING"
    <3>1. PICK status \in {"IDLE", "ERROR"} : Complete(status)
      BY <1>3 DEF Insert
    <3> QED
      BY <1>0, <1>3, <3>1, CompleteTyped DEF DbTypes
  <2>2. CASE UNCHANGED table
    BY <2>1, <2>2 DEF IdsInv
  <2>3. CASE table' # table
    <3> DEFINE new == [id |-> NextId, name |-> buf.name, path |-> buf.path]
    <3>1. table' = table \cup {new}
      BY <1>3, <2>3 DEF Insert
    <3>2. NextId \in Nat /\ NextId > 0 /\ \A row \in table : row.id < NextId
      BY NextIdIsNew
    <3>3. new \in Rows /\ new.id = NextId
      BY <1>3, <3>2 DEF Rows, Insert
    <3> HIDE DEF new
    <3>4. \A row \in table' : row.id <= NextId
      BY <3>1, <3>2, <3>3 DEF IdsInv, Rows
    <3> QED
      BY <2>1, <3>1, <3>2, <3>3, <3>4 DEF IdsInv, Rows
  <2> QED
    BY <2>2, <2>3
<1>4. CASE record_buf' = buf /\ Delete(op, buf, fails)
  <2>1. DbTypes' /\ current_status' # "WORKING"
    <3>1. PICK status \in {"IDLE", "ERROR"} : Complete(status)
      BY <1>4 DEF Delete
    <3> QED
      BY <1>0, <1>4, <3>1, CompleteTyped DEF DbTypes
  <2>2. table' \subseteq table
    BY <1>4 DEF Delete
  <2> QED
    BY <2>1, <2>2 DEF IdsInv
<1> QED
  BY <1>1, <1>2, <1>3, <1>4 DEF RegisterAndExecute

LEMMA SeqsOfPaths ==
  /\ <<>> \in Seq(Paths) /\ <<>> \in Seq(Paths \cup Names)
  /\ \A s \in Seq(Paths) : s \in Seq(Paths \cup Names)
OBVIOUS

LEMMA TypeInvInit == Init => TypeInv
<1> SUFFICES ASSUME Init PROVE TypeInv
  OBVIOUS
<1>1. IdsInv
  BY DEF Init, DbInit, IdsInv
<1>2. DbTypes
  <2>1. ZeroRecord \in Record /\ NoStmt \in [where : SUBSET Fields, at : Nat]
    BY DEF ZeroRecord, Record, NoStmt
  <2>2. more_rows = FALSE
    BY DEF Init, DbInit
  <2> QED
    BY <2>1, <2>2 DEF Init, DbInit, DbTypes, Ops, Status
<1>3. StoreTypes
  <2>1. fs \in [Roots -> [Paths -> Kinds]]
    BY StoreAssumption DEF Init
  <2>2. undoing = FALSE /\ failed = FALSE
    BY DEF Init
  <2> QED
    BY <2>1, <2>2, SeqsOfPaths DEF Init, StoreTypes, Labels
<1>4. ToRecord
  BY DEF Init, ToRecord
<1> QED
  BY <1>1, <1>2, <1>3, <1>4 DEF TypeInv

\* The handler's variables without an operation carried out.
LEMMA RegisterTyped ==
  ASSUME IdsInv, DbTypes, NEW op \in Ops, NEW buf \in Record, registerDBOperation(op, buf)
  PROVE  IdsInv' /\ DbTypes'
BY DEF registerDBOperation, IdsInv, DbTypes, Status

LEMMA PutTyped ==
  ASSUME StoreTypes, NEW p, NEW kind \in Kinds, Put(p, kind)
  PROVE  fs' \in [Roots -> [Paths -> Kinds]]
BY DEF StoreTypes, Put

LEMMA ToIdleTyped ==
  ASSUME TypeInv, ToIdle, IdsInv', DbTypes'
  PROVE  TypeInv'
<1>1. undoing' = FALSE /\ failed' = FALSE /\ cmd' = NoCmd /\ pc' = "idle"
  BY DEF ToIdle
<1>2. StoreTypes'
  BY <1>1, SeqsOfPaths DEF ToIdle, TypeInv, StoreTypes, Labels
<1> QED
  BY <1>1, <1>2 DEF TypeInv, ToRecord

LEMMA TypeInvStep ==
  ASSUME TypeInv, NoOpenSelect, [Next]_vars
  PROVE  TypeInv'
<1> USE DEF Goto, Loop, Answer, Advance, lists, request
<1>0. /\ IdsInv /\ DbTypes /\ StoreTypes /\ ToRecord
      /\ <<>> \in Seq(Paths) /\ <<>> \in Seq(Paths \cup Names)
      /\ \A s \in Seq(Paths) : s \in Seq(Paths \cup Names)
      /\ ZeroRecord \in Record
      /\ \A n \in Names : NameOnly(n) \in Record
      /\ \A c \in env.requests : c.op \in StoreOps /\ c.name \in Names /\ c.dir \in Dirs
  BY StoreAssumption, SeqsOfPaths DEF TypeInv, StoreTypes, Record, ZeroRecord, NameOnly, Fields
<1>1. CASE Request
  <2>1. PICK c \in env.requests :
          /\ cmd' = c
          /\ registerDBOperation("ASK",
               IF c.op = "INSTALLED" THEN ZeroRecord ELSE NameOnly(c.name))
          /\ interest_field' = IF c.op = "INSTALLED" THEN "NAME" ELSE "PATH"
    BY <1>1 DEF Request
  <2>2. IdsInv' /\ DbTypes'
    BY <1>0, <2>1, RegisterTyped DEF Ops
  <2>3. StoreTypes'
    BY <1>0, <1>1, <2>1 DEF Request, StoreTypes, Labels
  <2> QED
    BY <1>1, <2>2, <2>3 DEF Request, TypeInv, ToRecord
<1>2. CASE FetchName
  <2>1. PICK fails : executeDBOperation(fails)
    BY <1>2 DEF FetchName
  <2>2. /\ IdsInv' /\ DbTypes'
        /\ current_status' = "WORKING" => record_buf'.name \in Names
    BY <1>0, <1>2, <2>1, ExecuteTyped
       DEF FetchName, executeDBOperation, DbTypes, NoOpenSelect
  <2>3. directory_list' \in Seq(Paths \cup Names)
    <3>1. directory_list \in Seq(Paths \cup Names) /\ Unique(directory_list) \in Seq(Paths \cup Names)
      BY <1>0, UniqueIsSeq DEF StoreTypes
    <3>2. \A n \in Names : <<n>> \o directory_list \in Seq(Paths \cup Names)
      BY <3>1
    <3> QED
      BY <1>2, <2>2, <3>1, <3>2 DEF FetchName
  <2>4. StoreTypes'
    BY <1>0, <1>2, <2>3 DEF FetchName, StoreTypes, Labels
  <2> QED
    BY <1>2, <2>2, <2>4 DEF FetchName, TypeInv, ToRecord
<1>3. CASE FetchPath
  <2>1. PICK fails : executeDBOperation(fails)
    BY <1>3 DEF FetchPath
  <2>2. /\ IdsInv' /\ DbTypes'
        /\ current_status' = "WORKING" => record_buf'.path \in Paths
    BY <1>0, <1>3, <2>1, ExecuteTyped
       DEF FetchPath, executeDBOperation, DbTypes, NoOpenSelect
  <2>3. StoreTypes'
    BY <1>0, <1>3 DEF FetchPath, StoreTypes, Labels
  <2> QED
    BY <1>3, <2>2, <2>3 DEF FetchPath, TypeInv, ToRecord
<1>4. CASE StatRow
  <2>1. IdsInv' /\ DbTypes'
    BY <1>0, <1>4 DEF StatRow, chgDBStatus, dbVars, IdsInv, DbTypes, Status
  <2>2. record_buf.path \in Paths /\ pc' \in {"ask", "asked"}
    BY <1>0, <1>4 DEF StatRow, ToRecord
  <2>3. regular_file_list' \in Seq(Paths) /\ directory_list' \in Seq(Paths \cup Names)
    <3>1. /\ \A s \in Seq(Paths) : <<record_buf.path>> \o s \in Seq(Paths)
          /\ \A s \in Seq(Paths \cup Names) : <<record_buf.path>> \o s \in Seq(Paths \cup Names)
      BY <2>2
    <3>2. regular_file_list \in Seq(Paths) /\ directory_list \in Seq(Paths \cup Names)
      BY <1>0 DEF StoreTypes
    <3> QED
      BY <1>4, <3>1, <3>2 DEF StatRow, ListFile, ListDirectory
  <2>4. StoreTypes'
    BY <1>0, <1>4, <2>2, <2>3 DEF StatRow, StoreTypes, Labels
  <2> QED
    BY <1>0, <1>4, <2>1, <2>2, <2>4 DEF StatRow, TypeInv, ToRecord
<1>5. CASE Asked \/ After
  <2>1. IdsInv' /\ DbTypes'
    BY <1>0, <1>5, RegisterTyped DEF Asked, After, resetDB, Ops
  <2>2. UNCHANGED <<fs, request, lists, failed>>
    BY <1>5 DEF Asked, After
  <2>3. pc' \in {"exit", "reply", "unlink", "execute"}
    BY <1>5 DEF Asked, After, RoundFails, BeginUninstall
  <2>4. /\ undoing' \in BOOLEAN /\ reply' \in {"none", "error", "done", "list"}
        /\ todo' \in Seq(Paths \cup Names)
    <3>1. todo' \in {todo, <<>>, regular_file_list} /\ reply' \in {reply, "error", "done"}
      BY <1>5 DEF Asked, After, RoundFails, BeginUninstall
    <3>2. undoing' = TRUE \/ undoing' = undoing
      BY <1>5 DEF Asked, After, RoundFails, BeginUninstall
    <3>3. undoing' \in BOOLEAN
      BY <1>0, <3>2 DEF StoreTypes
    <3> QED
      BY <1>0, <3>1, <3>3 DEF StoreTypes
  <2>5. StoreTypes'
    BY <1>0, <2>2, <2>3, <2>4 DEF StoreTypes, Labels
  <2> QED
    BY <1>0, <1>5, <2>1, <2>2, <2>3, <2>5 DEF Asked, After, TypeInv, ToRecord
<1>6. CASE Traverse
  <2>1. cmd \in env.requests /\ cmd.dir \in Dirs /\ cmd.op = "INSTALL"
    BY <1>0, <1>6 DEF Traverse, ToRecord
  <2>2. Listing[cmd.dir].files \in Seq(Paths) /\ Listing[cmd.dir].dirs \in Seq(Paths)
    BY <2>1, StoreAssumption
  <2>3. IdsInv' /\ DbTypes'
    BY <1>0, <1>6 DEF Traverse, dbVars, IdsInv, DbTypes
  <2>4. StoreTypes'
    BY <1>0, <1>6, <2>2 DEF Traverse, StoreTypes, Labels
  <2> QED
    BY <1>0, <1>6, <2>1, <2>2, <2>3, <2>4 DEF Traverse, TypeInv, ToRecord
<1>7. CASE Check \/ MkdirsDone \/ RbUnlinksDone \/ RolledBack \/ AddsDone \/ BeginsUninstall
           \/ UnlinksDone \/ UninstallFails \/ Undone \/ Installed
  <2> USE <1>7
      DEF Check, MkdirsDone, RbUnlinksDone, RollbackDirectories, RolledBack, AddsDone,
          BeginsUninstall, BeginUninstall, UnlinksDone, UninstallFails, Undone, Installed
  <2>1. IdsInv' /\ DbTypes'
    BY <1>0 DEF dbVars, IdsInv, DbTypes
  <2>2. /\ UNCHANGED <<fs, request, regular_file_list, failed>>
        /\ pc' \in {"reply", "mkdir", "link", "rb_rmdir", "after", "exit", "unlink", "rmdir"}
        /\ reply' \in {reply, "error", "done", "list"}
    OBVIOUS
  <2>3. directory_list' \in Seq(Paths \cup Names) /\ todo' \in Seq(Paths \cup Names)
    <3>1. Reverse(directory_list) \in Seq(Paths \cup Names)
      BY <1>0 DEF StoreTypes, Reverse
    <3> QED
      BY <1>0, <3>1 DEF StoreTypes
  <2>4. undoing' \in BOOLEAN
    <3>1. undoing' = FALSE \/ undoing' = undoing
      OBVIOUS
    <3> QED
      BY <1>0, <3>1 DEF StoreTypes
  <2>5. StoreTypes'
    BY <1>0, <2>2, <2>3, <2>4 DEF StoreTypes, Labels
  <2> QED
    BY <1>0, <2>1, <2>5 DEF TypeInv, ToRecord
<1>8. CASE Mkdir
  <2>1. fs' \in [Roots -> [Paths -> Kinds]]
    BY <1>0, <1>8, PutTyped DEF Mkdir, StoreTypes, Kinds
  <2>2. Reverse(directory_list) \in Seq(Paths \cup Names) /\ Tail(todo) \in Seq(Paths \cup Names)
    BY <1>0, <1>8 DEF StoreTypes, Reverse, Mkdir
  <2>3. StoreTypes'
    BY <1>0, <1>8, <2>1, <2>2 DEF Mkdir, RollbackDirectories, StoreTypes, Labels
  <2>4. IdsInv' /\ DbTypes'
    BY <1>0, <1>8 DEF Mkdir, dbVars, IdsInv, DbTypes
  <2> QED
    BY <1>0, <1>8, <2>3, <2>4 DEF Mkdir, RollbackDirectories, TypeInv, ToRecord
<1>9. CASE Link \/ RbUnlink \/ RbRmdir \/ Unlink \/ Rmdir
  <2>1. fs' \in [Roots -> [Paths -> Kinds]]
    BY <1>0, <1>9, PutTyped DEF Link, RbUnlink, RbRmdir, Unlink, Rmdir, StoreTypes, Kinds
  <2>2. Tail(todo) \in Seq(Paths \cup Names)
    BY <1>0, <1>9 DEF StoreTypes, Link, RbUnlink, RbRmdir, Unlink, Rmdir
  <2>3. failed' \in BOOLEAN
    <3>1. failed' = TRUE \/ failed' = failed
      BY <1>9 DEF Link, RbUnlink, RbRmdir, Unlink, Rmdir
    <3> QED
      BY <1>0, <3>1 DEF StoreTypes
  <2>4. /\ UNCHANGED <<request, lists, undoing, reply>> /\ UNCHANGED dbVars
        /\ pc' \in {pc, "rb_unlink"} /\ todo' \in {Tail(todo), regular_file_list}
    BY <1>9 DEF Link, RbUnlink, RbRmdir, Unlink, Rmdir
  <2>5. IdsInv' /\ DbTypes'
    BY <1>0, <2>4 DEF dbVars, IdsInv, DbTypes
  <2>6. StoreTypes'
    BY <1>0, <2>1, <2>2, <2>3, <2>4 DEF StoreTypes, Labels
  <2> QED
    BY <1>0, <1>9, <2>4, <2>5, <2>6
       DEF Link, RbUnlink, RbRmdir, Unlink, Rmdir, TypeInv, ToRecord
<1>10. CASE LinksDone
  <2>1. cmd.name \in Names /\ NameOnly(cmd.name) \in Record
    BY <1>0, <1>10 DEF LinksDone, ToRecord
  <2>2. IdsInv' /\ DbTypes'
    BY <1>0, <1>10, <2>1, RegisterTyped DEF LinksDone, Ops
  <2>3. EntriesToAdd \in Seq(Paths)
    BY <1>0, <1>10 DEF LinksDone, ToRecord, StoreTypes, EntriesToAdd
  <2>4. EntriesToAdd \in Seq(Paths \cup Names)
    BY <2>3
  <2>5. StoreTypes'
    BY <1>0, <1>10, <2>4 DEF LinksDone, StoreTypes, Labels
  <2>6. record_buf'.name = cmd.name
    BY <1>10 DEF LinksDone, registerDBOperation, NameOnly
  <2> QED
    BY <1>0, <1>10, <2>2, <2>3, <2>5, <2>6 DEF LinksDone, TypeInv, ToRecord
<1>11. CASE FilesRemoved
  <2>1. NameOnly(cmd.name) \in Record
    BY <1>0, <1>11 DEF FilesRemoved, ToRecord
  <2>2. IdsInv' /\ DbTypes'
    BY <1>0, <1>11, <2>1, RegisterTyped DEF FilesRemoved, Ops
  <2>3. StoreTypes'
    BY <1>0, <1>11 DEF FilesRemoved, StoreTypes, Labels
  <2> QED
    BY <1>0, <1>11, <2>2, <2>3 DEF FilesRemoved, registerDBOperation, TypeInv, ToRecord
<1>12. CASE Add
  <2> DEFINE buf == [name |-> record_buf.name, path |-> Head(todo), set |-> Fields]
  <2>1. pc = "add" /\ cmd \in env.requests /\ record_buf.name = cmd.name /\ ~more_rows
    BY <1>0, <1>12 DEF Add, ToRecord, NoOpenSelect
  <2>2. Head(todo) \in Paths /\ Tail(todo) \in Seq(Paths)
    BY <1>0, <1>12 DEF Add, ToRecord
  <2>3. buf \in Record /\ buf.name \in Names /\ buf.path \in Paths
    BY <1>0, <2>1, <2>2 DEF Record
  <2>4. PICK fails : RegisterAndExecute("ADD", buf, fails)
    BY <1>12 DEF Add
  <2>5. record_buf' = buf
    BY <2>1, <2>4 DEF RegisterAndExecute, ResumeSelect, StartSelect
  <2>6. IdsInv' /\ DbTypes'
    <3> HIDE DEF buf
    <3> QED
      BY <1>0, <2>1, <2>3, <2>4, ExecuteTyped DEF Ops
  <2>7. StoreTypes'
    BY <1>0, <1>12, <2>2 DEF Add, StoreTypes, Labels
  <2> QED
    BY <1>0, <1>12, <2>1, <2>2, <2>5, <2>6, <2>7 DEF Add, TypeInv, ToRecord
<1>13. CASE AddUndo
  <2> DEFINE buf == [record_buf EXCEPT !.set = {"name"}]
  <2>1. buf \in Record
    BY <1>0 DEF DbTypes, Record, Fields
  <2>2. PICK fails : RegisterAndExecute("DEL", buf, fails)
    BY <1>13 DEF AddUndo
  <2>3. IdsInv' /\ DbTypes'
    <3> HIDE DEF buf
    <3> QED
      BY <1>0, <2>1, <2>2, ExecuteTyped DEF Ops
  <2>4. StoreTypes'
    BY <1>0, <1>13 DEF AddUndo, StoreTypes, Labels
  <2> QED
    BY <1>0, <1>13, <2>3, <2>4 DEF AddUndo, TypeInv, ToRecord
<1>14. CASE Del
  <2>1. PICK fails : executeDBOperation(fails)
    BY <1>14 DEF Del
  <2>2. IdsInv' /\ DbTypes'
    BY <1>0, <1>14, <2>1, ExecuteTyped DEF Del, executeDBOperation, DbTypes, ToRecord
  <2>3. StoreTypes'
    BY <1>0, <1>14 DEF Del, StoreTypes, Labels
  <2> QED
    BY <1>0, <1>14, <2>2, <2>3 DEF Del, TypeInv, ToRecord
<1>15. CASE AddFailed
  <2>1. IdsInv' /\ DbTypes'
    BY <1>0, <1>15 DEF AddFailed, chgDBStatus, IdsInv, DbTypes, Status
  <2>2. StoreTypes'
    BY <1>0, <1>15 DEF AddFailed, StoreTypes, Labels
  <2> QED
    BY <1>0, <1>15, <2>1, <2>2 DEF AddFailed, TypeInv, ToRecord
<1>16. CASE Answered
  BY <1>0, <1>16, ToIdleTyped DEF Answered, dbVars, IdsInv, DbTypes
<1>17. CASE Quit \/ Kill
  <2>1. Reopen /\ ToIdle
    BY <1>17 DEF Quit, Kill
  <2>2. more_rows' \in BOOLEAN
    <3>1. more_rows' = FALSE
      BY <2>1 DEF Reopen
    <3> QED
      BY <3>1
  <2>3. IdsInv' /\ DbTypes'
    BY <1>0, <2>1, <2>2 DEF Reopen, IdsInv, DbTypes, Ops, Status, NoStmt
  <2> QED
    BY <2>1, <2>3, ToIdleTyped
<1>18. CASE Config
  BY <1>0, <1>18 DEF Config, dbVars, TypeInv, IdsInv, DbTypes, StoreTypes, ToRecord
<1>19. CASE UNCHANGED vars
  BY <1>0, <1>19 DEF vars, dbVars, TypeInv, IdsInv, DbTypes, StoreTypes, ToRecord
<1> QED
  BY <1>1, <1>2, <1>3, <1>4, <1>5, <1>6, <1>7, <1>8, <1>9, <1>10, <1>11, <1>12, <1>13,
     <1>14, <1>15, <1>16, <1>17, <1>18, <1>19 DEF Next, Command

\* Every variable keeps to its type, with every fault, kill and change of the root:
\* the rows of the table are complete, the statement that is open knows its place,
\* and what unique() leaves is a list of names.
THEOREM TypeCorrect == Spec => []TypeOK
<1>1. Init => NoOpenSelect
  BY DEF Init, NoOpenSelect
<1>2. TypeInv => TypeOK
  BY DEF TypeInv, IdsInv, DbTypes, StoreTypes, TypeOK, DbTypeOK
<1> QED
  BY <1>1, <1>2, TypeInvInit, TypeInvStep, NoOpenSelectStep, PTL DEF Spec
===============================================================================
