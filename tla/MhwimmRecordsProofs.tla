-------------------------- MODULE MhwimmRecordsProofs --------------------------
(***************************************************************************)
(* What the three workers do to the table and to the game, for all words,  *)
(* paths, mod directories and input lines.                                 *)
(*                                                                         *)
(* Part one lets everything fail, but the Database's resetDB is not        *)
(* overtaken: an operation that was registered stays registered until its  *)
(* round, and no SELECT is open when a command writes.  In part two        *)
(* neither the database nor the file system fails: then the table and the  *)
(* game agree but for the moment between the two, and the table is the     *)
(* registry of ModRegistry.                                                *)
(***************************************************************************)
EXTENDS MhwimmThreadsProofs

NotOvertaken == "late" \notin Faults

DbCommands == {"INSTALL", "UNINSTALL", "INSTALLED"}

Registering == {"reg_op", "reg_name", "reg_set"}

\* The Executor waits and the round is still to come; it has its result.
Handed   == exe_pc = "await_result" /\ exedb_turn = "db"
Answered == exe_pc = "check" \/ (exe_pc = "await_result" /\ exedb_turn = "exe")

\* A command is between its own work and the round that records it.
Pending == stage = "after" /\ (exe_pc \in {"await_db"} \cup Registering \/ Handed)

\* What the variables of part one depend on, and the steps that touch none of it.
watched == <<exe_pc, db_pc, exedb, program_exit, exe, mfl, reg, db, store>>

LEMMA UiFrame ==
  ASSUME UiLoop \/ UiRead \/ UiReadFails \/ UiTake \/ UiSend \/ UiReceive
         \/ UiSendNop \/ MainJoin
  PROVE  UNCHANGED watched
BY DEF UiLoop, UiRead, UiReadFails, UiTake, UiSend, UiReceive, UiSendNop, MainJoin,
       UiGoto, MainGoto, watched, exedb, exe, reg, db, store
-------------------------------------------------------------------------------
(* Part one: requests are served, success is true.                         *)

\* Only three commands come to a round, and INSTALLED to one only.
CommandInv ==
  /\ exe_pc \in {"await_db", "await_result", "check"} \cup Registering =>
       cmd \in DbCommands /\ (cmd = "INSTALLED" => stage = "before")
  /\ exe_pc = "execute" => stage = "before"

InterestRegistered ==
  stage = "before" =>
    interest = IF cmd = "INSTALLED" THEN "INTEREST_NAME" ELSE "INTEREST_PATH"

\* What has been registered is still there: the Database waits meanwhile.
RequestInv ==
  /\ exe_pc \in Registering => db_pc = "await_req"
  /\ exe_pc \in {"reg_name", "reg_set"} => current_op = RequestedOp /\ InterestRegistered
  /\ exe_pc = "reg_set" => rec_name = RequestedName
  /\ Handed =>
       /\ db_pc \in {"await_req", "begin", "round"}
       /\ current_op = RequestedOp
       /\ InterestRegistered
       /\ rec_name = RequestedName
       /\ rec_set = (cmd # "INSTALLED")

\* An ASK that has succeeded leaves no SELECT, and no write comes without one.
StatementInv ==
  /\ Answered /\ stage = "before" /\ is_db_op_succeed => open_stmt = "none"
  /\ exe_pc = "execute" /\ cmd \in DbCommands => open_stmt = "none"
  /\ Pending => open_stmt = "none"

\* The files of an INSTALL are in the game and in the lists when they are
\* recorded, and what the indicator says of the second round is so.
SuccessInv ==
  /\ cmd = "INSTALL" /\ stage = "after" /\ (Pending \/ Answered) =>
       mfl = FilesOf[params[2]] /\ mfl \subseteq game
  /\ stage = "after" /\ Answered /\ is_db_op_succeed =>
       /\ cmd = "INSTALL" => {params[1]} \X mfl \subseteq table
       /\ cmd = "UNINSTALL" => \A r \in table : r[1] # params[1]
  /\ exe_pc \in {"output", "await_more"} =>
       /\ cmd = "INSTALL" => /\ FilesOf[params[2]] \subseteq game
                             /\ {params[1]} \X FilesOf[params[2]] \subseteq table
       /\ cmd = "UNINSTALL" => \A r \in table : r[1] # params[1]

RoundInv == CommandInv /\ RequestInv /\ StatementInv /\ SuccessInv

\* The steps of the Executor that keep to themselves: they register nothing and
\* touch neither lists, table nor game.
LEMMA RoundInvExecutor ==
  ASSUME NotOvertaken, IInv, RoundInv,
         ExeTop \/ ExeTake \/ Parse \/ ExeTakeDb \/ RegOp \/ RegName \/ RegSet
         \/ Check \/ Failed \/ Reply \/ Output \/ Bye
  PROVE  RoundInv'
<1> USE DEF RoundInv, CommandInv, RequestInv, StatementInv, SuccessInv, Handed, Answered,
            Pending, Registering, InterestRegistered, DbCommands, ExeGoto, uiexe, exedb,
            msg, ui, exe, reg, db, store
<1>0. /\ exedb_turn \in {"exe", "db"}
      /\ exe_pc \in Registering => exedb_turn = "exe"
  BY DEF IInv, AbortInv, Alive, ExeDbInv, TypeOK, EXEDB!TypeOK, EXEDB!Sides
<1>1. CASE ExeTop
  BY <1>1 DEF ExeTop
<1>2. CASE ExeTake
  BY <1>2 DEF ExeTake
<1>3. CASE Parse
  BY <1>3 DEF Parse
<1>4. CASE ExeTakeDb
  BY <1>0, <1>4 DEF ExeTakeDb, EXEDB!Take, NotOvertaken
<1>5. CASE RegOp
  BY <1>0, <1>5 DEF RegOp, RequestedOp
<1>6. CASE RegName
  BY <1>0, <1>6 DEF RegName, RequestedOp, RequestedName
<1>7. CASE RegSet
  BY <1>0, <1>7 DEF RegSet, EXEDB!Pass, EXEDB!OtherSide, RequestedOp, RequestedName
<1>8. CASE Check
  <2>1. /\ Answered /\ ~Answered' /\ ~Pending' /\ ~Handed'
        /\ exe_pc' \in {"failed", "output", "reply", "execute"}
        /\ exe_pc' = "output" => stage = "after" /\ is_db_op_succeed
        /\ exe_pc' = "execute" => stage # "after" /\ is_db_op_succeed
        /\ UNCHANGED <<cmd, params, stage, table, game, open_stmt>>
    BY <1>8 DEF Check
  <2>2. stage \in {"before", "after"}
    BY DEF IInv, TypeOK
  <2> QED
    BY <2>1, <2>2
<1>9. CASE Failed
  BY <1>9 DEF Failed
<1>10. CASE Reply
  BY <1>10 DEF Reply
<1>11. CASE Output
  BY <1>11 DEF Output
<1>12. CASE Bye
  BY <1>12 DEF Bye
<1> QED
  BY <1>1, <1>2, <1>3, <1>4, <1>5, <1>6, <1>7, <1>8, <1>9, <1>10, <1>11, <1>12

\* The command itself.  A file is in the game before it is up for being recorded.
LEMMA RoundInvExecute ==
  ASSUME IInv, RoundInv, Execute
  PROVE  RoundInv'
<1> USE DEF RoundInv, CommandInv, RequestInv, StatementInv, SuccessInv, Handed, Answered,
            Pending, Registering, InterestRegistered, DbCommands, ExeGoto, Executed, uiexe,
            exedb, msg, ui, exe, reg, db, store
<1>1. CASE ~SyntaxOk
  BY <1>1 DEF Execute
<1>2. CASE Install
  BY <1>2 DEF Execute, Install
<1>3. CASE Uninstall
  BY <1>3 DEF Execute, Uninstall
<1>4. CASE ExecuteOther
  BY <1>4 DEF Execute, ExecuteOther
<1> QED
  BY <1>1, <1>2, <1>3, <1>4 DEF Execute

\* The round: an ASK that succeeds has come to its end, an ADD records all of the
\* lists, a DEL all rows of the name.
LEMMA RoundInvDbRound ==
  ASSUME IInv, RoundInv, DbRound
  PROVE  RoundInv'
<1>0. /\ Handed /\ exe_pc = "await_result" /\ exedb_holder = "db" /\ db_pc = "round"
      /\ exedb_turn' = "exe"
      /\ current_op = RequestedOp /\ InterestRegistered /\ rec_name = RequestedName
      /\ rec_set = (cmd # "INSTALLED")
      /\ UNCHANGED <<exe_pc, exe, reg, game>> /\ db_pc' = "reset_op"
  BY DEF DbRound, DbGoto, IInv, AbortInv, Alive, ExeDbInv, ExitInv, RoundInv, RequestInv,
         Handed, EXEDB!Pass, EXEDB!OtherSide
<1>1. Answered' /\ ~Handed' /\ ~Pending' /\ UNCHANGED <<cmd, stage, params>>
  BY <1>0 DEF Answered, Handed, Pending, Registering, exe
<1>2. CommandInv' /\ RequestInv'
  BY <1>0, <1>1 DEF RoundInv, CommandInv, RequestInv, Registering
<1>3. CASE stage = "before"
  <2>1. current_op = "SQL_ASK"
    BY <1>0, <1>3 DEF RequestedOp
  <2>2. is_db_op_succeed' => open_stmt' = "none"
    BY <2>1 DEF DbRound, DoAsk
  <2> QED
    BY <1>0, <1>1, <1>2, <1>3, <2>2 DEF RoundInv, StatementInv, SuccessInv
<1>4. CASE stage = "after"
  <2>1. open_stmt = "none" /\ cmd \in {"INSTALL", "UNINSTALL"}
    BY <1>0, <1>4 DEF RoundInv, StatementInv, CommandInv, Pending, DbCommands
  <2>2. CASE cmd = "INSTALL"
    <3>1. current_op = "SQL_ADD" /\ rec_name = params[1] /\ mfl = FilesOf[params[2]]
          /\ mfl \subseteq game
      BY <1>0, <1>4, <2>2
         DEF RequestedOp, RequestedName, RoundInv, SuccessInv, Pending
    <3>2. UNCHANGED mfl /\ (is_db_op_succeed' => {params[1]} \X mfl \subseteq table')
      BY <2>1, <3>1 DEF DbRound, DoAdd
    <3> QED
      BY <1>0, <1>1, <1>2, <1>4, <2>2, <3>1, <3>2 DEF RoundInv, StatementInv, SuccessInv
  <2>3. CASE cmd = "UNINSTALL"
    <3>1. current_op = "SQL_DEL" /\ rec_name = params[1] /\ rec_set
      BY <1>0, <1>4, <2>3 DEF RequestedOp, RequestedName
    <3>2. is_db_op_succeed' => \A r \in table' : r[1] # params[1]
      BY <3>1 DEF DbRound, DoDel, Selected
    <3> QED
      BY <1>0, <1>1, <1>2, <1>4, <2>3, <3>2 DEF RoundInv, StatementInv, SuccessInv
  <2> QED
    BY <2>1, <2>2, <2>3
<1>5. stage \in {"before", "after"}
  BY DEF IInv, TypeOK
<1> QED
  BY <1>3, <1>4, <1>5

LEMMA RoundInvStep ==
  ASSUME NotOvertaken, IInv, RoundInv, [Next]_vars
  PROVE  RoundInv'
<1> USE DEF RoundInv, CommandInv, RequestInv, StatementInv, SuccessInv, Handed, Answered,
            Pending, Registering, InterestRegistered, DbCommands, RequestedOp, RequestedName,
            DbGoto, exedb, exe, reg, db, store
<1>1. CASE UiLoop \/ UiRead \/ UiReadFails \/ UiTake \/ UiSend \/ UiReceive \/ UiSendNop
           \/ MainJoin
  <2>1. UNCHANGED watched
    BY <1>1, UiFrame
  <2> QED
    BY <2>1 DEF watched
<1>2. CASE UNCHANGED vars
  BY <1>2 DEF vars, pcs
<1>3. CASE Execute
  BY <1>3, RoundInvExecute
<1>4. CASE DbOpen
  BY <1>4 DEF DbOpen, Abort
<1>5. CASE DbResetOp \/ DbResetName \/ DbResetSet
  <2>1. /\ db_pc \in {"reset_op", "reset_name", "reset_set"}
        /\ UNCHANGED <<exe_pc, exedb, exe, mfl, interest, db, store>>
    BY <1>5 DEF DbResetOp, DbResetName, DbResetSet
  <2>2. exe_pc \notin Registering /\ ~Handed
    BY <2>1
  <2> QED
    BY <2>1, <2>2
<1>6. CASE DbTake
  <2>1. exe_pc \notin Registering
    BY <1>6 DEF DbTake, EXEDB!Take, IInv, AbortInv, Alive, ExeDbInv
  <2> QED
    BY <1>6, <2>1 DEF DbTake, EXEDB!Take
<1>7. CASE DbBegin
  BY <1>7 DEF DbBegin, IInv, ExitInv, Busy
<1>8. CASE DbClose
  BY <1>8 DEF DbClose, EXEDB!Release
<1>9. CASE DbRound
  BY <1>9, RoundInvDbRound
<1> QED
  BY <1>1, <1>2, <1>3, <1>4, <1>5, <1>6, <1>7, <1>8, <1>9,
     RoundInvExecutor DEF Next, UiStep, ExeStep, DbStep, Terminating

LEMMA RoundInvInit == Init => RoundInv
BY DEF Init, EXEDB!Init, RoundInv, CommandInv, RequestInv, StatementInv, SuccessInv, Handed,
       Answered, Pending, Registering

LEMMA SpecRoundInv == ASSUME NotOvertaken PROVE Spec => []RoundInv
<1>1. IInv /\ RoundInv /\ [Next]_vars => RoundInv'
  BY RoundInvStep
<1> QED
  BY RoundInvInit, <1>1, SpecIInv, PTL DEF Spec

\* The table changes in a round of the Database only.
LEMMA TableOnlyInRounds ==
  ASSUME [Next]_vars, ~DbRound
  PROVE  table' = table
BY UiFrame
   DEF Next, UiStep, ExeStep, DbStep, Terminating, vars, store, watched, ExeTop, ExeTake,
       Parse, ExeTakeDb, RegOp, RegName, RegSet, Check, Execute, Failed, Reply, Output, Bye,
       DbOpen, DbResetOp, DbResetName, DbResetSet, DbTake, DbBegin, DbClose

\* A command changes rows of the mod it names only, whatever fails, as long as
\* resetDB does not come late.
THEOREM RowsAreOfTheCommand == ASSUME NotOvertaken PROVE Spec => RowsOnlyOfCommand
<1> DEFINE Changed == (table \ table') \cup (table' \ table)
<1>1. ASSUME IInv, RoundInv, [Next]_vars
      PROVE  \A r \in Changed : r[1] = params[1]
  <2>1. CASE DbRound
    <3>1. /\ Handed
          /\ current_op = RequestedOp /\ rec_name = RequestedName
          /\ rec_set = (cmd # "INSTALLED")
      BY <1>1, <2>1 DEF DbRound, IInv, AbortInv, Alive, ExeDbInv, ExitInv, RoundInv,
         RequestInv, Handed, EXEDB!Pass
    <3>2. CASE current_op \in {"SQL_ASK", "SQL_NOP"}
      BY <2>1, <3>2 DEF DbRound
    <3>3. CASE current_op = "SQL_ADD"
      <4>1. rec_name = params[1]
        BY <1>1, <3>1, <3>3 DEF RequestedOp, RequestedName, IInv, TypeOK
      <4> QED
        BY <2>1, <3>3, <4>1 DEF DbRound, DoAdd
    <3>4. CASE current_op = "SQL_DEL"
      <4>1. stage = "after" /\ cmd # "INSTALLED"
        BY <1>1, <3>1, <3>4
           DEF RequestedOp, RoundInv, CommandInv, Handed, IInv, TypeOK
      <4>2. rec_set /\ rec_name = params[1]
        BY <3>1, <4>1 DEF RequestedName
      <4> QED
        BY <2>1, <3>4, <4>2 DEF DbRound, DoDel, Selected
    <3> QED
      BY <1>1, <3>2, <3>3, <3>4 DEF IInv, TypeOK
  <2>2. CASE ~DbRound
    BY <1>1, <2>2, TableOnlyInRounds
  <2> QED
    BY <2>1, <2>2
<1>2. IInv /\ RoundInv /\ [Next]_vars => [\A r \in Changed : r[1] = params[1]]_vars
  BY <1>1
<1> QED
  BY <1>2, SpecIInv, SpecRoundInv, PTL DEF Spec, RowsOnlyOfCommand

\* When the Executor goes on as after a success the files and the records are
\* what the user is told, whatever failed on the way.
THEOREM SuccessIsTold == ASSUME NotOvertaken PROVE Spec => []SuccessIsTrue
<1>1. RoundInv => SuccessIsTrue
  BY DEF RoundInv, SuccessInv, SuccessIsTrue
<1> QED
  BY <1>1, SpecRoundInv, PTL
-------------------------------------------------------------------------------
(* Part two: the table and the game agree, and the table is the registry.  *)

NothingFails == Faults \subseteq {"alloc", "stdin"}

FilesOn(n) == Registry!FilesOn(n)
OnRecord == {r[2] : r \in table}
Mods == {r[1] : r \in table}

\* What the round before a command puts into the lists.
Asked == IF cmd = "INSTALLED" THEN Mods ELSE FilesOn(params[1])

\* No round fails, so nothing is undone and no SELECT stays open.
CalmInv ==
  /\ open_stmt = "none"
  /\ exe_pc # "failed"
  /\ Answered => is_db_op_succeed

\* The lists are empty before the round and exact after it.
ListsInv ==
  /\ exe_pc \in {"await_cmd", "parse"} => mfl = {}
  /\ stage = "before" /\ (exe_pc \in {"await_db"} \cup Registering \/ Handed) => mfl = {}
  /\ stage = "before" /\ Answered => mfl = Asked
  /\ exe_pc = "execute" /\ cmd \in DbCommands =>
       mfl = Asked /\ (cmd = "INSTALL" => mfl = {})
  /\ exe_pc \in {"output", "await_more"} /\ cmd = "INSTALLED" => mfl = Asked

\* The game is what is on record, but while a command waits for its second round:
\* then it has the files of the new mod too, or lacks those of the old one.
AgreeInv ==
  /\ \A r, s \in table : r[2] = s[2] => r = s
  /\ ~Pending => game = OnRecord
  /\ Pending /\ cmd = "INSTALL" =>
       /\ FilesOn(params[1]) = {}
       /\ mfl \cap OnRecord = {}
       /\ game = OnRecord \cup mfl
  /\ Pending /\ cmd = "UNINSTALL" =>
       mfl = FilesOn(params[1]) /\ game = OnRecord \ mfl

RecordsInv == CalmInv /\ ListsInv /\ AgreeInv

\* Every step that is no command and no round.
LEMMA RecordsInvQuiet ==
  ASSUME NothingFails, IInv, RoundInv, RecordsInv, [Next]_vars, ~Execute, ~DbRound
  PROVE  RecordsInv'
<1> USE DEF NothingFails, RecordsInv, CalmInv, ListsInv, AgreeInv, RoundInv, CommandInv,
            Handed, Answered, Pending, Registering, DbCommands, FilesOn, Registry!FilesOn,
            OnRecord, Mods, Asked, ExeGoto, DbGoto, exedb, exe, db, store
<1>0. /\ exedb_turn \in {"exe", "db"} /\ stage \in {"before", "after"}
      /\ exe_pc \in Registering => exedb_turn = "exe"
  BY DEF IInv, AbortInv, Alive, ExeDbInv, TypeOK, EXEDB!TypeOK, EXEDB!Sides
<1>1. CASE UiLoop \/ UiRead \/ UiReadFails \/ UiTake \/ UiSend \/ UiReceive \/ UiSendNop
           \/ MainJoin
  <2>1. UNCHANGED watched
    BY <1>1, UiFrame
  <2> QED
    BY <2>1 DEF watched
<1>2. CASE UNCHANGED vars
  BY <1>2 DEF vars, pcs
<1>3. CASE ExeTop
  BY <1>3 DEF ExeTop
<1>4. CASE ExeTake
  BY <1>4 DEF ExeTake
<1>5. CASE Parse
  BY <1>5 DEF Parse
<1>6. CASE ExeTakeDb
  BY <1>0, <1>6 DEF ExeTakeDb, EXEDB!Take
<1>7. CASE RegOp \/ RegName
  BY <1>0, <1>7 DEF RegOp, RegName
<1>8. CASE RegSet
  BY <1>0, <1>8 DEF RegSet, EXEDB!Pass, EXEDB!OtherSide
<1>9. CASE Check
  BY <1>0, <1>9 DEF Check, EXEDB!Release
<1>10. CASE Failed
  BY <1>10 DEF Failed
<1>11. CASE Reply
  BY <1>11 DEF Reply
<1>12. CASE Output
  BY <1>12 DEF Output
<1>13. CASE Bye
  BY <1>13 DEF Bye
<1>14. CASE DbOpen
  BY <1>14 DEF DbOpen, Abort
<1>15. CASE DbResetOp \/ DbResetName \/ DbResetSet \/ DbBegin
  BY <1>15 DEF DbResetOp, DbResetName, DbResetSet, DbBegin
<1>16. CASE DbTake
  BY <1>16 DEF DbTake, EXEDB!Take
<1>17. CASE DbClose
  BY <1>17 DEF DbClose, EXEDB!Release
<1> QED
  BY <1>1, <1>2, <1>3, <1>4, <1>5, <1>6, <1>7, <1>8, <1>9, <1>10, <1>11, <1>12, <1>13, <1>14,
     <1>15, <1>16, <1>17 DEF Next, UiStep, ExeStep, DbStep, Terminating

\* The command: install puts in what nobody has, uninstall takes out what it has.
LEMMA RecordsInvExecute ==
  ASSUME NothingFails, IInv, RoundInv, RecordsInv, Execute
  PROVE  RecordsInv'
<1> USE DEF NothingFails, RecordsInv, CalmInv, ListsInv, AgreeInv, RoundInv, CommandInv,
            Handed, Answered, Pending, Registering, DbCommands, FilesOn, Registry!FilesOn,
            OnRecord, Mods, Asked, ExeGoto, Executed, exedb, exe, db
<1>1. CASE ~SyntaxOk
  BY <1>1 DEF Execute
<1>2. CASE Install
  BY <1>2 DEF Execute, Install
<1>3. CASE Uninstall
  <2>1. mfl = FilesOn(params[1]) /\ game = OnRecord /\ mfl \subseteq game
    BY <1>3 DEF Execute, Uninstall
  <2>2. \A gone \in SUBSET Paths :
          UnlinkAll(gone) => gone = mfl /\ game' = OnRecord \ mfl
    BY <2>1 DEF UnlinkAll
  <2> QED
    BY <1>3, <2>1, <2>2 DEF Execute, Uninstall
<1>4. CASE ExecuteOther
  BY <1>4 DEF Execute, ExecuteOther
<1> QED
  BY <1>1, <1>2, <1>3, <1>4 DEF Execute

\* The round before a command lists what is on record.
LEMMA RoundAsks ==
  ASSUME NothingFails, IInv, RoundInv, RecordsInv, DbRound, stage = "before"
  PROVE  /\ mfl' = Asked
         /\ open_stmt' = "none"
         /\ is_db_op_succeed'
         /\ UNCHANGED table
<1>1. /\ Handed
      /\ current_op = RequestedOp /\ InterestRegistered /\ rec_name = RequestedName
      /\ rec_set = (cmd # "INSTALLED")
  BY DEF DbRound, IInv, AbortInv, Alive, ExeDbInv, ExitInv, RoundInv, RequestInv,
         Handed, EXEDB!Pass
<1>2. /\ current_op = "SQL_ASK" /\ mfl = {} /\ open_stmt = "none" /\ game = OnRecord
      /\ Results = {Selected}
  BY <1>1 DEF RequestedOp, RecordsInv, ListsInv, CalmInv, AgreeInv, Pending, Results
<1>3. Entries(Selected) = Asked
  <2>1. CASE cmd = "INSTALLED"
    BY <1>1, <2>1 DEF InterestRegistered, Selected, Entries, Asked, Mods
  <2>2. CASE cmd # "INSTALLED"
    <3>1. /\ interest = "INTEREST_PATH" /\ rec_set /\ rec_name = params[1]
      BY <1>1, <2>2 DEF InterestRegistered, RequestedName
    <3> QED
      BY <2>2, <3>1 DEF Selected, Entries, Asked, FilesOn, Registry!FilesOn
  <2> QED
    BY <2>1, <2>2
<1>4. \A r \in Selected : ~StatFail(r)
  BY <1>2 DEF Selected, OnRecord, StatFail, NothingFails
<1>5. DoAsk /\ UNCHANGED table
  BY <1>2 DEF DbRound
<1> QED
  BY <1>2, <1>3, <1>4, <1>5 DEF DoAsk, NothingFails

\* The round after a command is an Add or a Remove of the registry.
LEMMA RoundRecords ==
  ASSUME NothingFails, IInv, RoundInv, RecordsInv, DbRound, stage = "after"
  PROVE  /\ UNCHANGED mfl
         /\ open_stmt' = "none"
         /\ is_db_op_succeed'
         /\ \/ /\ cmd = "INSTALL"
               /\ table' = table \cup ({params[1]} \X mfl)
               /\ FilesOn(params[1]) = {}
               /\ mfl \cap OnRecord = {} /\ mfl \in SUBSET Paths
               /\ game = OnRecord \cup mfl
            \/ /\ cmd = "UNINSTALL"
               /\ table' = {r \in table : r[1] # params[1]}
               /\ mfl = FilesOn(params[1])
               /\ game = OnRecord \ mfl
<1>1. /\ Handed
      /\ current_op = RequestedOp /\ rec_name = RequestedName
      /\ rec_set = (cmd # "INSTALLED")
  BY DEF DbRound, IInv, AbortInv, Alive, ExeDbInv, ExitInv, RoundInv, RequestInv,
         Handed, EXEDB!Pass
<1>2. /\ Pending /\ open_stmt = "none"
      /\ cmd \in {"INSTALL", "UNINSTALL"}
  BY <1>1 DEF Pending, RecordsInv, CalmInv, RoundInv, CommandInv, DbCommands, Handed
<1>3. CASE cmd = "INSTALL"
  <2>1. current_op = "SQL_ADD" /\ rec_name = params[1]
    BY <1>1, <1>3 DEF RequestedOp, RequestedName
  <2>2. DoAdd
    BY <2>1 DEF DbRound
  <2>3. mfl \in SUBSET Paths
    BY <1>1, <1>3 DEF IInv, RegisterInv, Handed
  <2> QED
    BY <1>2, <1>3, <2>1, <2>2, <2>3 DEF DoAdd, NothingFails, RecordsInv, AgreeInv
<1>4. CASE cmd = "UNINSTALL"
  <2>1. current_op = "SQL_DEL" /\ rec_name = params[1] /\ rec_set
    BY <1>1, <1>4 DEF RequestedOp, RequestedName
  <2>2. DoDel
    BY <2>1 DEF DbRound
  <2>3. table \ Selected = {r \in table : r[1] # params[1]}
    BY <2>1 DEF Selected
  <2> QED
    BY <1>2, <1>4, <2>2, <2>3 DEF DoDel, NothingFails, RecordsInv, AgreeInv
<1> QED
  BY <1>2, <1>3, <1>4

LEMMA RecordsInvDbRound ==
  ASSUME NothingFails, IInv, RoundInv, RecordsInv, DbRound
  PROVE  RecordsInv'
<1>0. /\ Handed /\ exe_pc' = "await_result" /\ exedb_turn' = "exe"
      /\ UNCHANGED <<cmd, stage, params, game>>
  BY DEF DbRound, DbGoto, IInv, AbortInv, Alive, ExeDbInv, ExitInv, RoundInv, RequestInv,
         Handed, EXEDB!Pass, EXEDB!OtherSide, exe
<1>1. Answered' /\ ~Handed' /\ ~Pending'
  BY <1>0 DEF Answered, Handed, Pending, Registering
<1>2. CASE stage = "before"
  <2>1. mfl' = Asked /\ open_stmt' = "none" /\ is_db_op_succeed' /\ UNCHANGED table
    BY <1>2, RoundAsks
  <2>2. ~Pending /\ UNCHANGED <<Asked, OnRecord>>
    BY <1>0, <1>2, <2>1 DEF Pending, Asked, FilesOn, Registry!FilesOn, Mods, OnRecord
  <2> QED
    BY <1>0, <1>1, <1>2, <2>1, <2>2
       DEF RecordsInv, CalmInv, ListsInv, AgreeInv, Registering
<1>3. CASE stage = "after"
  <2>1. open_stmt' = "none" /\ is_db_op_succeed' /\ table \in SUBSET (Names \X Paths)
        /\ \A r, s \in table : r[2] = s[2] => r = s
    BY <1>3, RoundRecords DEF IInv, TypeOK, RecordsInv, AgreeInv
  <2>2. game = OnRecord' /\ \A r, s \in table' : r[2] = s[2] => r = s
    <3>1. CASE /\ cmd = "INSTALL"
               /\ table' = table \cup ({params[1]} \X mfl)
               /\ mfl \cap OnRecord = {}
               /\ game = OnRecord \cup mfl
      <4>1. OnRecord' = OnRecord \cup mfl
        <5>1. \A p \in mfl : <<params[1], p>> \in table' /\ <<params[1], p>>[2] = p
          BY <3>1
        <5>2. \A r \in {params[1]} \X mfl : r[2] \in mfl
          OBVIOUS
        <5> QED
          BY <3>1, <5>1, <5>2 DEF OnRecord
      <4>2. ASSUME NEW r \in table', NEW s \in table', r[2] = s[2]
            PROVE  r = s
        <5>1. CASE r \in table /\ s \in table
          BY <2>1, <4>2, <5>1
        <5>2. CASE r \in {params[1]} \X mfl /\ s \in {params[1]} \X mfl
          BY <4>2, <5>2
        <5> QED
          BY <3>1, <4>2, <5>1, <5>2 DEF OnRecord
      <4> QED
        BY <3>1, <4>1, <4>2
    <3>2. CASE /\ cmd = "UNINSTALL"
               /\ table' = {r \in table : r[1] # params[1]}
               /\ mfl = FilesOn(params[1])
               /\ game = OnRecord \ mfl
      <4>1. OnRecord' = OnRecord \ mfl
        BY <2>1, <3>2 DEF OnRecord, FilesOn, Registry!FilesOn
      <4> QED
        BY <2>1, <3>2, <4>1
    <3> QED
      BY <1>3, <3>1, <3>2, RoundRecords
  <2> QED
    BY <1>0, <1>1, <1>3, <2>1, <2>2
       DEF RecordsInv, CalmInv, ListsInv, AgreeInv, Registering
<1> QED
  BY <1>2, <1>3 DEF IInv, TypeOK

LEMMA RecordsInvInit == Init => RecordsInv
BY DEF Init, EXEDB!Init, RecordsInv, CalmInv, ListsInv, AgreeInv, Handed, Answered, Pending,
       Registering, OnRecord

LEMMA SpecRecordsInv == ASSUME NothingFails PROVE Spec => []RecordsInv
<1>1. NotOvertaken
  BY DEF NothingFails, NotOvertaken
<1>2. IInv /\ RoundInv /\ RecordsInv /\ [Next]_vars => RecordsInv'
  BY RecordsInvQuiet, RecordsInvExecute, RecordsInvDbRound
<1> QED
  BY <1>1, <1>2, RecordsInvInit, SpecIInv, SpecRoundInv, PTL DEF Spec

\* Between two commands the game holds exactly the files on record, each for one
\* mod, whatever was typed and wherever parseCMD or the input failed.
THEOREM RecordsAreTheGame == ASSUME NothingFails PROVE Spec => []RecordsMatchGame
<1>1. RecordsInv => RecordsMatchGame
  BY DEF RecordsInv, AgreeInv, RecordsMatchGame, Pending, Handed, Registering, OnRecord
<1> QED
  BY <1>1, SpecRecordsInv, PTL

\* installed prints the mods on record and no other.
THEOREM InstalledIsRecorded == ASSUME NothingFails PROVE Spec => []InstalledListsRecorded
<1>1. RecordsInv => InstalledListsRecorded
  BY DEF RecordsInv, ListsInv, InstalledListsRecorded, Asked, Mods, DbCommands
<1> QED
  BY <1>1, SpecRecordsInv, PTL

\* A step of the three workers is a step of the registry or leaves it as it is.
LEMMA NextIsRegistryNext ==
  ASSUME NothingFails, IInv, RoundInv, RecordsInv, [Next]_vars
  PROVE  [Registry!Next]_table
<1>1. CASE DbRound /\ stage = "after"
  <2>1. params[1] \in Names
    BY DEF IInv, TypeOK, Names
  <2>2. CASE cmd = "INSTALL"
    <3>1. /\ table' = table \cup ({params[1]} \X mfl)
          /\ FilesOn(params[1]) = {}
          /\ mfl \cap OnRecord = {} /\ mfl \in SUBSET Paths
      BY <1>1, <2>2, RoundRecords
    <3>2. \A m \in Names : Registry!FilesOn(m) \cap mfl = {}
      BY <3>1 DEF OnRecord, Registry!FilesOn
    <3>3. Registry!Add(params[1], mfl)
      BY <3>1, <3>2 DEF FilesOn, Registry!Add
    <3> QED
      BY <2>1, <3>1, <3>3 DEF Registry!Next
  <2>3. CASE cmd = "UNINSTALL"
    <3>1. Registry!Remove(params[1])
      BY <1>1, <2>3, RoundRecords DEF Registry!Remove
    <3> QED
      BY <2>1, <3>1 DEF Registry!Next
  <2> QED
    BY <1>1, <2>2, <2>3, RoundRecords
<1>2. CASE DbRound /\ stage = "before"
  BY <1>2, RoundAsks
<1>3. CASE ~DbRound
  BY <1>3, TableOnlyInRounds
<1> QED
  BY <1>1, <1>2, <1>3 DEF IInv, TypeOK

\* The table implements the registry of mods: a mod is recorded at once, with
\* files nobody has, and forgotten as a whole.
THEOREM RegistryIsImplemented == ASSUME NothingFails PROVE Spec => RegistryKept
<1>1. NotOvertaken
  BY DEF NothingFails, NotOvertaken
<1>2. Init => Registry!Init
  BY DEF Init, Registry!Init
<1>3. IInv /\ RoundInv /\ RecordsInv /\ [Next]_vars => [Registry!Next]_table
  BY NextIsRegistryNext
<1> QED
  BY <1>1, <1>2, <1>3, SpecIInv, SpecRoundInv, SpecRecordsInv, PTL
     DEF Spec, RegistryKept, Registry!Spec
===============================================================================
