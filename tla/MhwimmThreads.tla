---------------------------- MODULE MhwimmThreads ----------------------------
(***************************************************************************)
(* The three workers of the program and the objects they share.            *)
(*                                                                         *)
(*   UI        mhwimm_ui_thread_worker        reads commands, prints       *)
(*   Executor  mhwimm_executor_thread_worker  parses and executes them     *)
(*   Database  mhwimm_db_thread_worker        runs one operation a round   *)
(*                                                                         *)
(* UI and Executor alternate over ctrlmsg.condv_sync, Executor and Database*)
(* over exedb_condv_sync; both objects appear here as TurnTaking, which    *)
(* ConditionV shows they implement.  The Executor registers an operation   *)
(* by writing the fields of the database object, the Database clears the   *)
(* same fields at the top of its loop (resetDB) without holding the mutex: *)
(* every such write is a step of its own.                                  *)
(*                                                                         *)
(* Abstractions.  A mod directory is the set of paths it would install,    *)
(* regular files all of them.  The game directory and the database table   *)
(* are sets, and so are the lists of mod_files_list (two of the three are  *)
(* one list by reference).  The commands that touch none of these (cd, pwd,*)
(* ls, get_config, config, commands) are one command OTHER that fails or   *)
(* prints up to MaxOut lines.  An error message is not counted in noutput. *)
(***************************************************************************)
EXTENDS Naturals, Sequences, FiniteSets

CONSTANTS
  Words,        \* what a command's parameters may be
  Blank,        \* the empty string, parameters_'s first contents
  Bug,          \* the mod name resetDB leaves in record_buf_
  Paths,        \* paths below the game's root
  Dirs,         \* the words that name a mod directory (relative paths)
  FilesOf,      \* the paths each mod directory holds
  Inputs,       \* the command lines the user may type
  MaxOut,       \* bound: lines an OTHER command prints
  Faults        \* which failures and schedules the environment may produce

Names == Words \cup {Bug}

Commands == {"INSTALL", "UNINSTALL", "INSTALLED", "EXIT", "OTHER", "NOP"}

\* "sql"    a statement fails in SQLite
\* "stat"   stat() of a path fails although the path exists
\* "io"     link, mkdir, unlink or rmdir fails, a directory cannot be read
\* "alloc"  parseCMD cannot allocate its buffer
\* "stdin"  the end of the input, or a line longer than the input buffer
\* "late"   the Database thread is descheduled between the end of a round and
\*          the end of its resetDB while the Executor registers the next one
FaultKinds == {"sql", "stat", "io", "alloc", "stdin", "late"}

NopLine == [cmd |-> "NOP", args |-> <<>>]

ASSUME ThreadsAssumption ==
  /\ Blank \in Words
  /\ Bug \notin Words
  /\ Dirs \subseteq Words
  /\ FilesOf \in [Dirs -> SUBSET Paths]
  /\ \A i \in Inputs : i.cmd \in Commands /\ i.args \in Seq(Words)
  /\ MaxOut \in Nat
  /\ Faults \subseteq FaultKinds
  /\ IsFiniteSet(Names) /\ IsFiniteSet(Paths)

VARIABLES
  ui_pc, exe_pc, db_pc, main_pc,
  uiexe_turn, uiexe_holder,     \* ctrlmsg.condv_sync
  exedb_turn, exedb_holder,     \* exedb_condv_sync
  program_exit,
  status,                       \* ctrlmsg.status
  io_buf,                       \* ctrlmsg.io_buf: a command line or a message
  line,                         \* UI: local_msg_buffer_
  cin_fail,                     \* UI: std::cin's failbit
  screen,                       \* UI: number of the last message printed
  cmd,                          \* Executor: current_cmd_
  params,                       \* Executor: parameters_[0] and parameters_[1]
  nparams,                      \* Executor: nparams_
  stage,                        \* Executor: which of its two database rounds
  noutput,                      \* Executor: noutput_msgs_
  outidx,                       \* Executor: output_info_index_
  mfl,                          \* mod_files_list: the entries of its lists
  current_op, rec_name, rec_set,    \* Database: the registered operation
  interest,                     \* interest_field
  open_stmt,                    \* Database: sql_stmt_ and more_rows_indicator_
  is_db_op_succeed,
  table,                        \* rows <<mod_name, file_path>>
  game                          \* the mod files present under mhwiroot

pcs    == <<ui_pc, exe_pc, db_pc, main_pc>>
uiexe  == <<uiexe_turn, uiexe_holder>>
exedb  == <<exedb_turn, exedb_holder>>
msg    == <<status, io_buf>>
ui     == <<line, cin_fail, screen>>
exe    == <<cmd, params, nparams, stage, noutput, outidx>>
reg    == <<current_op, rec_name, rec_set, interest>>
db     == <<open_stmt, is_db_op_succeed>>
store  == <<table, game>>

vars == <<pcs, uiexe, exedb, program_exit, msg, ui, exe, mfl, reg, db, store>>

UIEXE == INSTANCE TurnTaking
  WITH EvenSide <- "ui", OddSide <- "exe", Nobody <- "nobody",
       turn <- uiexe_turn, holder <- uiexe_holder

EXEDB == INSTANCE TurnTaking
  WITH EvenSide <- "exe", OddSide <- "db", Nobody <- "nobody",
       turn <- exedb_turn, holder <- exedb_holder

Init ==
  /\ ui_pc = "loop" /\ exe_pc = "top" /\ db_pc = "open" /\ main_pc = "join_db"
  /\ UIEXE!Init /\ EXEDB!Init
  /\ program_exit = FALSE
  /\ status = "EXE_NOMSG" /\ io_buf = [line |-> 0]
  /\ line = NopLine /\ cin_fail = FALSE /\ screen = 0
  /\ cmd = "NOP" /\ params = [i \in 1..2 |-> Blank] /\ nparams = 0
  /\ stage = "before" /\ noutput = 0 /\ outidx = 0
  /\ mfl = {}
  /\ current_op = "SQL_NOP" /\ rec_name = Bug /\ rec_set = FALSE
  /\ interest = "NO_INTEREST"
  /\ open_stmt = "none" /\ is_db_op_succeed = FALSE
  /\ table = {} /\ game = {}

UiGoto(label)  == ui_pc' = label /\ UNCHANGED <<exe_pc, db_pc, main_pc>>
ExeGoto(label) == exe_pc' = label /\ UNCHANGED <<ui_pc, db_pc, main_pc>>
DbGoto(label)  == db_pc' = label /\ UNCHANGED <<ui_pc, exe_pc, main_pc>>
-------------------------------------------------------------------------------
(* The UI thread.                                                          *)

\* for (; !program_exit;)
UiLoop ==
  /\ ui_pc = "loop"
  /\ UiGoto(IF program_exit THEN "await_exit" ELSE "read")
  /\ UNCHANGED <<uiexe, exedb, program_exit, msg, ui, exe, mfl, reg, db, store>>

\* readFromUser returns a line.
UiRead ==
  /\ ui_pc = "read"
  /\ ~cin_fail
  /\ line' \in Inputs
  /\ UiGoto("await_idle")
  /\ UNCHANGED <<uiexe, exedb, program_exit, msg, cin_fail, screen, exe, mfl,
                 reg, db, store>>

\* readFromUser fails; nothing ever clears the failbit, so it fails for good.
UiReadFails ==
  /\ ui_pc = "read"
  /\ cin_fail \/ "stdin" \in Faults
  /\ cin_fail' = TRUE
  /\ UiGoto("loop")
  /\ UNCHANGED <<uiexe, exedb, program_exit, msg, line, screen, exe, mfl, reg,
                 db, store>>

\* The three places where the UI waits for the counter to be even.
UiTake ==
  /\ \/ ui_pc = "await_idle"   /\ UiGoto("send")
     \/ ui_pc = "await_output" /\ UiGoto("recv")
     \/ ui_pc = "await_exit"   /\ UiGoto("send_nop")
  /\ UIEXE!Take("ui")
  /\ UNCHANGED <<exedb, program_exit, msg, ui, exe, mfl, reg, db, store>>

\* The command goes to the Executor.
UiSend ==
  /\ ui_pc = "send"
  /\ status' = "UI_CMD"
  /\ io_buf' = line
  /\ screen' = 0
  /\ UIEXE!Pass("ui")
  /\ UiGoto("await_output")
  /\ UNCHANGED <<exedb, program_exit, line, cin_fail, exe, mfl, reg, db, store>>

\* Variation: every message is taken for the last one.
UiReceiveOnce ==
  /\ ui_pc = "recv"
  /\ UIEXE!Release("ui")
  /\ UiGoto("loop")
  /\ screen' = IF status = "EXE_NOMSG" THEN screen ELSE io_buf.line
  /\ UNCHANGED <<exedb, program_exit, msg, line, cin_fail, exe, mfl, reg, db,
                 store>>

\* Variation: the only message of a command also passes the turn on.
UiReceivePass ==
  /\ ui_pc = "recv"
  /\ \/ /\ status = "EXE_NOMSG"
        /\ UIEXE!Release("ui")
        /\ UiGoto("loop")
        /\ UNCHANGED screen
     \/ /\ status = "EXE_ONEMSG"
        /\ UIEXE!Pass("ui")
        /\ UiGoto("loop")
        /\ screen' = io_buf.line
     \/ /\ status = "EXE_MOREMSG"
        /\ UIEXE!Pass("ui")
        /\ UiGoto("await_output")
        /\ screen' = io_buf.line
  /\ UNCHANGED <<exedb, program_exit, msg, line, cin_fail, exe, mfl, reg, db,
                 store>>

\* The UI prints the message and asks for the next, or ends the command cycle:
\* then the counter stays even, for the next command.
UiReceive ==
  /\ ui_pc = "recv"
  /\ \/ /\ status = "EXE_NOMSG"
        /\ UIEXE!Release("ui")
        /\ UiGoto("loop")
        /\ UNCHANGED screen
     \/ /\ status = "EXE_ONEMSG"
        /\ UIEXE!Release("ui")
        /\ UiGoto("loop")
        /\ screen' = io_buf.line
     \/ /\ status = "EXE_MOREMSG"
        /\ UIEXE!Pass("ui")
        /\ UiGoto("await_output")
        /\ screen' = io_buf.line
  /\ UNCHANGED <<exedb, program_exit, msg, line, cin_fail, exe, mfl, reg, db,
                 store>>

\* After its loop the UI leaves one last command behind.
UiSendNop ==
  /\ ui_pc = "send_nop"
  /\ status' = "UI_CMD"
  /\ io_buf' = NopLine
  /\ UIEXE!Pass("ui")
  /\ UiGoto("done")
  /\ UNCHANGED <<exedb, program_exit, ui, exe, mfl, reg, db, store>>
-------------------------------------------------------------------------------
(* The Executor thread.                                                    *)

\* for (; !program_exit;): the lists are cleared and the status reset.
ExeTop ==
  /\ exe_pc = "top"
  /\ \/ /\ program_exit
        /\ ExeGoto("await_bye")
        /\ UNCHANGED <<exe, mfl>>
     \/ /\ ~program_exit
        /\ ExeGoto("await_cmd")
        /\ mfl' = {}
        /\ cmd' = "NOP"
        /\ outidx' = 0
        /\ UNCHANGED <<params, nparams, stage, noutput>>
  /\ UNCHANGED <<uiexe, exedb, program_exit, msg, ui, reg, db, store>>

\* The two places where the Executor waits for the UI's counter to be odd.
ExeTake ==
  /\ \/ exe_pc = "await_cmd"  /\ ExeGoto("parse")
     \/ exe_pc = "await_more" /\ ExeGoto("output")
  /\ UIEXE!Take("exe")
  /\ UNCHANGED <<exedb, program_exit, msg, ui, exe, mfl, reg, db, store>>

\* parseCMD: the words overwrite the first parameters, the others keep what an
\* earlier command left there.
Parse ==
  /\ exe_pc = "parse"
  /\ \/ /\ "alloc" \in Faults
        /\ ExeGoto("reply")
        /\ UNCHANGED exe
     \/ /\ cmd' = io_buf.cmd
        /\ params' = [i \in 1..2 |-> IF i \in DOMAIN io_buf.args
                                     THEN io_buf.args[i] ELSE params[i]]
        /\ nparams' = Len(io_buf.args)
        /\ stage' = "before"
        /\ ExeGoto(IF cmd' \in {"INSTALL", "UNINSTALL", "INSTALLED"}
                   THEN "await_db" ELSE "execute")
        /\ UNCHANGED <<noutput, outidx>>
  /\ UNCHANGED <<uiexe, exedb, program_exit, msg, ui, mfl, reg, db, store>>

\* The places where the Executor waits for the Database's counter to be even:
\* to register an operation, for its result and before it ends.  Nothing makes
\* the first of them wait for the Database thread's resetDB.
ExeTakeDb ==
  /\ \/ /\ exe_pc = "await_db"
        /\ "late" \in Faults \/ db_pc = "await_req"
        /\ ExeGoto("reg_op")
     \/ exe_pc = "await_result" /\ ExeGoto("check")
     \/ exe_pc = "await_bye"    /\ ExeGoto("bye")
  /\ EXEDB!Take("exe")
  /\ UNCHANGED <<uiexe, program_exit, msg, ui, exe, mfl, reg, db, store>>

\* What the regDBop helper of this command and stage asks for.
RequestedOp ==
  CASE stage = "before"                     -> "SQL_ASK"
    [] stage = "after" /\ cmd = "INSTALL"   -> "SQL_ADD"
    [] stage = "after" /\ cmd # "INSTALL"   -> "SQL_DEL"

RequestedName == IF cmd = "INSTALLED" THEN Bug ELSE params[1]

\* registerDBOperation: three writes that resetDB can come between.
RegOp ==
  /\ exe_pc = "reg_op"
  /\ interest' = CASE cmd = "INSTALLED" -> "INTEREST_NAME"
                   [] stage = "before" /\ cmd # "INSTALLED" -> "INTEREST_PATH"
                   [] OTHER -> interest
  /\ current_op' = RequestedOp
  /\ ExeGoto("reg_name")
  /\ UNCHANGED <<uiexe, exedb, program_exit, msg, ui, exe, mfl, rec_name,
                 rec_set, db, store>>

RegName ==
  /\ exe_pc = "reg_name"
  /\ rec_name' = RequestedName
  /\ ExeGoto("reg_set")
  /\ UNCHANGED <<uiexe, exedb, program_exit, msg, ui, exe, mfl, current_op,
                 rec_set, interest, db, store>>

\* Variation: the record to delete is registered without its is_mod_name_set.
RegSetNotForDel ==
  /\ exe_pc = "reg_set"
  /\ rec_set' = (cmd # "INSTALLED" /\ current_op # "SQL_DEL")
  /\ EXEDB!Pass("exe")
  /\ ExeGoto("await_result")
  /\ UNCHANGED <<uiexe, program_exit, msg, ui, exe, mfl, current_op, rec_name,
                 interest, db, store>>

\* Variation: INSTALLED is asked with a filter too.
RegSetAlways ==
  /\ exe_pc = "reg_set"
  /\ rec_set' = TRUE
  /\ EXEDB!Pass("exe")
  /\ ExeGoto("await_result")
  /\ UNCHANGED <<uiexe, program_exit, msg, ui, exe, mfl, current_op, rec_name,
                 interest, db, store>>

\* The last write, then update_and_notify gives the Database its round.
RegSet ==
  /\ exe_pc = "reg_set"
  /\ rec_set' = (cmd # "INSTALLED")
  /\ EXEDB!Pass("exe")
  /\ ExeGoto("await_result")
  /\ UNCHANGED <<uiexe, program_exit, msg, ui, exe, mfl, current_op, rec_name,
                 interest, db, store>>

\* Variation: the test whether the mod has been installed is left out.
CheckNotInstalled ==
  /\ exe_pc = "check"
  /\ EXEDB!Release("exe")
  /\ ExeGoto(IF ~is_db_op_succeed THEN "failed"
             ELSE IF stage = "after" THEN "output" ELSE "execute")
  /\ UNCHANGED <<uiexe, program_exit, msg, ui, exe, mfl, reg, db, store>>

\* Variation: the Executor puts the object instead of just unlocking it.
CheckAndPass ==
  /\ exe_pc = "check"
  /\ EXEDB!Pass("exe")
  /\ ExeGoto(IF ~is_db_op_succeed THEN "failed"
             ELSE IF stage = "after" THEN "output"
             ELSE IF cmd = "INSTALL" /\ mfl # {} THEN "reply" ELSE "execute")
  /\ UNCHANGED <<uiexe, program_exit, msg, ui, exe, mfl, reg, db, store>>

\* The Executor has the result, keeps its turn and looks at the indicator; a
\* mod with records has been installed already.
Check ==
  /\ exe_pc = "check"
  /\ EXEDB!Release("exe")
  /\ ExeGoto(IF ~is_db_op_succeed THEN "failed"
             ELSE IF stage = "after" THEN "output"
             ELSE IF cmd = "INSTALL" /\ mfl # {} THEN "reply" ELSE "execute")
  /\ UNCHANGED <<uiexe, program_exit, msg, ui, exe, mfl, reg, db, store>>

\* Where a command that was executed without an error goes next.
Executed ==
  ExeGoto(IF cmd \in {"INSTALL", "UNINSTALL"} THEN "await_db" ELSE "output")

\* The syntax checks of executeCurrentCMD, by the number of parameters.
SyntaxOk ==
  CASE cmd = "INSTALL"   -> nparams = 2
    [] cmd = "UNINSTALL" -> nparams = 1
    [] cmd = "INSTALLED" -> nparams = 0
    [] OTHER             -> TRUE

\* Variation: install without the conflict check.  link fails on a path that
\* exists, and the rollback unlinks every file of the mod.
InstallUnchecked ==
  /\ cmd = "INSTALL" /\ params[2] \in Dirs
  /\ mfl' = FilesOf[params[2]]
  /\ IF FilesOf[params[2]] \cap game = {}
     THEN game' = game \cup FilesOf[params[2]] /\ Executed /\ stage' = "after"
     ELSE game' = game \ FilesOf[params[2]] /\ ExeGoto("reply") /\ UNCHANGED stage

\* install: the traversal fills the lists, stat may find no file, then all of them
\* are linked; when one link fails, from a file in the way too, all are unlinked
\* again, results ignored: those in `left' stay behind.
Install ==
  /\ cmd = "INSTALL" /\ params[2] \in Dirs
  /\ LET files == FilesOf[params[2]]
     IN \/ /\ "io" \in Faults
           /\ mfl' \in SUBSET files
           /\ ExeGoto("reply")
           /\ UNCHANGED <<game, stage>>
        \/ /\ files \cap game # {} \/ "stat" \in Faults
           /\ mfl' = files
           /\ ExeGoto("reply")
           /\ UNCHANGED <<game, stage>>
        \/ /\ files \cap game = {}
           /\ mfl' = files
           /\ game' = game \cup files
           /\ stage' = "after"
           /\ Executed
        \/ /\ IF files \cap game = {} THEN "io" \in Faults ELSE "stat" \in Faults
           /\ mfl' = files
           /\ \E left \in SUBSET files :
                /\ left # {} => "io" \in Faults
                /\ left = files => files \cap game # {}
                /\ game' = (game \ files) \cup left
           /\ ExeGoto("reply")
           /\ UNCHANGED stage

\* uninstall: every listed file is unlinked, whatever happened to the others;
\* `gone' are the files that were.  It succeeds if all of them were.
UnlinkAll(gone) ==
  /\ gone \in SUBSET (mfl \cap game)
  /\ "io" \in Faults \/ gone = mfl \cap game
  /\ game' = game \ gone

Uninstall ==
  /\ cmd = "UNINSTALL"
  /\ UNCHANGED mfl
  /\ \/ /\ mfl = {}
        /\ ExeGoto("reply")
        /\ UNCHANGED <<game, stage>>
     \/ /\ mfl # {}
        /\ \E gone \in SUBSET Paths :
             /\ UnlinkAll(gone)
             /\ IF gone = mfl
                THEN Executed /\ stage' = "after"
                ELSE ExeGoto("reply") /\ UNCHANGED stage

\* executeCurrentCMD on a command that touches neither table nor game.
ExecuteOther ==
  /\ UNCHANGED <<game, mfl, stage>>
  /\ \/ /\ cmd = "INSTALL" /\ params[2] \notin Dirs
        /\ ExeGoto("reply")
        /\ UNCHANGED <<noutput, program_exit>>
     \/ /\ cmd = "INSTALLED" /\ mfl = {}
        /\ ExeGoto("reply")
        /\ UNCHANGED <<noutput, program_exit>>
     \/ /\ cmd = "INSTALLED" /\ mfl # {}
        /\ noutput' = Cardinality(mfl)
        /\ Executed
        /\ UNCHANGED program_exit
     \/ /\ cmd = "EXIT"
        /\ noutput' = 0
        /\ program_exit' = TRUE
        /\ Executed
     \/ /\ cmd = "NOP"
        /\ noutput' = 0
        /\ Executed
        /\ UNCHANGED program_exit
     \/ /\ cmd = "OTHER"
        /\ noutput' \in 0..MaxOut
        /\ Executed
        /\ UNCHANGED program_exit
     \/ /\ cmd = "OTHER"
        /\ ExeGoto("reply")
        /\ UNCHANGED <<noutput, program_exit>>

Execute ==
  /\ exe_pc = "execute"
  /\ \/ /\ ~SyntaxOk
        /\ ExeGoto("reply")
        /\ UNCHANGED <<game, mfl, stage, noutput, program_exit>>
     \/ /\ SyntaxOk
        /\ Install \/ Uninstall
        /\ noutput' = 0
        /\ UNCHANGED program_exit
     \/ SyntaxOk /\ ExecuteOther
  /\ UNCHANGED <<uiexe, exedb, msg, ui, cmd, params, nparams, outidx, reg, db,
                 table>>

\* failed_db_interact_checking: for INSTALL, whichever of its two rounds
\* failed, uninstall runs on the lists; when that fails the program stops.
Failed ==
  /\ exe_pc = "failed"
  /\ ExeGoto("reply")
  /\ \/ /\ cmd # "INSTALL"
        /\ UNCHANGED <<cmd, nparams, program_exit, game>>
     \/ /\ cmd = "INSTALL"
        /\ \E gone \in SUBSET Paths :
             /\ UnlinkAll(gone)
             /\ IF mfl # {} /\ gone = mfl
                THEN cmd' = "UNINSTALL" /\ nparams' = 1 /\ UNCHANGED program_exit
                ELSE cmd' = "EXIT" /\ nparams' = 0 /\ program_exit' = TRUE
  /\ UNCHANGED <<uiexe, exedb, msg, ui, params, stage, noutput, outidx, mfl,
                 reg, db, table>>

\* An error, or that the mod is installed: one message, and the next command.
Reply ==
  /\ exe_pc = "reply"
  /\ status' = "EXE_ONEMSG"
  /\ io_buf' = [line |-> 1]
  /\ UIEXE!Pass("exe")
  /\ ExeGoto("top")
  /\ UNCHANGED <<exedb, program_exit, ui, exe, mfl, reg, db, store>>

\* Variation: one line too many.
OutputOneMore ==
  /\ exe_pc = "output"
  /\ UIEXE!Pass("exe")
  /\ \/ /\ outidx <= noutput
        /\ status' = "EXE_MOREMSG"
        /\ io_buf' = [line |-> outidx + 1]
        /\ outidx' = outidx + 1
        /\ ExeGoto("await_more")
     \/ /\ outidx > noutput
        /\ status' = "EXE_NOMSG"
        /\ outidx' = 0
        /\ ExeGoto("top")
        /\ UNCHANGED io_buf
  /\ UNCHANGED <<exedb, program_exit, ui, cmd, params, nparams, stage, noutput,
                 mfl, reg, db, store>>

\* getCMDOutput hands out the lines one at a time, each in a turn of its own.
Output ==
  /\ exe_pc = "output"
  /\ UIEXE!Pass("exe")
  /\ \/ /\ outidx < noutput
        /\ status' = "EXE_MOREMSG"
        /\ io_buf' = [line |-> outidx + 1]
        /\ outidx' = outidx + 1
        /\ ExeGoto("await_more")
     \/ /\ outidx = noutput
        /\ status' = "EXE_NOMSG"
        /\ outidx' = 0
        /\ ExeGoto("top")
        /\ UNCHANGED io_buf
  /\ UNCHANGED <<exedb, program_exit, ui, cmd, params, nparams, stage, noutput,
                 mfl, reg, db, store>>

\* Variation: the last unlock comes without the update.
ByeRelease ==
  /\ exe_pc = "bye"
  /\ EXEDB!Release("exe")
  /\ ExeGoto("done")
  /\ UNCHANGED <<uiexe, program_exit, msg, ui, exe, mfl, reg, db, store>>

\* The loop is over: the Database is let go to see program_exit.
Bye ==
  /\ exe_pc = "bye"
  /\ EXEDB!Pass("exe")
  /\ ExeGoto("done")
  /\ UNCHANGED <<uiexe, program_exit, msg, ui, exe, mfl, reg, db, store>>
-------------------------------------------------------------------------------
(* The Database thread.                                                    *)

\* std::abort ends the process, whatever the other threads are doing.
Abort ==
  /\ ui_pc' = "aborted" /\ exe_pc' = "aborted"
  /\ db_pc' = "aborted" /\ main_pc' = "aborted"

\* The database is opened and, the first time, the table created.
DbOpen ==
  /\ db_pc = "open"
  /\ \/ DbGoto("reset_op")
     \/ "sql" \in Faults /\ Abort
  /\ UNCHANGED <<uiexe, exedb, program_exit, msg, ui, exe, mfl, reg, db, store>>

\* resetDB: the fields of the registered operation, one after the other, and
\* no lock.  more_rows_indicator_ and sql_stmt_ are not among them.
DbResetOp ==
  /\ db_pc = "reset_op"
  /\ current_op' = "SQL_NOP"
  /\ DbGoto("reset_name")
  /\ UNCHANGED <<uiexe, exedb, program_exit, msg, ui, exe, mfl, rec_name,
                 rec_set, interest, db, store>>

DbResetName ==
  /\ db_pc = "reset_name"
  /\ rec_name' = Bug
  /\ DbGoto("reset_set")
  /\ UNCHANGED <<uiexe, exedb, program_exit, msg, ui, exe, mfl, current_op,
                 rec_set, interest, db, store>>

DbResetSet ==
  /\ db_pc = "reset_set"
  /\ rec_set' = FALSE
  /\ DbGoto("await_req")
  /\ UNCHANGED <<uiexe, exedb, program_exit, msg, ui, exe, mfl, current_op,
                 rec_name, interest, db, store>>

\* The Database waits for the counter to be odd.
DbTake ==
  /\ db_pc = "await_req"
  /\ EXEDB!Take("db")
  /\ DbGoto("begin")
  /\ UNCHANGED <<uiexe, program_exit, msg, ui, exe, mfl, reg, db, store>>

\* It stops without a transaction if the program is exiting.
DbBegin ==
  /\ db_pc = "begin"
  /\ DbGoto(IF program_exit THEN "close" ELSE "round")
  /\ UNCHANGED <<uiexe, exedb, program_exit, msg, ui, exe, mfl, reg, db, store>>

\* The rows of a statement with a WHERE on the name, or without a WHERE.
Selected == {r \in table : rec_set => r[1] = rec_name}

\* The rows an ASK can still get.  A SELECT left open by an earlier ASK is
\* resumed: its cursor has passed some rows, and the name it compares with is
\* bound to record_buf_ itself, so it is the name registered now.
Results ==
  CASE open_stmt = "none"  -> {Selected}
    [] open_stmt = "named" -> SUBSET {r \in table : r[1] = rec_name}
    [] open_stmt = "all"   -> SUBSET table

\* What goes into mod_files_list for the rows.
Entries(rows) ==
  {IF interest = "INTEREST_NAME" THEN r[1] ELSE r[2] : r \in rows}

\* stat of a row's path, done for INTEREST_PATH only.
StatOk(r)   == interest = "INTEREST_NAME" \/ r[2] \in game
StatFail(r) == interest = "INTEREST_PATH" /\ (r[2] \in game => "stat" \in Faults)

\* do_DB_ask: row after row goes into the lists until the statement is done or
\* a path cannot be stat'ed; then the worker returns with the statement open.
DoAsk ==
  \E rows \in Results :
    \/ /\ \A r \in rows : StatOk(r)
       /\ mfl' = mfl \cup Entries(rows)
       /\ open_stmt' = "none"
       /\ is_db_op_succeed' = TRUE
    \/ \E seen \in SUBSET rows :
         /\ \A r \in seen : StatOk(r)
         /\ \/ /\ \E r \in rows \ seen : StatFail(r)
               /\ open_stmt' = IF open_stmt # "none" THEN open_stmt
                               ELSE IF rec_set THEN "named" ELSE "all"
            \/ /\ "sql" \in Faults
               /\ open_stmt' = "none"
         /\ mfl' = mfl \cup Entries(seen)
         /\ is_db_op_succeed' = FALSE

\* Variation: the DELETE that clears up after a failed INSERT leaves the status
\* idle, and the worker is not told of the error.
DoAddUntold ==
  /\ UNCHANGED mfl
  /\ open_stmt' = "none"
  /\ is_db_op_succeed' = TRUE
  /\ \/ table' = table \cup ({rec_name} \X mfl)
     \/ "sql" \in Faults /\ mfl # {} /\ table' = {r \in table : r[1] # rec_name}

\* do_DB_add: a row for every entry.  After a failed statement all rows of the
\* mod are deleted, which may fail too.  A SELECT left open is resumed first,
\* and every step it takes stands for an INSERT that is not done.
DoAdd ==
  /\ UNCHANGED mfl
  /\ \/ /\ open_stmt = "none"
        /\ table' = table \cup ({rec_name} \X mfl)
        /\ is_db_op_succeed' = TRUE
        /\ UNCHANGED open_stmt
     \/ /\ open_stmt # "none"
        /\ \/ table' = table /\ UNCHANGED open_stmt
           \/ \E done \in (SUBSET mfl) \ {mfl} :
                /\ table' = table \cup ({rec_name} \X done)
                /\ open_stmt' = "none"
        /\ is_db_op_succeed' = TRUE
     \/ /\ "sql" \in Faults
        /\ \E done \in (SUBSET mfl) \ {mfl} :
             \/ table' = table \cup ({rec_name} \X done)
             \/ table' = {r \in table : r[1] # rec_name}
        /\ open_stmt' = "none"
        /\ is_db_op_succeed' = FALSE

\* do_DB_del.  An ASK that was completed goes before it: nothing is left open.
DoDel ==
  /\ UNCHANGED <<mfl, open_stmt>>
  /\ \/ /\ table' = table \ Selected
        /\ is_db_op_succeed' = TRUE
     \/ /\ "sql" \in Faults
        /\ is_db_op_succeed' = FALSE
        /\ UNCHANGED table

\* Variation: the round ends without update_and_notify.
DbRoundKeepsTurn ==
  /\ db_pc = "round"
  /\ \/ current_op = "SQL_ASK" /\ DoAsk /\ UNCHANGED table
     \/ current_op = "SQL_ADD" /\ DoAdd
     \/ current_op = "SQL_DEL" /\ DoDel
     \/ /\ current_op = "SQL_NOP"
        /\ is_db_op_succeed' = TRUE
        /\ UNCHANGED <<mfl, open_stmt, table>>
  /\ EXEDB!Release("db")
  /\ DbGoto("reset_op")
  /\ UNCHANGED <<uiexe, program_exit, msg, ui, exe, reg, game>>

\* One round: the registered operation, then update_and_notify.
DbRound ==
  /\ db_pc = "round"
  /\ \/ current_op = "SQL_ASK" /\ DoAsk /\ UNCHANGED table
     \/ current_op = "SQL_ADD" /\ DoAdd
     \/ current_op = "SQL_DEL" /\ DoDel
     \/ /\ current_op = "SQL_NOP"
        /\ is_db_op_succeed' = TRUE
        /\ UNCHANGED <<mfl, open_stmt, table>>
  /\ EXEDB!Pass("db")
  /\ DbGoto("reset_op")
  /\ UNCHANGED <<uiexe, program_exit, msg, ui, exe, reg, game>>

\* closeDB; the lock goes when the worker returns.
DbClose ==
  /\ db_pc = "close"
  /\ EXEDB!Release("db")
  /\ DbGoto("done")
  /\ UNCHANGED <<uiexe, program_exit, msg, ui, exe, mfl, reg, db, store>>
-------------------------------------------------------------------------------
(* The main thread joins the workers and rewrites the config file.         *)
MainGoto(label) == main_pc' = label /\ UNCHANGED <<ui_pc, exe_pc, db_pc>>

MainJoin ==
  /\ \/ main_pc = "join_db"  /\ db_pc = "done"  /\ MainGoto("join_exe")
     \/ main_pc = "join_exe" /\ exe_pc = "done" /\ MainGoto("join_ui")
     \/ main_pc = "join_ui"  /\ ui_pc = "done"  /\ MainGoto("config")
     \/ main_pc = "config"   /\ MainGoto("done")
  /\ UNCHANGED <<uiexe, exedb, program_exit, msg, ui, exe, mfl, reg, db, store>>

Terminating == main_pc \in {"done", "aborted"} /\ UNCHANGED vars

UiStep ==
  \/ UiLoop \/ UiTake \/ UiSend \/ UiReceive \/ UiSendNop

ExeStep ==
  \/ ExeTop \/ ExeTake \/ Parse \/ ExeTakeDb \/ RegOp \/ RegName \/ RegSet
  \/ Check \/ Execute \/ Failed \/ Reply \/ Output \/ Bye

DbStep ==
  \/ DbOpen \/ DbResetOp \/ DbResetName \/ DbResetSet \/ DbTake \/ DbBegin
  \/ DbRound \/ DbClose

Next ==
  UiRead \/ UiReadFails \/ UiStep \/ ExeStep \/ DbStep \/ MainJoin \/ Terminating

Spec == Init /\ [][Next]_vars

\* Every thread that can run does; nobody promises that the user types.
Fairness ==
  WF_vars(UiStep) /\ WF_vars(ExeStep) /\ WF_vars(DbStep) /\ WF_vars(MainJoin)

FairSpec == Spec /\ Fairness
-------------------------------------------------------------------------------
UiLabels ==
  {"loop", "read", "await_idle", "send", "await_output", "recv", "await_exit",
   "send_nop", "done", "aborted"}

ExeLabels ==
  {"top", "await_cmd", "parse", "await_db", "reg_op", "reg_name", "reg_set",
   "await_result", "check", "execute", "failed", "reply", "output",
   "await_more", "await_bye", "bye", "done", "aborted"}

DbLabels ==
  {"open", "reset_op", "reset_name", "reset_set", "await_req", "begin", "round",
   "close", "done", "aborted"}

MainLabels == {"join_db", "join_exe", "join_ui", "config", "done", "aborted"}

\* Every variable keeps its type, and the index of the next line never passes
\* the number of lines.
TypeOK ==
  /\ ui_pc \in UiLabels /\ exe_pc \in ExeLabels
  /\ db_pc \in DbLabels /\ main_pc \in MainLabels
  /\ UIEXE!TypeOK /\ EXEDB!TypeOK
  /\ program_exit \in BOOLEAN
  /\ status \in {"UI_CMD", "EXE_NOMSG", "EXE_ONEMSG", "EXE_MOREMSG"}
  /\ io_buf \in Inputs \cup {NopLine} \cup [line : Nat]
  /\ line \in Inputs \cup {NopLine} /\ cin_fail \in BOOLEAN /\ screen \in Nat
  /\ cmd \in Commands /\ params \in [1..2 -> Words] /\ nparams \in Nat
  /\ stage \in {"before", "after"} /\ noutput \in Nat /\ outidx \in 0..noutput
  /\ mfl \in SUBSET (Paths \cup Names)
  /\ current_op \in {"SQL_NOP", "SQL_ASK", "SQL_ADD", "SQL_DEL"}
  /\ rec_name \in Names /\ rec_set \in BOOLEAN
  /\ interest \in {"NO_INTEREST", "INTEREST_NAME", "INTEREST_PATH"}
  /\ open_stmt \in {"none", "named", "all"} /\ is_db_op_succeed \in BOOLEAN
  /\ table \in SUBSET (Names \X Paths) /\ game \in SUBSET Paths

\* The two assertions of the workers: whoever comes out of a wait on
\* ctrlmsg.condv_sync finds a status that the other side left there, although
\* one end of a command keeps the turn and the other passes it on
\* (mhwimm_executor_thread_worker, mhwimm_ui_thread_worker).
HandshakeAsserts ==
  /\ exe_pc = "parse" => status = "UI_CMD"
  /\ ui_pc = "recv" => status # "UI_CMD"

\* The Database works only for an Executor that waits for the result, on behalf
\* of a UI that waits for the output, and never once the program is exiting: no
\* two threads ever have the lists, the table or the game to themselves at once
\* (mhwimm_db_thread_worker).
StrictHandover ==
  db_pc = "round" =>
    exe_pc = "await_result" /\ ui_pc = "await_output" /\ ~program_exit

\* The user sees every line of a command's output, in order and none twice, and
\* the next command starts only after the last (the receive loop of the UI
\* against getCMDOutput).
EveryLineShown ==
  ui_pc = "recv" =>
    /\ status = "EXE_MOREMSG" => io_buf.line = screen + 1
    /\ status = "EXE_NOMSG" => screen = noutput

\* Every command that was sent is answered, whatever fails below it: the UI
\* gets back to its loop (the waits of all three workers).
CommandAnswered ==
  (ui_pc = "await_output") ~> (ui_pc \in {"loop", "aborted"})

\* Once the program is exiting all three workers end and are joined, however
\* the exit came about: typed, or decided after a failed undo (the last turns
\* the UI and the Executor pass on when their loops are over).
ExitTerminates == program_exit ~> (main_pc \in {"done", "aborted"})

\* While a command runs only rows of the mod it names appear or disappear, even
\* when statements fail half-way or a left-over SELECT is resumed
\* (do_DB_add, do_DB_del and the registration helpers).
RowsOnlyOfCommand ==
  [][\A r \in (table \ table') \cup (table' \ table) : r[1] = params[1]]_vars

\* When the Executor goes on to output as after a success, INSTALL has left
\* every file in the game and on record, UNINSTALL has left no record
\* (failed_db_interact_checking, is_db_op_succeed).
SuccessIsTrue ==
  exe_pc = "output" =>
    /\ cmd = "INSTALL" =>
         /\ FilesOf[params[2]] \subseteq game
         /\ {params[1]} \X FilesOf[params[2]] \subseteq table
    /\ cmd = "UNINSTALL" => \A r \in table : r[1] # params[1]

(* The next three hold as long as the database and the file system do not  *)
(* fail and resetDB is not overtaken (Faults \subseteq {"alloc", "stdin"}).*)

\* Between two commands the game holds exactly the files on record, and no file
\* is on record for two mods (install's conflict check and rollback, uninstall,
\* and the two database rounds around them).
RecordsMatchGame ==
  exe_pc \in {"top", "await_cmd"} =>
    /\ game = {r[2] : r \in table}
    /\ \A r, s \in table : r[2] = s[2] => r = s

\* installed is given, and prints, every recorded mod and no other (do_DB_ask and
\* the list the Executor prints from).
InstalledListsRecorded ==
  exe_pc \in {"execute", "output", "await_more"} /\ cmd = "INSTALLED" =>
    mfl = {r[1] : r \in table}

\* The table is a registry of mods: the two rounds of INSTALL, one that asks and
\* one that adds, act as one installation that checks and records.
Registry == INSTANCE ModRegistry WITH records <- table

RegistryKept == Registry!Spec

(* What comments of the code say and the code does not do.                 *)

\* "we failed on add record for INSTALL,thus have to undo INSTALL": the undo
\* removes files after a failed ADD, not after a failed ASK
\* (failed_db_interact_checking).
UndoOnlyAfterAdd ==
  [][exe_pc = "failed" /\ stage = "before" => UNCHANGED game]_vars

\* "database should removes the records of this mod if uninstalling succeed":
\* uninstall forgets a file only after it has removed it (uninstall, do_DB_ask).
ForgetsOnlyRemoved ==
  [][cmd = "UNINSTALL" => \A r \in table \ table' : r[2] \notin game]_vars

\* "DB operation will be registered by Executor via call to register helpers":
\* the Database's round carries out what the Executor registered.
RequestIsServed ==
  db_pc = "round" =>
    /\ current_op = RequestedOp
    /\ rec_set => rec_name = RequestedName
    /\ rec_set = (cmd # "INSTALLED")

\* "parse a new transaction with an invalid command,then it will execute NOP":
\* the Executor parses the line the UI sends after its loop.
LastCommandParsed == (ui_pc = "send_nop") ~> (exe_pc = "parse")
===============================================================================
