-------------------------- MODULE MhwimmThreadsProofs --------------------------
(***************************************************************************)
(* Proofs about the three workers, for all words, paths, mod directories,  *)
(* input lines and faults.                                                 *)
(*                                                                         *)
(* The three safety properties are about moments at which one thread is at *)
(* a certain line; none is inductive.  The invariant below follows the     *)
(* turns: which lines a thread can be at while it holds an object, which   *)
(* while it only waits for its turn, what the shared status means for the  *)
(* side whose turn it is, and that the exit closes the way to new commands.*)
(***************************************************************************)
EXTENDS MhwimmThreads, FiniteSetTheorems, TLAPS

\* The lines at which the Executor holds ctrlmsg.condv_sync: it does so for
\* as long as it processes a command.
Busy ==
  {"parse", "await_db", "reg_op", "reg_name", "reg_set", "await_result",
   "check", "execute", "failed", "reply", "output"}

\* std::abort ends all threads at once.
AbortInv ==
  /\ ui_pc = "aborted" <=> main_pc = "aborted"
  /\ exe_pc = "aborted" <=> main_pc = "aborted"
  /\ db_pc = "aborted" <=> main_pc = "aborted"

Alive == main_pc # "aborted"

\* Who holds the object between UI and Executor, and whose turn it is.
UiExeInv ==
  Alive =>
    /\ uiexe_holder = "ui" <=> ui_pc \in {"send", "recv", "send_nop"}
    /\ uiexe_holder = "exe" <=> exe_pc \in Busy
    /\ uiexe_holder # "nobody" => uiexe_turn = uiexe_holder
    /\ ui_pc \notin {"await_output", "recv", "done"} =>
         uiexe_turn = "ui" /\ exe_pc # "await_more"

\* The same between Executor and Database; the Executor gives its turn away
\* only when it waits for a result or has ended.
ExeDbInv ==
  Alive =>
    /\ exedb_holder = "exe" <=>
         exe_pc \in {"reg_op", "reg_name", "reg_set", "check", "bye"}
    /\ exedb_holder = "db" <=> db_pc \in {"begin", "round", "close"}
    /\ exedb_holder # "nobody" => exedb_turn = exedb_holder
    /\ exedb_turn = "db" => exe_pc \in {"await_result", "done"}

\* After program_exit is set no thread is on the way into a command.
ExitInv ==
  /\ exe_pc \in {"await_bye", "bye", "done"} => program_exit
  /\ ui_pc \in {"await_exit", "send_nop", "done"} => program_exit
  /\ program_exit =>
       exe_pc \notin ((Busy \ {"reply", "output"}) \cup {"await_cmd"})
  /\ program_exit => db_pc # "round"

\* The status is a command for the Executor about to take one, and a message
\* for a UI about to receive; there is more to come iff the Executor waits.
StatusInv ==
  /\ uiexe_turn = "exe" /\ exe_pc \in {"top", "await_cmd", "parse"} =>
       status = "UI_CMD"
  /\ uiexe_turn = "ui" /\ ui_pc \in {"await_output", "recv"} =>
       /\ status # "UI_CMD"
       /\ status = "EXE_MOREMSG" <=> exe_pc = "await_more"

\* The buffer holds what the status says.
BufferInv ==
  /\ status = "UI_CMD" => io_buf \in Inputs \cup {NopLine}
  /\ status \in {"EXE_ONEMSG", "EXE_MOREMSG"} => io_buf \in [line : Nat]

\* How far the UI is behind the Executor in showing the lines of a command.
LinesInv ==
  /\ exe_pc \notin {"output", "await_more", "aborted"} => outidx = 0
  /\ ui_pc = "await_output" /\ uiexe_turn = "exe" => screen = outidx
  /\ ui_pc \in {"await_output", "recv"} /\ uiexe_turn = "ui" =>
       /\ status = "EXE_MOREMSG" => io_buf.line = outidx /\ outidx = screen + 1
       /\ status = "EXE_NOMSG" => screen = noutput

\* The operation the Database finds is what was registered, or none; when it
\* is an ADD the lists hold paths.
RegisterInv ==
  /\ exe_pc \in {"reg_name", "reg_set", "await_result"} =>
       current_op \in {"SQL_NOP", RequestedOp}
  /\ cmd = "INSTALL" /\ stage = "after"
     /\ exe_pc \in {"await_db", "reg_op", "reg_name", "reg_set",
        "await_result"}
       => mfl \in SUBSET Paths

IInv ==
  /\ TypeOK
  /\ AbortInv
  /\ UiExeInv
  /\ ExeDbInv
  /\ ExitInv
  /\ StatusInv
  /\ BufferInv
  /\ LinesInv
  /\ RegisterInv
-------------------------------------------------------------------------------
\* Every step keeps the hand-overs in order.
LEMMA ControlStep ==
  IInv /\ [Next]_vars => (AbortInv /\ UiExeInv /\ ExeDbInv /\ ExitInv)'
<1> SUFFICES ASSUME IInv, [Next]_vars
             PROVE  (AbortInv /\ UiExeInv /\ ExeDbInv /\ ExitInv)'
  OBVIOUS
<1> USE DEF IInv, AbortInv, Alive, UiExeInv, ExeDbInv, ExitInv,
            Busy, vars, pcs, uiexe, exedb, msg, ui, exe, reg, db, store
<1>1. CASE UiLoop
  BY <1>1 DEF UiLoop, UiGoto
<1>2. CASE UiRead
  BY <1>2 DEF UiRead, UiGoto
<1>3. CASE UiReadFails
  BY <1>3 DEF UiReadFails, UiGoto
<1>4. CASE UiTake
  BY <1>4 DEF UiTake, UiGoto, UIEXE!Take
<1>5. CASE UiSend
  BY <1>5 DEF UiSend, UiGoto, UIEXE!Pass, UIEXE!OtherSide
<1>6. CASE UiReceive
  BY <1>6
     DEF UiReceive, UiGoto, UIEXE!Pass, UIEXE!Release, UIEXE!OtherSide,
         StatusInv
<1>7. CASE UiSendNop
  BY <1>7 DEF UiSendNop, UiGoto, UIEXE!Pass, UIEXE!OtherSide
<1>8. CASE ExeTop
  BY <1>8 DEF ExeTop, ExeGoto
<1>9. CASE ExeTake
  BY <1>9 DEF ExeTake, ExeGoto, UIEXE!Take
<1>10. CASE Parse
  BY <1>10 DEF Parse, ExeGoto
<1>11. CASE ExeTakeDb
  BY <1>11 DEF ExeTakeDb, ExeGoto, EXEDB!Take
<1>12. CASE RegOp
  BY <1>12 DEF RegOp, ExeGoto
<1>13. CASE RegName
  BY <1>13 DEF RegName, ExeGoto
<1>14. CASE RegSet
  BY <1>14 DEF RegSet, ExeGoto, EXEDB!Pass, EXEDB!OtherSide
<1>15. CASE Check
  BY <1>15 DEF Check, ExeGoto, EXEDB!Release
<1>16. CASE Execute
  BY <1>16
     DEF Execute, ExeGoto, Install, Uninstall, UnlinkAll, ExecuteOther,
         Executed
<1>17. CASE Failed
  BY <1>17 DEF Failed, ExeGoto, UnlinkAll
<1>18. CASE Reply
  BY <1>18 DEF Reply, ExeGoto, UIEXE!Pass, UIEXE!OtherSide
<1>19. CASE Output
  BY <1>19 DEF Output, ExeGoto, UIEXE!Pass, UIEXE!OtherSide
<1>20. CASE Bye
  BY <1>20 DEF Bye, ExeGoto, EXEDB!Pass, EXEDB!OtherSide
<1>21. CASE DbOpen
  BY <1>21 DEF DbOpen, DbGoto, Abort
<1>22. CASE DbResetOp
  BY <1>22 DEF DbResetOp, DbGoto
<1>23. CASE DbResetName
  BY <1>23 DEF DbResetName, DbGoto
<1>24. CASE DbResetSet
  BY <1>24 DEF DbResetSet, DbGoto
<1>25. CASE DbTake
  BY <1>25 DEF DbTake, DbGoto, EXEDB!Take
<1>26. CASE DbBegin
  BY <1>26 DEF DbBegin, DbGoto
<1>27. CASE DbRound
  BY <1>27
     DEF DbRound, DbGoto, EXEDB!Pass, EXEDB!OtherSide, DoAsk, DoAdd, DoDel
<1>28. CASE DbClose
  BY <1>28 DEF DbClose, DbGoto, EXEDB!Release
<1>29. CASE MainJoin
  BY <1>29 DEF MainJoin, MainGoto
<1>30. CASE UNCHANGED vars
  BY <1>30
<1>31. QED
  BY <1>1, <1>2, <1>3, <1>4, <1>5, <1>6, <1>7, <1>8, <1>9, <1>10, <1>11,
     <1>12, <1>13, <1>14, <1>15, <1>16, <1>17, <1>18, <1>19, <1>20, <1>21,
     <1>22, <1>23, <1>24, <1>25, <1>26, <1>27, <1>28, <1>29, <1>30
     DEF Next, UiStep, ExeStep, DbStep, Terminating

\* Every step keeps the meaning of the status for the side whose turn it is.
LEMMA StatusStep == IInv /\ [Next]_vars => (StatusInv /\ BufferInv)'
<1> SUFFICES ASSUME IInv, [Next]_vars PROVE (StatusInv /\ BufferInv)'
  OBVIOUS
<1> USE DEF IInv, AbortInv, Alive, UiExeInv, Busy, ExitInv,
            StatusInv, BufferInv, TypeOK, UIEXE!TypeOK, UIEXE!Sides, vars, pcs,
            uiexe, exedb, msg, ui, exe, reg, db, store
<1>1. CASE UiLoop
  BY <1>1 DEF UiLoop, UiGoto
<1>2. CASE UiRead
  BY <1>2 DEF UiRead, UiGoto
<1>3. CASE UiReadFails
  BY <1>3 DEF UiReadFails, UiGoto
<1>4. CASE UiTake
  BY <1>4 DEF UiTake, UiGoto, UIEXE!Take
<1>5. CASE UiSend
  BY <1>5 DEF UiSend, UiGoto, UIEXE!Pass, UIEXE!OtherSide
<1>6. CASE UiReceive
  BY <1>6 DEF UiReceive, UiGoto, UIEXE!Pass, UIEXE!Release, UIEXE!OtherSide
<1>7. CASE UiSendNop
  BY <1>7 DEF UiSendNop, UiGoto, UIEXE!Pass, UIEXE!OtherSide
<1>8. CASE ExeTop
  BY <1>8 DEF ExeTop, ExeGoto
<1>9. CASE ExeTake
  BY <1>9 DEF ExeTake, ExeGoto, UIEXE!Take
<1>10. CASE Parse
  BY <1>10 DEF Parse, ExeGoto
<1>11. CASE ExeTakeDb
  BY <1>11 DEF ExeTakeDb, ExeGoto, EXEDB!Take
<1>12. CASE RegOp
  BY <1>12 DEF RegOp, ExeGoto
<1>13. CASE RegName
  BY <1>13 DEF RegName, ExeGoto
<1>14. CASE RegSet
  BY <1>14 DEF RegSet, ExeGoto, EXEDB!Pass, EXEDB!OtherSide
<1>15. CASE Check
  BY <1>15 DEF Check, ExeGoto, EXEDB!Release
<1>16. CASE Execute
  BY <1>16
     DEF Execute, ExeGoto, Install, Uninstall, UnlinkAll, ExecuteOther,
         Executed
<1>17. CASE Failed
  BY <1>17 DEF Failed, ExeGoto, UnlinkAll
<1>18. CASE Reply
  BY <1>18 DEF Reply, ExeGoto, UIEXE!Pass, UIEXE!OtherSide
<1>19. CASE Output
  BY <1>19 DEF Output, ExeGoto, UIEXE!Pass, UIEXE!OtherSide
<1>20. CASE Bye
  BY <1>20 DEF Bye, ExeGoto, EXEDB!Pass, EXEDB!OtherSide
<1>21. CASE DbOpen
  BY <1>21 DEF DbOpen, DbGoto, Abort
<1>22. CASE DbResetOp
  BY <1>22 DEF DbResetOp, DbGoto
<1>23. CASE DbResetName
  BY <1>23 DEF DbResetName, DbGoto
<1>24. CASE DbResetSet
  BY <1>24 DEF DbResetSet, DbGoto
<1>25. CASE DbTake
  BY <1>25 DEF DbTake, DbGoto, EXEDB!Take
<1>26. CASE DbBegin
  BY <1>26 DEF DbBegin, DbGoto
<1>27. CASE DbRound
  BY <1>27
     DEF DbRound, DbGoto, EXEDB!Pass, EXEDB!OtherSide, DoAsk, DoAdd, DoDel
<1>28. CASE DbClose
  BY <1>28 DEF DbClose, DbGoto, EXEDB!Release
<1>29. CASE MainJoin
  BY <1>29 DEF MainJoin, MainGoto
<1>30. CASE UNCHANGED vars
  BY <1>30
<1>31. QED
  BY <1>1, <1>2, <1>3, <1>4, <1>5, <1>6, <1>7, <1>8, <1>9, <1>10, <1>11,
     <1>12, <1>13, <1>14, <1>15, <1>16, <1>17, <1>18, <1>19, <1>20, <1>21,
     <1>22, <1>23, <1>24, <1>25, <1>26, <1>27, <1>28, <1>29, <1>30
     DEF Next, UiStep, ExeStep, DbStep, Terminating

\* Every step keeps the UI and the Executor in step over the lines of a command.
LEMMA LinesStep == IInv /\ [Next]_vars => LinesInv'
<1> SUFFICES ASSUME IInv, [Next]_vars PROVE LinesInv'
  OBVIOUS
<1> USE DEF IInv, AbortInv, Alive, UiExeInv, Busy, StatusInv,
            BufferInv, LinesInv, vars, pcs, uiexe, exedb, msg, ui, exe, reg,
            db, store
<1>1. CASE UiLoop
  BY <1>1 DEF UiLoop, UiGoto
<1>2. CASE UiRead
  BY <1>2 DEF UiRead, UiGoto
<1>3. CASE UiReadFails
  BY <1>3 DEF UiReadFails, UiGoto
<1>4. CASE UiTake
  BY <1>4 DEF UiTake, UiGoto, UIEXE!Take
<1>5. CASE UiSend
  BY <1>5 DEF UiSend, UiGoto, UIEXE!Pass, UIEXE!OtherSide
<1>6. CASE UiReceive
  BY <1>6 DEF UiReceive, UiGoto, UIEXE!Pass, UIEXE!Release, UIEXE!OtherSide
<1>7. CASE UiSendNop
  BY <1>7 DEF UiSendNop, UiGoto, UIEXE!Pass, UIEXE!OtherSide, ExitInv
<1>8. CASE ExeTop
  BY <1>8 DEF ExeTop, ExeGoto
<1>9. CASE ExeTake
  BY <1>9 DEF ExeTake, ExeGoto, UIEXE!Take
<1>10. CASE Parse
  BY <1>10 DEF Parse, ExeGoto
<1>11. CASE ExeTakeDb
  BY <1>11 DEF ExeTakeDb, ExeGoto, EXEDB!Take
<1>12. CASE RegOp
  BY <1>12 DEF RegOp, ExeGoto
<1>13. CASE RegName
  BY <1>13 DEF RegName, ExeGoto
<1>14. CASE RegSet
  BY <1>14 DEF RegSet, ExeGoto, EXEDB!Pass, EXEDB!OtherSide
<1>15. CASE Check
  BY <1>15 DEF Check, ExeGoto, EXEDB!Release
<1>16. CASE Execute
  BY <1>16
     DEF Execute, ExeGoto, Install, Uninstall, UnlinkAll, ExecuteOther,
         Executed
<1>17. CASE Failed
  BY <1>17 DEF Failed, ExeGoto, UnlinkAll
<1>18. CASE Reply
  BY <1>18 DEF Reply, ExeGoto, UIEXE!Pass, UIEXE!OtherSide
<1>19. CASE Output
  BY <1>19
     DEF Output, ExeGoto, UIEXE!Pass, UIEXE!OtherSide, TypeOK, UIEXE!TypeOK,
         UIEXE!Sides
<1>20. CASE Bye
  BY <1>20 DEF Bye, ExeGoto, EXEDB!Pass, EXEDB!OtherSide
<1>21. CASE DbOpen
  BY <1>21 DEF DbOpen, DbGoto, Abort
<1>22. CASE DbResetOp
  BY <1>22 DEF DbResetOp, DbGoto
<1>23. CASE DbResetName
  BY <1>23 DEF DbResetName, DbGoto
<1>24. CASE DbResetSet
  BY <1>24 DEF DbResetSet, DbGoto
<1>25. CASE DbTake
  BY <1>25 DEF DbTake, DbGoto, EXEDB!Take
<1>26. CASE DbBegin
  BY <1>26 DEF DbBegin, DbGoto
<1>27. CASE DbRound
  BY <1>27
     DEF DbRound, DbGoto, EXEDB!Pass, EXEDB!OtherSide, DoAsk, DoAdd, DoDel
<1>28. CASE DbClose
  BY <1>28 DEF DbClose, DbGoto, EXEDB!Release
<1>29. CASE MainJoin
  BY <1>29 DEF MainJoin, MainGoto
<1>30. CASE UNCHANGED vars
  BY <1>30
<1>31. QED
  BY <1>1, <1>2, <1>3, <1>4, <1>5, <1>6, <1>7, <1>8, <1>9, <1>10, <1>11,
     <1>12, <1>13, <1>14, <1>15, <1>16, <1>17, <1>18, <1>19, <1>20, <1>21,
     <1>22, <1>23, <1>24, <1>25, <1>26, <1>27, <1>28, <1>29, <1>30
     DEF Next, UiStep, ExeStep, DbStep, Terminating

\* Every step keeps the registered operation and the lists behind an ADD.
LEMMA RegisterStep == IInv /\ [Next]_vars => RegisterInv'
<1> SUFFICES ASSUME IInv, [Next]_vars PROVE RegisterInv'
  OBVIOUS
<1> USE DEF IInv, AbortInv, Alive, UiExeInv, ExeDbInv, ExitInv,
            RegisterInv, RequestedOp, vars, pcs, uiexe, exedb, msg, ui, exe,
            reg, db, store
<1>1. CASE UiLoop
  BY <1>1 DEF UiLoop, UiGoto
<1>2. CASE UiRead
  BY <1>2 DEF UiRead, UiGoto
<1>3. CASE UiReadFails
  BY <1>3 DEF UiReadFails, UiGoto
<1>4. CASE UiTake
  BY <1>4 DEF UiTake, UiGoto, UIEXE!Take
<1>5. CASE UiSend
  BY <1>5 DEF UiSend, UiGoto, UIEXE!Pass, UIEXE!OtherSide
<1>6. CASE UiReceive
  BY <1>6 DEF UiReceive, UiGoto, UIEXE!Pass, UIEXE!Release, UIEXE!OtherSide
<1>7. CASE UiSendNop
  BY <1>7 DEF UiSendNop, UiGoto, UIEXE!Pass, UIEXE!OtherSide
<1>8. CASE ExeTop
  BY <1>8 DEF ExeTop, ExeGoto
<1>9. CASE ExeTake
  BY <1>9 DEF ExeTake, ExeGoto, UIEXE!Take
<1>10. CASE Parse
  BY <1>10 DEF Parse, ExeGoto
<1>11. CASE ExeTakeDb
  BY <1>11 DEF ExeTakeDb, ExeGoto, EXEDB!Take
<1>12. CASE RegOp
  BY <1>12 DEF RegOp, ExeGoto
<1>13. CASE RegName
  BY <1>13 DEF RegName, ExeGoto
<1>14. CASE RegSet
  BY <1>14 DEF RegSet, ExeGoto, EXEDB!Pass, EXEDB!OtherSide
<1>15. CASE Check
  BY <1>15 DEF Check, ExeGoto, EXEDB!Release
<1>16. CASE Execute
  <2>1. params[2] \in Dirs => FilesOf[params[2]] \in SUBSET Paths
    BY ThreadsAssumption
  <2>2. CASE Install
    BY <1>16, <2>1, <2>2 DEF Execute, ExeGoto, Install, Executed
  <2>3. CASE ~Install
    BY <1>16, <2>3
       DEF Execute, ExeGoto, Uninstall, UnlinkAll, ExecuteOther, Executed
  <2>4. QED
    BY <2>2, <2>3
<1>17. CASE Failed
  BY <1>17 DEF Failed, ExeGoto, UnlinkAll
<1>18. CASE Reply
  BY <1>18 DEF Reply, ExeGoto, UIEXE!Pass, UIEXE!OtherSide
<1>19. CASE Output
  BY <1>19 DEF Output, ExeGoto, UIEXE!Pass, UIEXE!OtherSide
<1>20. CASE Bye
  BY <1>20 DEF Bye, ExeGoto, EXEDB!Pass, EXEDB!OtherSide
<1>21. CASE DbOpen
  BY <1>21 DEF DbOpen, DbGoto, Abort
<1>22. CASE DbResetOp
  BY <1>22 DEF DbResetOp, DbGoto
<1>23. CASE DbResetName
  BY <1>23 DEF DbResetName, DbGoto
<1>24. CASE DbResetSet
  BY <1>24 DEF DbResetSet, DbGoto
<1>25. CASE DbTake
  BY <1>25 DEF DbTake, DbGoto, EXEDB!Take
<1>26. CASE DbBegin
  BY <1>26 DEF DbBegin, DbGoto
<1>27. CASE DbRound
  BY <1>27
     DEF DbRound, DbGoto, EXEDB!Pass, EXEDB!OtherSide, DoAsk, DoAdd, DoDel
<1>28. CASE DbClose
  BY <1>28 DEF DbClose, DbGoto, EXEDB!Release
<1>29. CASE MainJoin
  BY <1>29 DEF MainJoin, MainGoto
<1>30. CASE UNCHANGED vars
  BY <1>30
<1>31. QED
  BY <1>1, <1>2, <1>3, <1>4, <1>5, <1>6, <1>7, <1>8, <1>9, <1>10, <1>11,
     <1>12, <1>13, <1>14, <1>15, <1>16, <1>17, <1>18, <1>19, <1>20, <1>21,
     <1>22, <1>23, <1>24, <1>25, <1>26, <1>27, <1>28, <1>29, <1>30
     DEF Next, UiStep, ExeStep, DbStep, Terminating

\* Every step keeps the types.
LEMMA TypeStep == IInv /\ [Next]_vars => TypeOK'
<1> SUFFICES ASSUME IInv, [Next]_vars PROVE TypeOK'
  OBVIOUS
<1> USE DEF IInv, TypeOK, UIEXE!TypeOK, UIEXE!Sides, EXEDB!TypeOK,
            EXEDB!Sides, UiLabels, ExeLabels, DbLabels, MainLabels, vars, pcs,
            uiexe, exedb, msg, ui, exe, reg, db, store
<1>1. CASE UiLoop
  BY <1>1 DEF UiLoop, UiGoto
<1>2. CASE UiRead
  BY <1>2 DEF UiRead, UiGoto
<1>3. CASE UiReadFails
  BY <1>3 DEF UiReadFails, UiGoto
<1>4. CASE UiTake
  BY <1>4 DEF UiTake, UiGoto, UIEXE!Take
<1>5. CASE UiSend
  BY <1>5 DEF UiSend, UiGoto, UIEXE!Pass, UIEXE!OtherSide
<1>6. CASE UiReceive
  <2>1. screen' \in Nat
    BY <1>6 DEF UiReceive, BufferInv
  <2>2. QED
    BY <1>6, <2>1
       DEF UiReceive, UiGoto, UIEXE!Pass, UIEXE!Release, UIEXE!OtherSide
<1>7. CASE UiSendNop
  BY <1>7 DEF UiSendNop, UiGoto, UIEXE!Pass, UIEXE!OtherSide
<1>8. CASE ExeTop
  <2>1. QED
    BY <1>8 DEF ExeTop, ExeGoto, Commands
<1>9. CASE ExeTake
  BY <1>9 DEF ExeTake, ExeGoto, UIEXE!Take
<1>10. CASE Parse
  <2>1. io_buf \in Inputs \cup {NopLine}
    BY <1>10 DEF Parse, AbortInv, Alive, UiExeInv, Busy, StatusInv, BufferInv
  <2>2. io_buf.cmd \in Commands /\ io_buf.args \in Seq(Words)
    <3>1. CASE io_buf \in Inputs
      BY <3>1, ThreadsAssumption
    <3>2. CASE io_buf = NopLine
      BY <3>2 DEF NopLine, Commands
    <3>3. QED
      BY <2>1, <3>1, <3>2
  <2>3. Len(io_buf.args) \in Nat
        /\ \A i \in DOMAIN io_buf.args : io_buf.args[i] \in Words
    BY <2>2
  <2>4. cmd' \in Commands /\ params' \in [1..2 -> Words] /\ nparams' \in Nat
        /\ stage' \in {"before", "after"}
    BY <1>10, <2>2, <2>3 DEF Parse
  <2>5. exe_pc' \in ExeLabels
    BY <1>10 DEF Parse, ExeGoto
  <2>6. QED
    BY <1>10, <2>4, <2>5 DEF Parse, ExeGoto
<1>11. CASE ExeTakeDb
  BY <1>11 DEF ExeTakeDb, ExeGoto, EXEDB!Take
<1>12. CASE RegOp
  <2>1. current_op' \in {"SQL_NOP", "SQL_ASK", "SQL_ADD", "SQL_DEL"}
    BY <1>12 DEF RegOp, RequestedOp
  <2>2. interest' \in {"NO_INTEREST", "INTEREST_NAME", "INTEREST_PATH"}
    BY <1>12 DEF RegOp
  <2>3. QED
    BY <1>12, <2>1, <2>2 DEF RegOp, ExeGoto
<1>13. CASE RegName
  <2>1. rec_name' \in Names
    BY <1>13 DEF RegName, RequestedName, Names
  <2>2. QED
    BY <1>13, <2>1 DEF RegName, ExeGoto
<1>14. CASE RegSet
  BY <1>14 DEF RegSet, ExeGoto, EXEDB!Pass, EXEDB!OtherSide
<1>15. CASE Check
  BY <1>15 DEF Check, ExeGoto, EXEDB!Release
<1>16. CASE Execute
  <2>1. params[2] \in Dirs => FilesOf[params[2]] \in SUBSET Paths
    BY ThreadsAssumption
  <2>2. game' \in SUBSET Paths /\ mfl' \in SUBSET (Paths \cup Names)
    <3>1. CASE Install
      BY <1>16, <2>1, <3>1 DEF Install
    <3>2. CASE ~Install
      BY <1>16, <3>2 DEF Execute, Uninstall, UnlinkAll, ExecuteOther
    <3>3. QED
      BY <3>1, <3>2
  <2>3. Cardinality(mfl) \in Nat
    <3>1. IsFiniteSet(Names) /\ IsFiniteSet(Paths)
      BY ThreadsAssumption
    <3>2. IsFiniteSet(Paths \cup Names)
      BY <3>1, FS_Union
    <3>3. QED
      BY <3>2, FS_Subset, FS_CardinalityType
  <2>4. outidx = 0
    BY <1>16 DEF Execute, LinesInv
  <2>5. noutput' \in Nat /\ UNCHANGED outidx
    BY <1>16, <2>3, ThreadsAssumption DEF Execute, ExecuteOther
  <2>6. program_exit' \in BOOLEAN
    BY <1>16 DEF Execute, ExecuteOther
  <2>7. /\ stage' \in {"before", "after"}
        /\ exe_pc' \in ExeLabels /\ UNCHANGED <<ui_pc, db_pc, main_pc>>
    BY <1>16 DEF Execute, ExeGoto, Install, Uninstall, ExecuteOther, Executed
  <2>8. QED
    BY <1>16, <2>2, <2>4, <2>5, <2>6, <2>7 DEF Execute
<1>17. CASE Failed
  <2>1. game' \in SUBSET Paths
    BY <1>17 DEF Failed, UnlinkAll
  <2>2. cmd' \in Commands
    BY <1>17 DEF Failed, Commands
  <2>3. nparams' \in Nat
    BY <1>17 DEF Failed
  <2>4. program_exit' \in BOOLEAN
    BY <1>17 DEF Failed
  <2>5. QED
    BY <1>17, <2>1, <2>2, <2>3, <2>4 DEF Failed, ExeGoto
<1>18. CASE Reply
  BY <1>18 DEF Reply, ExeGoto, UIEXE!Pass, UIEXE!OtherSide
<1>19. CASE Output
  BY <1>19 DEF Output, ExeGoto, UIEXE!Pass, UIEXE!OtherSide
<1>20. CASE Bye
  BY <1>20 DEF Bye, ExeGoto, EXEDB!Pass, EXEDB!OtherSide
<1>21. CASE DbOpen
  BY <1>21 DEF DbOpen, DbGoto, Abort
<1>22. CASE DbResetOp
  BY <1>22 DEF DbResetOp, DbGoto
<1>23. CASE DbResetName
  <2>1. rec_name' \in Names
    BY <1>23 DEF DbResetName, Names
  <2>2. QED
    BY <1>23, <2>1 DEF DbResetName, DbGoto
<1>24. CASE DbResetSet
  <2>1. rec_set' \in BOOLEAN
    BY <1>24 DEF DbResetSet
  <2>2. QED
    BY <1>24, <2>1 DEF DbResetSet, DbGoto
<1>25. CASE DbTake
  BY <1>25 DEF DbTake, DbGoto, EXEDB!Take
<1>26. CASE DbBegin
  BY <1>26 DEF DbBegin, DbGoto
<1>27. CASE DbRound
  <2>1. mfl \in SUBSET Paths \/ current_op # "SQL_ADD"
    BY <1>27 DEF DbRound, RegisterInv, RequestedOp, AbortInv, Alive, ExeDbInv,
             ExitInv, EXEDB!Pass
  <2>2. \A rows \in SUBSET table : Entries(rows) \in SUBSET (Paths \cup Names)
    BY DEF Entries
  <2>3. Results \in SUBSET (SUBSET table)
    BY DEF Results, Selected
  <2>4. CASE current_op = "SQL_ASK"
    <3>1. mfl' \in SUBSET (Paths \cup Names)
      BY <1>27, <2>2, <2>3, <2>4 DEF DbRound, DoAsk
    <3>2. open_stmt' \in {"none", "named", "all"} /\ is_db_op_succeed' \in
       BOOLEAN
      BY <1>27, <2>4 DEF DbRound, DoAsk
    <3>3. QED
      BY <1>27, <2>4, <3>1, <3>2
         DEF DbRound, DbGoto, EXEDB!Pass, EXEDB!OtherSide
  <2>5. CASE current_op = "SQL_ADD"
    <3>1. table' \in SUBSET (Names \X Paths) /\ UNCHANGED mfl
      BY <1>27, <2>1, <2>5 DEF DbRound, DoAdd
    <3>2. open_stmt' \in {"none", "named", "all"} /\ is_db_op_succeed' \in
       BOOLEAN
      BY <1>27, <2>5 DEF DbRound, DoAdd
    <3>3. QED
      BY <1>27, <2>5, <3>1, <3>2
         DEF DbRound, DbGoto, EXEDB!Pass, EXEDB!OtherSide
  <2>6. CASE current_op \in {"SQL_DEL", "SQL_NOP"}
    <3>1. table' \in SUBSET (Names \X Paths) /\ UNCHANGED <<mfl, open_stmt>>
      BY <1>27, <2>6 DEF DbRound, DoDel
    <3>2. is_db_op_succeed' \in BOOLEAN
      BY <1>27, <2>6 DEF DbRound, DoDel
    <3>3. QED
      BY <1>27, <2>6, <3>1, <3>2
         DEF DbRound, DbGoto, EXEDB!Pass, EXEDB!OtherSide
  <2>7. QED
    BY <2>4, <2>5, <2>6
<1>28. CASE DbClose
  BY <1>28 DEF DbClose, DbGoto, EXEDB!Release
<1>29. CASE MainJoin
  BY <1>29 DEF MainJoin, MainGoto
<1>30. CASE UNCHANGED vars
  BY <1>30
<1>31. QED
  BY <1>1, <1>2, <1>3, <1>4, <1>5, <1>6, <1>7, <1>8, <1>9, <1>10, <1>11,
     <1>12, <1>13, <1>14, <1>15, <1>16, <1>17, <1>18, <1>19, <1>20, <1>21,
     <1>22, <1>23, <1>24, <1>25, <1>26, <1>27, <1>28, <1>29, <1>30
     DEF Next, UiStep, ExeStep, DbStep, Terminating

\* The initial state satisfies the invariant.
LEMMA InitIInv == Init => IInv
<1> SUFFICES ASSUME Init PROVE IInv
  OBVIOUS
<1> USE DEF Init, UIEXE!Init, EXEDB!Init
<1>1. TypeOK
  <2>1. Bug \in Names /\ Blank \in Words
    BY ThreadsAssumption DEF Names
  <2>2. ui_pc \in UiLabels /\ exe_pc \in ExeLabels /\ db_pc \in DbLabels
        /\ main_pc \in MainLabels
    BY DEF UiLabels, ExeLabels, DbLabels, MainLabels
  <2>3. UIEXE!TypeOK /\ EXEDB!TypeOK
    BY DEF UIEXE!TypeOK, UIEXE!Sides, EXEDB!TypeOK, EXEDB!Sides
  <2>4. io_buf \in [line : Nat] /\ line = NopLine
    OBVIOUS
  <2>5. cmd \in Commands /\ params \in [1..2 -> Words] /\ nparams \in Nat
        /\ noutput \in Nat /\ outidx \in 0..noutput /\ screen \in Nat
    BY <2>1 DEF Commands
  <2>6. program_exit \in BOOLEAN /\ cin_fail \in BOOLEAN /\ rec_set \in BOOLEAN
        /\ is_db_op_succeed \in BOOLEAN
    OBVIOUS
  <2>7. mfl \in SUBSET (Paths \cup Names) /\ table \in SUBSET (Names \X Paths)
        /\ game \in SUBSET Paths
    OBVIOUS
  <2>8. QED
    BY <2>1, <2>2, <2>3, <2>4, <2>5, <2>6, <2>7 DEF TypeOK
<1>2. AbortInv /\ UiExeInv /\ ExeDbInv /\ ExitInv
  BY DEF AbortInv, UiExeInv, ExeDbInv, ExitInv, Busy
<1>3. StatusInv /\ BufferInv /\ LinesInv /\ RegisterInv
  BY DEF StatusInv, BufferInv, LinesInv, RegisterInv
<1>4. QED
  BY <1>1, <1>2, <1>3 DEF IInv

\* The invariant holds in every reachable state.
LEMMA SpecIInv == Spec => []IInv
<1>1. IInv /\ [Next]_vars => IInv'
  BY TypeStep, ControlStep, StatusStep, LinesStep, RegisterStep DEF IInv
<1>2. QED
  BY InitIInv, <1>1, PTL DEF Spec
-------------------------------------------------------------------------------
\* Every variable keeps its type, whatever fails (all three workers).
THEOREM TypeCorrect == Spec => []TypeOK
<1>1. IInv => TypeOK
  BY DEF IInv
<1>2. QED
  BY SpecIInv, <1>1, PTL

\* The assertions on the status in both workers never fail: a side that comes
\* out of its wait finds what the other side left for it.
THEOREM AssertsHold == Spec => []HandshakeAsserts
<1>1. IInv => HandshakeAsserts
  <2> SUFFICES ASSUME IInv PROVE HandshakeAsserts
    OBVIOUS
  <2> USE DEF IInv, AbortInv, Alive, UiExeInv, StatusInv
  <2>1. exe_pc = "parse" => uiexe_turn = "exe"
    BY DEF Busy
  <2>2. ui_pc = "recv" => uiexe_turn = "ui"
    OBVIOUS
  <2>3. QED
    BY <2>1, <2>2 DEF HandshakeAsserts
<1>2. QED
  BY SpecIInv, <1>1, PTL

\* The Database runs a round only while the Executor and the UI both wait for
\* it, and never after program_exit: the hand-over that keeps the lists, the
\* table and the indicator free of races (mhwimm_db_thread_worker).
THEOREM HandoverIsStrict == Spec => []StrictHandover
<1>1. IInv => StrictHandover
  <2> SUFFICES ASSUME IInv, db_pc = "round"
               PROVE  /\ exe_pc = "await_result"
                      /\ ui_pc = "await_output"
                      /\ ~program_exit
    BY DEF StrictHandover
  <2> USE DEF IInv, AbortInv, Alive
  <2>1. ~program_exit
    BY DEF ExitInv
  <2>2. exedb_turn = "db"
    BY DEF ExeDbInv
  <2>3. exe_pc = "await_result"
    BY <2>1, <2>2 DEF ExeDbInv, ExitInv
  <2>4. uiexe_turn = "exe" /\ uiexe_holder = "exe"
    BY <2>3 DEF UiExeInv, Busy
  <2>5. ui_pc = "await_output"
    BY <2>1, <2>4 DEF UiExeInv, ExitInv
  <2>6. QED
    BY <2>1, <2>3, <2>5
<1>2. QED
  BY SpecIInv, <1>1, PTL

\* The user sees every line of a command's output, in order and none twice (the
\* receive loop of the UI against getCMDOutput).
THEOREM LinesAreShown == Spec => []EveryLineShown
<1>1. IInv => EveryLineShown
  <2> SUFFICES ASSUME IInv, ui_pc = "recv"
               PROVE  /\ status = "EXE_MOREMSG" => io_buf.line = screen + 1
                      /\ status = "EXE_NOMSG" => screen = noutput
    BY DEF EveryLineShown
  <2>1. uiexe_turn = "ui"
    BY DEF IInv, AbortInv, Alive, UiExeInv
  <2>2. QED
    BY <2>1 DEF IInv, LinesInv
<1>2. QED
  BY SpecIInv, <1>1, PTL
===============================================================================
