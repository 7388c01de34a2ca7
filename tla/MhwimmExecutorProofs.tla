------------------------- MODULE MhwimmExecutorProofs -------------------------
(***************************************************************************)
(* The vector of output messages is never indexed past its end, the UI is  *)
(* sent the messages of the command and no others, and the command that is *)
(* carried out is the one of the word, whatever the lines typed, the sizes *)
(* of the directories and the failures.                                    *)
(***************************************************************************)
EXTENDS MhwimmExecutor, TLAPS

Numbers ==
  /\ noutput_msgs \in Nat /\ output_info_index \in Nat /\ rest \in Nat
  /\ written \in Nat /\ sent \in Nat
  /\ size \in Nat /\ size > 0

\* The labels at which no message of the running command has been fetched.
Unread == Labels \ {"top", "output", "done"}

\* What is stored is counted, and read from its beginning.
Counted ==
  /\ pc \in Labels
  /\ ~outside
  /\ noutput_msgs <= size
  /\ output_info_index <= noutput_msgs
  /\ pc \in Unread => output_info_index = 0 /\ sent = 0

\* Where the messages stored are those of the running command.
Stored ==
  /\ pc = "fill" => /\ written = noutput_msgs
                    /\ current_cmd \notin {"INSTALL", "UNINSTALL"}
  /\ pc \in {"executed", "output"} =>
       /\ written = noutput_msgs
       /\ is_cmd_has_output \/ noutput_msgs = 0
       /\ current_status = "ERROR" => noutput_msgs = 1
  /\ pc = "executed" /\ current_status # "ERROR" /\ current_cmd \in {"INSTALL", "UNINSTALL"}
       => written = 0
  /\ pc \in {"parse", "before", "after", "failed", "reply"} => written = 0
  /\ pc = "after" => noutput_msgs = 0 /\ current_status # "ERROR"
  /\ pc = "output" =>
       /\ sent = output_info_index
       /\ current_status = "ERROR" => sent = 0
  /\ pc \in {"top", "done"} => sent = written

IInv == Numbers /\ Counted /\ Stored

LEMMA StoreMsgStep ==
  ASSUME Numbers, Counted, StoreMsg
  PROVE  /\ size' \in Nat /\ size' > 0
         /\ noutput_msgs' \in Nat /\ noutput_msgs' <= size'
         /\ written' = noutput_msgs'
         /\ noutput_msgs <= noutput_msgs'
         /\ ~outside'
<1>1. /\ size' \in Nat /\ size' > 0
      /\ noutput_msgs' \in Nat /\ noutput_msgs' <= size'
      /\ written' = noutput_msgs'
      /\ noutput_msgs <= noutput_msgs'
      /\ ~(noutput_msgs >= size')
  BY DEF Numbers, Counted, StoreMsg, Grow
<1>2. ~outside'
  BY <1>1, Zenon DEF Counted, StoreMsg
<1> QED
  BY <1>1, <1>2

LEMMA IInvStep ==
  ASSUME IInv, [Next]_vars
  PROVE  IInv'
<1> USE DEF IInv, Numbers, Counted, Stored, Unread, Labels, parsed, output, reading, world
<1>1. CASE LoopTop
  BY <1>1 DEF LoopTop, resetStatus
<1>2. CASE ParseFails
  BY <1>2 DEF ParseFails, ErrorMsg
<1>3. CASE parseCMD
  BY <1>3 DEF parseCMD
<1>4. CASE Before \/ After \/ Reply
  BY <1>4 DEF Before, After, Reply
<1>5. CASE SyntaxError
  BY <1>5 DEF SyntaxError, Errs, ErrorMsg
<1>6. CASE Nop \/ cd \/ exit
  BY <1>6 DEF Nop, cd, exit, Executes, Errs, ErrorMsg, Silent, Succeeds
<1>7. CASE pwd \/ get_config
  BY <1>7 DEF pwd, get_config, Executes, Errs, ErrorMsg, OneMsg, Succeeds
<1>8. CASE config \/ Store
  BY <1>8 DEF config, Store, Executes, Errs, ErrorMsg, Silent, Succeeds
<1>9. CASE ls \/ installed \/ commands
  BY <1>9, ExecutorAssumption
     DEF ls, installed, commands, Executes, Errs, ErrorMsg, Silent, Listing, Descriptions
<1>10. CASE Fill
  BY <1>10, StoreMsgStep DEF Fill
<1>11. CASE Filled
  BY <1>11 DEF Filled, Succeeds
<1>12. CASE Failed \/ UndoFailed
  BY <1>12 DEF Failed, UndoFailed, ErrorMsg, Silent
<1>13. CASE Output
  BY <1>13 DEF Output, MoreOutput, GetLine, NoLine
<1>14. CASE Executed
  BY <1>14 DEF Executed
<1>15. CASE UNCHANGED vars
  BY <1>15 DEF vars
<1> QED
  BY <1>1, <1>2, <1>3, <1>4, <1>5, <1>6, <1>7, <1>8, <1>9, <1>10, <1>11, <1>12, <1>13, <1>14,
     <1>15
     DEF Next, Execute

LEMMA IInvInit == Init => IInv
<1> SUFFICES ASSUME Init PROVE IInv
  OBVIOUS
<1>1. Numbers
  BY DEF Init, Numbers, Slots
<1>2. Counted
  BY DEF Init, Counted, Unread, Labels, Slots
<1>3. Stored
  BY DEF Init, Stored
<1> QED
  BY <1>1, <1>2, <1>3 DEF IInv

\* No message is stored or fetched past the end of the vector, for directories and
\* lists of mods of every size.
THEOREM OutputIsBounded == Spec => []OutputBounded
<1>1. IInv => OutputBounded
  BY DEF IInv, Counted, OutputBounded
<1> QED
  BY <1>1, IInvInit, IInvStep, PTL DEF Spec

\* The UI is sent all messages of a command and none of another.
THEOREM OutputIsOfTheCommand == Spec => []OutputIsTheCommands
<1>1. IInv => OutputIsTheCommands
  BY DEF IInv, Numbers, Counted, Stored, Unread, Labels, OutputIsTheCommands
<1> QED
  BY <1>1, IInvInit, IInvStep, PTL DEF Spec

-------------------------------------------------------------------------------
(* The types, and the command that a word is taken for.                    *)

LEMMA CmdOfIsCmd == \A w : CmdOf(w) \in Cmds
<1> SUFFICES ASSUME NEW w PROVE CmdOf(w) \in Cmds
  OBVIOUS
<1>1. DOMAIN CmdKey \subseteq Cmds /\ "NOP" \in Cmds
  BY DEF CmdKey, Cmds
<1>2. CASE \E c \in DOMAIN CmdKey : calculate_key(w) \in CmdKey[c]
  <2>1. CmdOf(w) \in DOMAIN CmdKey
    BY <1>2, Zenon DEF CmdOf
  <2> QED
    BY <1>1, <2>1
<1>3. CASE ~\E c \in DOMAIN CmdKey : calculate_key(w) \in CmdKey[c]
  BY <1>1, <1>3, Zenon DEF CmdOf
<1> QED
  BY <1>2, <1>3

\* What the numbers of IInv leave open.
ValuesInv ==
  /\ line \in Lines
  /\ current_cmd \in Cmds
  /\ current_status \in {"IDLE", "ERROR"}
  /\ nparams \in Nat
  /\ is_cmd_has_output \in BOOLEAN /\ program_exit \in BOOLEAN /\ outside \in BOOLEAN
  /\ conf \in [Options -> Words]

LEMMA ValuesInvStep ==
  ASSUME IInv, ValuesInv, [Next]_vars
  PROVE  ValuesInv'
<1> USE DEF ValuesInv, parsed, output, reading, world
<1>1. CASE LoopTop
  BY <1>1 DEF LoopTop, resetStatus, Cmds
<1>2. CASE ParseFails
  BY <1>2 DEF ParseFails, ErrorMsg
<1>3. CASE parseCMD
  <2>1. line' \in Lines /\ current_cmd' \in Cmds /\ nparams' = line'.nparams
    BY <1>3, CmdOfIsCmd DEF parseCMD
  <2>2. nparams' \in Nat
    BY <2>1, ExecutorAssumption
  <2> QED
    BY <1>3, <2>1, <2>2 DEF parseCMD
<1>4. CASE Before \/ After \/ Reply \/ Executed
  BY <1>4 DEF Before, After, Reply, Executed
<1>5. CASE SyntaxError
  BY <1>5 DEF SyntaxError, Errs, ErrorMsg
<1>6. CASE Nop \/ cd \/ exit
  BY <1>6 DEF Nop, cd, exit, Executes, Errs, ErrorMsg, Silent, Succeeds
<1>7. CASE pwd \/ get_config
  BY <1>7 DEF pwd, get_config, Executes, Errs, ErrorMsg, OneMsg, Succeeds
<1>8. CASE Store
  BY <1>8 DEF Store, Executes, Errs, ErrorMsg, Silent, Succeeds
<1>9. CASE config
  <2>1. CASE Errs("executed")
    BY <2>1 DEF Errs, ErrorMsg
  <2>2. CASE ~Errs("executed")
    <3>1. PICK o \in Options :
            /\ Silent /\ Succeeds("executed")
            /\ conf' = [conf EXCEPT ![o] = line.first.val]
            /\ UNCHANGED program_exit
      BY <1>9, <2>2 DEF config, OptionOf
    <3>2. line.first.val \in Words
      BY ExecutorAssumption DEF Param
    <3> QED
      BY <3>1, <3>2 DEF Silent, Succeeds
  <2> QED
    BY <2>1, <2>2
<1>10. CASE ls \/ installed \/ commands
  BY <1>10 DEF ls, installed, commands, Executes, Errs, ErrorMsg, Silent, Listing
<1>11. CASE Fill
  <2>1. outside' \in BOOLEAN
    BY <1>11 DEF Fill, StoreMsg
  <2> QED
    BY <1>11, <2>1 DEF Fill
<1>12. CASE Filled
  BY <1>12 DEF Filled, Succeeds
<1>13. CASE Failed \/ UndoFailed
  <2>1. CASE Failed /\ current_cmd = "INSTALL"
    <3>1. /\ current_cmd' = "UNINSTALL" /\ nparams' = 1
          /\ current_status' \in {"IDLE", "ERROR"}
          /\ UNCHANGED <<line, world>>
      BY <2>1 DEF Failed
    <3>2. ErrorMsg \/ Silent
      BY <2>1 DEF Failed
    <3>3. is_cmd_has_output' \in BOOLEAN /\ outside' \in BOOLEAN
      BY <3>2 DEF ErrorMsg, Silent
    <3> QED
      BY <3>1, <3>3 DEF Cmds
  <2>2. CASE Failed /\ current_cmd # "INSTALL"
    BY <2>2 DEF Failed
  <2>3. CASE UndoFailed
    BY <2>3 DEF UndoFailed, Silent, Cmds
  <2> QED
    BY <1>13, <2>1, <2>2, <2>3
<1>14. CASE Output
  BY <1>14 DEF Output, GetLine, NoLine
<1>15. CASE UNCHANGED vars
  BY <1>15 DEF vars
<1> QED
  BY <1>1, <1>2, <1>3, <1>4, <1>5, <1>6, <1>7, <1>8, <1>9, <1>10, <1>11, <1>12, <1>13, <1>14,
     <1>15
     DEF Next, Execute

LEMMA ValuesInvInit == Init => ValuesInv
<1> SUFFICES ASSUME Init PROVE ValuesInv
  OBVIOUS
<1>1. line \in Lines /\ conf \in [Options -> Words]
  BY ExecutorAssumption DEF Init
<1>2. is_cmd_has_output = FALSE /\ program_exit = FALSE /\ outside = FALSE
  BY DEF Init
<1>3. current_cmd \in Cmds /\ current_status = "IDLE" /\ nparams = 0
  BY DEF Init, Cmds
<1> QED
  BY <1>1, <1>2, <1>3 DEF ValuesInv

\* Every variable keeps to its type, for lines, directories and configurations of
\* any kind: the message count, the index and the size stay numbers, and what config
\* stores is a value of the line.
THEOREM TypeCorrect == Spec => []TypeOK
<1>1. ASSUME IInv, ValuesInv PROVE TypeOK
  <2>1. {nparams, size, noutput_msgs, output_info_index, rest, written, sent} \subseteq Nat
    BY <1>1 DEF IInv, Numbers, ValuesInv
  <2>2. {is_cmd_has_output, program_exit, outside} \subseteq BOOLEAN
    BY <1>1 DEF ValuesInv
  <2> QED
    BY <1>1, <2>1, <2>2 DEF IInv, Counted, ValuesInv, TypeOK
<1> QED
  BY <1>1, IInvInit, IInvStep, ValuesInvInit, ValuesInvStep, PTL DEF Spec

LEMMA KeysDiffer ==
  ASSUME NEW c \in DOMAIN CmdKey, NEW d \in DOMAIN CmdKey,
         NEW k \in CmdKey[c], k \in CmdKey[d]
  PROVE  c = d
BY DEF CmdKey

LEMMA DocumentedCmd ==
  ASSUME SumsAreKeys, NEW w \in DOMAIN Supported
  PROVE  CmdOf(w) = Supported[w]
<1> DEFINE k == calculate_key(w)
<1>1. Supported[w] \in DOMAIN CmdKey /\ k \in CmdKey[Supported[w]]
  BY Zenon DEF SumsAreKeys
<1> HIDE DEF k
<1>2. CmdOf(w) = CHOOSE c \in DOMAIN CmdKey : k \in CmdKey[c]
  BY <1>1, Zenon DEF CmdOf, k
<1>3. \A c \in DOMAIN CmdKey : k \in CmdKey[c] => c = Supported[w]
  BY <1>1, KeysDiffer
<1> QED
  BY <1>1, <1>2, <1>3

\* From the parse to the command the word stays the one that was parsed.
ParsedInv == pc \in {"before", "execute"} => current_cmd = CmdOf(line.word)

LEMMA ParsedInvStep ==
  ASSUME ParsedInv, [Next]_vars
  PROVE  ParsedInv'
<1> USE DEF ParsedInv, parsed, output, reading, world
<1>1. CASE LoopTop \/ ParseFails
  BY <1>1 DEF LoopTop, ParseFails
<1>2. CASE parseCMD
  BY <1>2 DEF parseCMD
<1>3. CASE Before \/ After \/ Reply \/ Executed \/ Failed \/ UndoFailed
  BY <1>3 DEF Before, After, Reply, Executed, Failed, UndoFailed
<1>4. CASE SyntaxError \/ Nop \/ cd \/ exit \/ pwd \/ get_config \/ config \/ Store
  BY <1>4
     DEF SyntaxError, Nop, cd, exit, pwd, get_config, config, Store, Errs, Succeeds
<1>5. CASE ls \/ installed \/ commands \/ Fill \/ Filled
  BY <1>5 DEF ls, installed, commands, Fill, Filled, Errs, Succeeds, Listing
<1>6. CASE Output
  BY <1>6 DEF Output
<1>7. CASE UNCHANGED vars
  BY <1>7 DEF vars
<1> QED
  BY <1>1, <1>2, <1>3, <1>4, <1>5, <1>6, <1>7 DEF Next, Execute

\* A word of the documentation is taken for the command it documents, and for no
\* other: the keys of two commands differ, so it is enough that the sum of every
\* documented word is a key of its command.
THEOREM DocumentedWordsWork ==
  ASSUME SumsAreKeys
  PROVE  Spec => []SupportedWordsWork
<1>1. Init => ParsedInv
  BY DEF Init, ParsedInv
<1>2. ParsedInv => SupportedWordsWork
  BY DocumentedCmd, SumsAreKeys DEF ParsedInv, SupportedWordsWork
<1> QED
  BY <1>1, <1>2, ParsedInvStep, PTL DEF Spec
===============================================================================
