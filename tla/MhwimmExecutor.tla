---------------------------- MODULE MhwimmExecutor ----------------------------
(***************************************************************************)
(* class mhwimm_executor as its worker calls it, one command after the     *)
(* other: what a line is parsed to, which of the commands is carried out,  *)
(* and the vector of output messages that is filled and read line by line. *)
(*                                                                         *)
(* A word is its characters' codes; a parameter is a text, some equal      *)
(* signs and a value.  Of a message only its place in the vector is kept,  *)
(* and of parameters_ the first and how many there are; those an earlier    *)
(* command has left are in MhwimmThreads.  Rounds of the database succeed   *)
(* or fail, and what INSTALL and UNINSTALL do is ModStore.                  *)
(***************************************************************************)
EXTENDS Integers, Sequences, SequencesExt, FiniteSets

CONSTANTS
  Words,        \* words the user may type
  Codes,        \* [Words -> sequences of the codes of their characters]
  Lines,        \* command lines: a word, how many parameters, the first one
  FirstConf,    \* the configurations the program may start with
  Counts,       \* how many entries a directory, or names the database, may have
  Supported     \* the words the documentation has for a command, and which

Slots == 8      \* parameters_.size(), and cmd_output_msgs_.size() at first
Descriptions == 10      \* ndescriptions

Options == {"userhome", "mhwiroot", "mhwimmroot"}
Param == [text : Words, equals : Nat, val : Words]

ASSUME ExecutorAssumption ==
  /\ Codes \in [Words -> Seq(-128..127)]
  /\ Lines \subseteq [word : Words, nparams : Nat, first : Param]
  /\ FirstConf \subseteq [Options -> Words]
  /\ Counts \subseteq Nat
  /\ DOMAIN Supported \subseteq Words

VARIABLES
  pc,
  line,                         \* the line the UI has sent
  current_cmd, current_status,
  nparams,
  size,                         \* cmd_output_msgs_'s size, its capacity too
  noutput_msgs, is_cmd_has_output, output_info_index,
  rest,                         \* lines the running loop has yet to store
  conf, program_exit,
  written,                      \* history: messages the last execution has stored
  sent,                         \* history: messages of it the UI has been sent
  outside                       \* history: an index was not below the size

parsed == <<line, current_cmd, nparams>>
output == <<noutput_msgs, is_cmd_has_output, written, size, outside>>
reading == <<output_info_index, sent>>
world == <<conf, program_exit>>
vars == <<pc, parsed, current_status, output, reading, rest, world>>

Cmds == {"CD", "PWD", "LS", "INSTALL", "UNINSTALL", "INSTALLED", "GET_CONFIG",
         "CONFIG", "EXIT", "COMMANDS", "NOP"}
DbCmds == {"INSTALL", "UNINSTALL", "INSTALLED"}
Labels == {"top", "parse", "before", "execute", "fill", "executed", "after",
           "failed", "undone", "reply", "output", "done"}

calculate_key(w) == FoldSeq(LAMBDA c, sum : c + sum, 0, Codes[w])
ParamKey(p) == calculate_key(p.text) + 61 * p.equals + calculate_key(p.val)

\* The keys parseCMD compares with; HELP is COMMANDS.
CmdKey ==
  [CD |-> {199}, PWD |-> {331}, LS |-> {223}, INSTALL |-> {759}, UNINSTALL |-> {986},
   INSTALLED |-> {960}, GET_CONFIG |-> {1045}, CONFIG |-> {630}, EXIT |-> {442},
   COMMANDS |-> {850, 425}]
OptionKey == [userhome |-> 616, mhwiroot |-> 633, mhwimmroot |-> 787]

\* Variation: the break after CONFIG is forgotten.
CmdOfFallsThrough(w) ==
  LET Cases == {c \in DOMAIN CmdKey : calculate_key(w) \in CmdKey[c]} IN
  IF Cases = {} THEN "NOP" ELSE IF "CONFIG" \in Cases THEN "COMMANDS" ELSE CHOOSE c \in Cases : TRUE

\* What a line's first word is taken for.
CmdOf(w) ==
  IF \E c \in DOMAIN CmdKey : calculate_key(w) \in CmdKey[c]
  THEN CHOOSE c \in DOMAIN CmdKey : calculate_key(w) \in CmdKey[c]
  ELSE "NOP"

Init ==
  /\ pc = "top"
  /\ line \in Lines
  /\ current_cmd = "NOP" /\ current_status = "IDLE"
  /\ nparams = 0
  /\ size = Slots
  /\ noutput_msgs = 0 /\ is_cmd_has_output = FALSE /\ output_info_index = 0
  /\ rest = 0
  /\ conf \in FirstConf /\ program_exit = FALSE
  /\ written = 0 /\ sent = 0 /\ outside = FALSE

(* Messages.                                                               *)

\* generic_err_msg_output
ErrorMsg ==
  /\ noutput_msgs' = 1
  /\ is_cmd_has_output' = TRUE
  /\ written' = 1
  /\ UNCHANGED <<size, outside>>

\* Variation: the vector grows when it is already too small.
GrowLate(n) == IF n > size THEN 2 * size ELSE size

\* rs_vec_if_necessary: what resize allocates it fills, so that the capacity it
\* asks for is the size.
Grow(n) == IF n = size THEN 2 * size ELSE size

\* The next message is stored.
StoreMsg ==
  /\ size' = Grow(noutput_msgs)
  /\ outside' = (outside \/ noutput_msgs >= size')
  /\ noutput_msgs' = noutput_msgs + 1
  /\ written' = noutput_msgs + 1
-------------------------------------------------------------------------------
(* The worker, up to the command.                                          *)

resetStatus ==
  /\ current_status' = "IDLE"
  /\ current_cmd' = "NOP"
  /\ output_info_index' = 0
  /\ is_cmd_has_output' = FALSE

LoopTop ==
  /\ pc = "top"
  /\ \/ program_exit /\ pc' = "done" /\ UNCHANGED <<parsed, current_status, output, reading>>
     \/ /\ ~program_exit
        /\ resetStatus
        /\ pc' = "parse"
        /\ written' = 0
        /\ sent' = 0
        /\ UNCHANGED <<line, nparams, noutput_msgs, size, outside>>
  /\ UNCHANGED <<rest, world>>

ParseFails ==
  /\ pc = "parse"
  /\ current_status' = "ERROR"
  /\ ErrorMsg
  /\ line' \in Lines
  /\ pc' = "executed"
  /\ UNCHANGED <<current_cmd, nparams, reading, rest, world>>

parseCMD ==
  /\ pc = "parse"
  /\ line' \in Lines
  /\ current_cmd' = CmdOf(line'.word)
  /\ nparams' = line'.nparams
  /\ current_status' = "IDLE"
  /\ pc' = IF current_cmd' \in DbCmds THEN "before" ELSE "execute"
  /\ UNCHANGED <<output, reading, rest, world>>

\* The round before the command; "reply" is a message of the worker's own.
Before ==
  /\ pc = "before"
  /\ \/ pc' \in {"failed", "execute"}
     \/ current_cmd = "INSTALL" /\ pc' = "reply"
  /\ UNCHANGED <<parsed, current_status, output, reading, rest, world>>
-------------------------------------------------------------------------------
(* executeCurrentCMD.                                                      *)

Errs(to) ==
  /\ current_status' = "ERROR"
  /\ ErrorMsg
  /\ pc' = to
  /\ UNCHANGED <<parsed, reading, rest, world>>

Succeeds(to) ==
  /\ current_status' = "IDLE"
  /\ pc' = to
  /\ UNCHANGED <<parsed, reading, rest>>

\* executeCurrentCMD begins with noutput_msgs_ = 0.
Silent ==
  /\ noutput_msgs' = 0
  /\ written' = 0
  /\ UNCHANGED <<is_cmd_has_output, size, outside>>

OneMsg ==
  /\ noutput_msgs' = 1
  /\ is_cmd_has_output' = TRUE
  /\ written' = 1
  /\ UNCHANGED <<size, outside>>

SyntaxOk ==
  CASE current_cmd \in {"CD", "UNINSTALL", "GET_CONFIG"} -> nparams = 1
    [] current_cmd \in {"PWD", "LS", "INSTALLED"} -> nparams = 0
    [] current_cmd = "INSTALL" -> nparams = 2
    [] current_cmd = "CONFIG" -> nparams = 1 /\ line.first.equals <= 1
    [] OTHER -> TRUE

SyntaxError ==
  /\ pc = "execute"
  /\ ~SyntaxOk
  /\ Errs("executed")

Executes(cmd) == pc = "execute" /\ current_cmd = cmd /\ SyntaxOk

Nop == Executes("NOP") /\ Silent /\ Succeeds("executed") /\ UNCHANGED world

\* The loop that stores the messages of ls, installed and commands.
Listing(n) ==
  /\ Silent
  /\ rest' = n
  /\ pc' = "fill"
  /\ UNCHANGED <<parsed, current_status, reading, world>>

\* The directory the process is in is left out.
cd ==
  /\ Executes("CD")
  /\ \/ Errs("executed")
     \/ /\ Silent
        /\ Succeeds("executed")
        /\ UNCHANGED world

pwd ==
  /\ Executes("PWD")
  /\ \/ Errs("executed")
     \/ OneMsg /\ Succeeds("executed") /\ UNCHANGED world

ls ==
  /\ Executes("LS")
  /\ \/ Errs("executed")
     \/ \E n \in Counts : Listing(n)

installed ==
  /\ Executes("INSTALLED")
  /\ \E n \in Counts \cup {0} : IF n = 0 THEN Errs("executed") ELSE Listing(n)

commands == Executes("COMMANDS") /\ Listing(Descriptions)

Fill ==
  /\ pc = "fill"
  /\ rest > 0
  /\ StoreMsg
  /\ rest' = rest - 1
  /\ UNCHANGED <<pc, parsed, current_status, is_cmd_has_output, reading, world>>

\* Variation: that there is output is not said.
FilledUnsaid ==
  /\ pc = "fill"
  /\ rest = 0
  /\ Succeeds("executed")
  /\ UNCHANGED <<output, world>>

Filled ==
  /\ pc = "fill"
  /\ rest = 0
  /\ is_cmd_has_output' = TRUE
  /\ Succeeds("executed")
  /\ UNCHANGED <<noutput_msgs, written, size, outside, world>>

exit ==
  /\ Executes("EXIT")
  /\ Silent
  /\ program_exit' = TRUE
  /\ Succeeds("executed")
  /\ UNCHANGED conf

OptionOf(key) == {o \in Options : OptionKey[o] = key}

get_config ==
  /\ Executes("GET_CONFIG")
  /\ IF OptionOf(ParamKey(line.first)) = {}
     THEN Errs("executed")
     ELSE OneMsg /\ Succeeds("executed") /\ UNCHANGED world

\* Variation: the name of the option is stored.
ConfigName ==
  /\ Executes("CONFIG")
  /\ \E o \in OptionOf(calculate_key(line.first.text)) :
       /\ Silent
       /\ Succeeds("executed")
       /\ conf' = [conf EXCEPT ![o] = o]
       /\ UNCHANGED program_exit

\* Without an equal sign the key is empty.
config ==
  /\ Executes("CONFIG")
  /\ LET key == IF line.first.equals = 1 THEN calculate_key(line.first.text) ELSE 0 IN
       \/ OptionOf(key) = {} /\ Errs("executed")
       \/ \E o \in OptionOf(key) :
            /\ Silent
            /\ Succeeds("executed")
            /\ conf' = [conf EXCEPT ![o] = line.first.val]
            /\ UNCHANGED program_exit

\* install and uninstall; the absolute mod directory is a syntax error too.
Store ==
  /\ Executes("INSTALL") \/ Executes("UNINSTALL")
  /\ \/ Errs("executed")
     \/ Silent /\ Succeeds("executed") /\ UNCHANGED world

Execute ==
  \/ SyntaxError \/ Nop \/ cd \/ pwd \/ ls \/ installed \/ commands \/ Fill \/ Filled
  \/ exit \/ get_config \/ config \/ Store
-------------------------------------------------------------------------------
(* The worker, from the command on.                                        *)

\* getCMDOutput
MoreOutput == is_cmd_has_output /\ output_info_index # noutput_msgs
GetLine ==
  /\ output_info_index' = output_info_index + 1
  /\ sent' = sent + 1
  /\ UNCHANGED is_cmd_has_output
NoLine ==
  /\ output_info_index' = 0
  /\ is_cmd_has_output' = FALSE
  /\ UNCHANGED sent

Executed ==
  /\ pc = "executed"
  /\ IF current_status = "ERROR" THEN pc' = "output"
     ELSE pc' = IF current_cmd \in {"INSTALL", "UNINSTALL"} THEN "after" ELSE "output"
  /\ UNCHANGED <<parsed, current_status, output, reading, rest, world>>

After ==
  /\ pc = "after"
  /\ pc' \in {"failed", "output"}
  /\ UNCHANGED <<parsed, current_status, output, reading, rest, world>>

\* Label failed_db_interact_checking: the undo is an UNINSTALL, with one parameter.
Failed ==
  /\ pc = "failed"
  /\ \/ /\ current_cmd = "INSTALL"
        /\ current_cmd' = "UNINSTALL"
        /\ nparams' = 1
        /\ \/ /\ current_status' = "ERROR" /\ ErrorMsg /\ pc' = "undone"
           \/ /\ current_status' = "IDLE" /\ Silent /\ pc' = "reply"
     \/ /\ current_cmd # "INSTALL"
        /\ pc' = "reply"
        /\ UNCHANGED <<current_cmd, nparams, current_status, output>>
  /\ UNCHANGED <<line, reading, rest, world>>

\* The undo has failed, and the program is made to exit.
UndoFailed ==
  /\ pc = "undone"
  /\ current_cmd' = "EXIT"
  /\ nparams' = 0
  /\ current_status' = "IDLE"
  /\ Silent
  /\ program_exit' = TRUE
  /\ pc' = "reply"
  /\ UNCHANGED <<line, reading, rest, conf>>

Reply ==
  /\ pc = "reply"
  /\ pc' = "top"
  /\ UNCHANGED <<parsed, current_status, output, reading, rest, world>>

\* Variation: the end of the messages is not told.
OutputOnlyMore ==
  /\ pc = "output"
  /\ MoreOutput
  /\ GetLine
  /\ pc' = IF current_status # "ERROR" THEN pc ELSE "top"
  /\ UNCHANGED <<parsed, current_status, noutput_msgs, written, size, outside, rest, world>>

\* After an error one line is fetched, else all of them.
Output ==
  /\ pc = "output"
  /\ IF MoreOutput THEN GetLine ELSE NoLine
  /\ pc' = IF MoreOutput /\ current_status # "ERROR" THEN pc ELSE "top"
  /\ UNCHANGED <<parsed, current_status, noutput_msgs, written, size, outside, rest, world>>

Next ==
  \/ LoopTop \/ ParseFails \/ parseCMD \/ Before \/ Execute
  \/ Executed \/ After \/ Failed \/ UndoFailed \/ Reply \/ Output

Spec == Init /\ [][Next]_vars
FairSpec == Spec /\ WF_vars(pc # "parse" /\ Next)

-------------------------------------------------------------------------------
TypeOK ==
  /\ pc \in Labels
  /\ line \in Lines
  /\ current_cmd \in Cmds
  /\ current_status \in {"IDLE", "ERROR"}
  /\ {nparams, size, noutput_msgs, output_info_index, rest, written, sent} \subseteq Nat
  /\ {is_cmd_has_output, program_exit, outside} \subseteq BOOLEAN
  /\ conf \in [Options -> Words]

\* No message is stored or fetched past the end of cmd_output_msgs_: the test
\* for growing compares with the capacity, the stores need the size.
OutputBounded == ~outside /\ noutput_msgs <= size /\ output_info_index <= noutput_msgs

\* What the UI is sent is what the command has stored, all of it and nothing that
\* an earlier command has left in the vector: the flag, the count and the index
\* are reset in different places.
OutputIsTheCommands == sent <= written /\ (pc = "top" => sent = written)

\* The sum of the characters of a documented word is a key of its command.
SumsAreKeys ==
  \A w \in DOMAIN Supported :
    Supported[w] \in DOMAIN CmdKey /\ calculate_key(w) \in CmdKey[Supported[w]]

\* A word of the documentation is taken for the command it documents: the sums of
\* the characters are the keys of parseCMD, and differ.
SupportedWordsWork ==
  pc = "execute" /\ line.word \in DOMAIN Supported => current_cmd = Supported[line.word]

\* Every command comes to its end and the worker back for the next one, or to its
\* own end: the loops of ls, installed and commands, and the output loop.
CommandReturns == [](pc \in {"before", "execute"} => <>(pc \in {"parse", "done"}))
===============================================================================
