------------------------------- MODULE Startup -------------------------------
(***************************************************************************)
(* main, the config file, and the start of the Database thread, over many  *)
(* runs of the program: the file and the databases stay, all else goes     *)
(* when a run ends, fails or is killed.                                    *)
(*                                                                         *)
(* The config file is always a number of lines of the three that           *)
(* makeup_config_file writes: what is not followed by a newline            *)
(* read_from_config does not take.  Its place is below HOME whatever       *)
(* MHWIMMROOT is.                                                          *)
(***************************************************************************)
EXTENDS Naturals

CONSTANTS
  Home,         \* the environment's HOME
  Default,      \* HOME/mhwimm
  Values,       \* for each option the values it may be given
  Games,        \* directories the user may name at the first start
  MkdirDone,    \* the directories there are, besides Default
  Long,         \* values that make a line of more than 255 characters
  Cut,          \* what such a value is read as
  Nil,          \* the string "nil"
  Environments  \* what may happen to the program, see env

Options == {"userhome", "mhwiroot", "mhwimmroot"}
Order == <<"userhome", "mhwiroot", "mhwimmroot">>
FaultKinds == {"stdin", "stat", "mkdir", "open", "nospace", "sql"}
DbDirs == {Default, Cut} \cup Values["mhwimmroot"]

VARIABLES
  env,          \* never changes: what may fail, and where the program may be killed
  pc,
  conf,
  config,       \* the config file: is it there, its lines, their values
  read,         \* lines read_from_config has read
  failbit,      \* of conf_source
  db,           \* the database file in each directory
  made,         \* mhwimmroot has been made
  need_create_table,
  db_path,      \* the directory of the database, once main has copied it
  saved,        \* history: the options makeup_config_file last began to write
  spoilt        \* history: directories with a reason for a file without table

file == <<env, config, saved>>
disk == <<file, db, made, spoilt>>
run == <<conf, read, failbit, need_create_table, db_path>>
vars == <<pc, run, disk>>

Conf == [Options -> {Home, Default, Cut, Nil} \cup Games \cup UNION {Values[o] : o \in Options}]
Unset == [userhome |-> Home, mhwiroot |-> Nil, mhwimmroot |-> Default]

\* "off" is between the runs; "read" is a line of read_from_config, "trunc" and
\* "flush" are open and close of makeup_config_file, "first" says that main is
\* still to start the threads.  The fault "stat" is a stat() that fails although
\* the path exists or for another reason than that it does not (errno is not
\* ENOENT), "open" is the config file's, "sql" a failure of sqlite.
Labels == {"off", "begin", "ask", "mkdir", "first_trunc", "first_flush", "read",
           "mask", "stat", "open", "create", "running", "trunc", "flush"}

ASSUME StartupAssumption ==
  /\ Values \in [Options -> SUBSET UNION {Values[o] : o \in Options}]
  /\ Environments \subseteq [faults : SUBSET FaultKinds, kill : SUBSET (Labels \ {"off"})]

Init ==
  /\ env \in Environments
  /\ pc = "off"
  /\ conf = Unset
  /\ config = [there |-> FALSE, lines |-> 0, vals |-> Unset]
  /\ read = 0
  /\ failbit = FALSE
  /\ db = [d \in DbDirs |-> "absent"]
  /\ made = FALSE
  /\ need_create_table = FALSE
  /\ db_path = Default
  /\ saved = Unset
  /\ spoilt = {}

Goto(l) == pc' = l

\* The process is gone, and with it what it had in memory.
Ends ==
  /\ Goto("off")
  /\ conf' = Unset
  /\ read' = 0
  /\ failbit' = FALSE
  /\ need_create_table' = FALSE
  /\ db_path' = Default

-------------------------------------------------------------------------------
(* main, up to the threads.                                                *)

Start ==
  /\ pc = "off"
  /\ Goto("begin")
  /\ UNCHANGED <<run, disk>>

\* mhwimm_need_initialization, to which any failing stat means a first start, and
\* the opening of the file.
Begin ==
  /\ pc = "begin"
  /\ \/ (~config.there \/ "stat" \in env.faults) /\ Goto("ask") /\ UNCHANGED run
     \/ config.there /\ Goto("read") /\ UNCHANGED run
     \/ config.there /\ "open" \in env.faults /\ Ends
  /\ UNCHANGED disk

\* ask_user_to_setup_mhwimmroot
Ask ==
  /\ pc = "ask"
  /\ \/ /\ env.faults \cap {"stdin", "stat"} # {}
        /\ Ends
     \/ /\ \E g \in Games : conf' = [conf EXCEPT !.mhwiroot = g]
        /\ Goto("mkdir")
        /\ UNCHANGED <<read, failbit, need_create_table, db_path>>
  /\ UNCHANGED disk

\* The stat is of HOME.  A directory that is there is no error.
Mkdir ==
  /\ pc = "mkdir"
  /\ \/ env.faults \cap {"stat", "mkdir"} # {} /\ Ends /\ UNCHANGED made
     \/ made' = TRUE /\ Goto("first_trunc") /\ UNCHANGED run
  /\ UNCHANGED <<file, db, spoilt>>

(* makeup_config_file, at the first start and at the end of every run.     *)

\* Variation: the file is written from the values the program has begun with.
TruncKeepsOld ==
  /\ pc \in {"first_trunc", "trunc"}
  /\ Goto(IF pc = "trunc" THEN "flush" ELSE "first_flush")
  /\ config' = [there |-> TRUE, lines |-> 0,
                vals |-> IF config.there THEN config.vals ELSE conf]
  /\ saved' = conf
  /\ UNCHANGED <<env, run, db, made, spoilt>>

\* The first start ends if the file cannot be opened, and so does a run.
Trunc ==
  /\ pc \in {"first_trunc", "trunc"}
  /\ \/ /\ "open" \in env.faults
        /\ Ends
        /\ UNCHANGED file
     \/ /\ Goto(IF pc = "trunc" THEN "flush" ELSE "first_flush")
        /\ config' = [there |-> TRUE, lines |-> 0, vals |-> conf]
        /\ saved' = conf
        /\ UNCHANGED run
  /\ UNCHANGED <<env, db, made, spoilt>>

\* Everything is in the buffer until close, and bad() has been asked by then.
Flush ==
  /\ pc \in {"first_flush", "flush"}
  /\ \E n \in IF "nospace" \in env.faults THEN 0..3 ELSE {3} :
       config' = [config EXCEPT !.lines = n]
  /\ IF pc = "flush" THEN Ends
     ELSE /\ Goto("mask")
          /\ UNCHANGED <<conf, read, failbit, need_create_table, db_path>>
  /\ UNCHANGED <<env, saved, db, made, spoilt>>

\* Variation: the name before "=" is taken for the value.
ReadLineName ==
  /\ pc = "read"
  /\ IF read = config.lines
     THEN Goto("mask") /\ UNCHANGED <<conf, read, failbit>>
     ELSE /\ conf' = [conf EXCEPT ![Order[read + 1]] = Order[read + 1]]
          /\ read' = read + 1
          /\ UNCHANGED <<pc, failbit>>
  /\ UNCHANGED <<need_create_table, db_path, disk>>

\* Variation: eof() is asked after an empty read has gone back to the loop's top.
ReadLineEofLate ==
  /\ pc = "read"
  /\ read < config.lines
  /\ conf' = [conf EXCEPT ![Order[read + 1]] = config.vals[Order[read + 1]]]
  /\ read' = read + 1
  /\ UNCHANGED <<pc, failbit, need_create_table, db_path, disk>>

\* A line too long for the buffer sets failbit, which is not looked at: from then
\* on getline reads nothing, which is taken for an empty line, and never the end.
ReadLine ==
  /\ pc = "read"
  /\ IF failbit THEN UNCHANGED <<pc, conf, read, failbit>>
     ELSE IF read = config.lines
     THEN Goto("mask") /\ UNCHANGED <<conf, read, failbit>>
     ELSE LET o == Order[read + 1]
              v == config.vals[o]
          IN /\ conf' = [conf EXCEPT ![o] = IF v \in Long THEN Cut ELSE v]
             /\ failbit' = (v \in Long)
             /\ read' = read + 1
             /\ UNCHANGED pc
  /\ UNCHANGED <<need_create_table, db_path, disk>>

\* badbit ends the loop, and main.
ReadFails ==
  /\ pc = "read"
  /\ ~failbit /\ "open" \in env.faults
  /\ Ends
  /\ UNCHANGED disk

\* Signals are blocked from here on, and the threads are started.
Mask ==
  /\ pc = "mask"
  /\ Goto("stat")
  /\ db_path' = conf.mhwimmroot
  /\ UNCHANGED <<conf, read, failbit, need_create_table, disk>>

(* The start of the Database thread.                                       *)

DirIsThere(d) == d \in MkdirDone \/ (d = Default /\ made)

\* Variation: the file is looked for after it has been opened.
StatLate ==
  /\ pc = "stat"
  /\ need_create_table' = FALSE
  /\ Goto("open")
  /\ UNCHANGED <<conf, read, failbit, db_path, disk>>

\* Only ENOENT says that there is no file.
Stat ==
  /\ pc = "stat"
  /\ \/ need_create_table' = (db[db_path] = "absent") /\ UNCHANGED spoilt
     \/ /\ "stat" \in env.faults
        /\ need_create_table' = FALSE
        /\ spoilt' = IF db[db_path] = "absent" THEN spoilt \cup {db_path} ELSE spoilt
  /\ Goto("open")
  /\ UNCHANGED <<conf, read, failbit, db_path, file, db, made>>

\* Opening makes the file; the program aborts if it fails, as without the directory.
OpenDB ==
  /\ pc = "open"
  /\ LET d == db_path IN
       \/ /\ DirIsThere(d)
          /\ db' = IF db[d] = "absent" THEN [db EXCEPT ![d] = "empty"] ELSE db
          /\ Goto(IF need_create_table THEN "create" ELSE "running")
          /\ UNCHANGED run
       \/ (~DirIsThere(d) \/ "sql" \in env.faults) /\ Ends /\ UNCHANGED db
  /\ UNCHANGED <<file, made, spoilt>>

\* A failure is fatal; the file stays.
CreateTable ==
  /\ pc = "create"
  /\ \/ /\ "sql" \in env.faults
        /\ spoilt' = spoilt \cup {db_path}
        /\ Ends
        /\ UNCHANGED db
     \/ /\ db' = [db EXCEPT ![db_path] = "table"]
        /\ Goto("running")
        /\ UNCHANGED <<run, spoilt>>
  /\ UNCHANGED <<file, made>>

(* The run and its end.                                                    *)

Config ==
  /\ pc = "running"
  /\ \E o \in Options : \E v \in Values[o] : conf' = [conf EXCEPT ![o] = v]
  /\ UNCHANGED <<pc, read, failbit, need_create_table, db_path, disk>>

\* exit, and the three joins.
Exit ==
  /\ pc = "running"
  /\ Goto("trunc")
  /\ UNCHANGED <<run, disk>>

\* SIGINT and SIGTERM do so only up to Mask.
Kill ==
  /\ pc \in env.kill
  /\ Ends
  /\ spoilt' = IF pc = "create" THEN spoilt \cup {db_path} ELSE spoilt
  /\ UNCHANGED <<file, db, made>>

\* What the program does without its user.  Nothing promises that a read fails.
Proceeds ==
  \/ Begin \/ Mkdir \/ Trunc \/ Flush \/ ReadLine \/ Mask
  \/ Stat \/ OpenDB \/ CreateTable

Next == Start \/ Ask \/ Proceeds \/ ReadFails \/ Config \/ Exit \/ Kill

Spec == Init /\ [][Next]_vars
FairSpec == Spec /\ WF_vars(Proceeds)

-------------------------------------------------------------------------------
\* No write of the config file is cut short, by a full disk or by a kill before
\* close.
WritesAreWhole == "nospace" \notin env.faults /\ env.kill \cap {"first_flush", "flush"} = {}

\* The values of the variables: the fields of config_t, the database file in a
\* directory, and the labels of main and of the Database thread's start.
TypeOK ==
  /\ env \in Environments
  /\ pc \in Labels
  /\ conf \in Conf
  /\ config \in [there : BOOLEAN, lines : 0..3, vals : Conf]
  /\ read \in 0..3
  /\ {failbit, made, need_create_table} \subseteq BOOLEAN
  /\ db \in [DbDirs -> {"absent", "empty", "table"}]
  /\ saved \in Conf
  /\ db_path \in DbDirs
  /\ spoilt \subseteq DbDirs

\* Each option of a run is the one makeup_config_file was last given, by the run
\* before or by this one's first start, or, only where the file has lost its line,
\* the one main begins with.  Lines are lost from the end, and only by a write cut
\* short: no other way a run ends or a start fails leaves the file without them.
ConfigRestored ==
  pc = "mask" =>
    /\ \A i \in 1..3 :
         \/ conf[Order[i]] = saved[Order[i]]
         \/ i > config.lines /\ conf[Order[i]] = Unset[Order[i]]
    /\ WritesAreWhole => config.lines = 3

\* The program runs without its table only in a directory where, once, the stat of
\* the absent file failed with another errno than ENOENT, or creating the table
\* failed or was cut off: there alone mhwimm_db_thread_worker takes the file's being
\* there for the table's.
TableExists == pc = "running" /\ db[db_path] # "table" => db_path \in spoilt

\* A start comes to an end, whatever is in the config file: read_from_config
\* never ends if a line of it is too long, and only then.
StartEnds == [](pc = "read" => <>(pc \in {"running", "off"} \/ failbit))
===============================================================================
