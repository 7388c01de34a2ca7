---------------------------- MODULE StartupProofs ----------------------------
(***************************************************************************)
(* What a run is given by the runs before it: its options, less the lines  *)
(* the config file has lost, and the table, unless there was a reason for  *)
(* a file without it.  Both for every set of values, every order of runs   *)
(* and every fault.                                                        *)
(***************************************************************************)
EXTENDS Startup, TLAPS

\* What may happen to the program does not change.
LEMMA EnvStays ==
  ASSUME [Next]_vars
  PROVE  WritesAreWhole' = WritesAreWhole
<1>1. env' = env
  BY DEF Next, Proceeds, Start, Begin, Ask, Mkdir, Trunc, Flush, ReadLine, ReadFails, Mask,
     Stat, OpenDB, CreateTable, Config, Exit, Kill, vars, disk, file
<1> QED
  BY <1>1 DEF WritesAreWhole

Strings == {Home, Default, Cut, Nil} \cup Games \cup UNION {Values[o] : o \in Options}

LEMMA OrderIsAll ==
  /\ \A i \in 1..3 : Order[i] \in Options
  /\ \A o \in Options : \E i \in 1..3 : Order[i] = o
  /\ \A i, j \in 1..3 : Order[i] = Order[j] => i = j
<1>1. Order[1] = "userhome" /\ Order[2] = "mhwiroot" /\ Order[3] = "mhwimmroot"
  BY DEF Order
<1>2. \A i \in 1..3 : i = 1 \/ i = 2 \/ i = 3
  OBVIOUS
<1> QED
  BY <1>1, <1>2 DEF Options

-------------------------------------------------------------------------------
(* The options.                                                            *)

\* The file while makeup_config_file has it open holds no line yet.
Writing == pc \in {"first_flush", "flush"}

FileInv ==
  /\ config = [there |-> config.there, lines |-> config.lines, vals |-> config.vals]
  /\ config.lines \in 0..3
  /\ config.there => config.vals = saved
  /\ WritesAreWhole /\ config.there /\ ~Writing => config.lines = 3
  /\ Writing => config.there

\* The first n options are those last written, the others main's own.
Taken(n) == \A i \in 1..3 : conf[Order[i]] = IF i <= n THEN saved[Order[i]] ELSE Unset[Order[i]]

\* Of a file that has been read the lines after its last are main's own.
ReadInv ==
  /\ read \in 0..3
  /\ failbit => pc = "read"
  /\ pc \in {"off", "begin"} => read = 0 /\ conf = Unset
  /\ pc = "read" => config.there /\ read <= config.lines
  /\ pc = "read" /\ ~failbit => Taken(read)
  /\ pc = "first_flush" => conf = saved
  /\ pc = "mask" => config.there /\ (conf = saved \/ Taken(config.lines))

OptionsInv ==
  /\ conf \in [Options -> Strings]
  /\ saved \in [Options -> Strings]

ConfigInv == pc \in Labels /\ OptionsInv /\ FileInv /\ ReadInv

LEMMA OptionsAreFunctions ==
  /\ Unset \in [Options -> Strings]
  /\ \A c \in [Options -> Strings], o \in Options, v \in Strings :
       [c EXCEPT ![o] = v] \in [Options -> Strings]
<1>1. Unset = [o \in Options |-> IF o = "userhome" THEN Home
                                 ELSE IF o = "mhwiroot" THEN Nil ELSE Default]
  BY DEF Unset, Options
<1>2. [o \in Options |-> IF o = "userhome" THEN Home
                         ELSE IF o = "mhwiroot" THEN Nil ELSE Default]
        \in [Options -> Strings]
  BY DEF Strings, Options
<1> QED
  BY <1>1, <1>2

LEMMA ConfigInvInit == Init => ConfigInv
<1> SUFFICES ASSUME Init PROVE ConfigInv
  OBVIOUS
<1>1. pc = "off" /\ conf = Unset /\ saved = Unset /\ read = 0 /\ ~failbit
  BY DEF Init
<1>2. config = [there |-> FALSE, lines |-> 0, vals |-> Unset]
  BY DEF Init
<1>3. OptionsInv
  BY <1>1, OptionsAreFunctions DEF OptionsInv
<1>4. FileInv
  BY <1>1, <1>2 DEF FileInv, Writing
<1> QED
  BY <1>1, <1>3, <1>4 DEF ConfigInv, ReadInv, Labels

\* The end of a run, wherever it is not writing.
LEMMA EndsKeepsConfigInv ==
  ASSUME ConfigInv, Ends, config' = config, saved' = saved, WritesAreWhole => ~Writing,
         WritesAreWhole' = WritesAreWhole
  PROVE  ConfigInv'
<1>1. pc' = "off" /\ conf' = Unset /\ read' = 0 /\ ~failbit'
  BY DEF Ends, Goto
<1>2. OptionsInv'
  BY <1>1, OptionsAreFunctions DEF OptionsInv, ConfigInv
<1>3. FileInv'
  BY <1>1 DEF ConfigInv, FileInv, Writing
<1> QED
  BY <1>1, <1>2, <1>3 DEF ConfigInv, ReadInv, Labels

LEMMA ConfigInvStep ==
  ASSUME ConfigInv, [Next]_vars
  PROVE  ConfigInv'
<1> USE DEF Goto
<1>0. WritesAreWhole' = WritesAreWhole
  BY EnvStays
<1>1. CASE Start
  BY <1>0, <1>1 DEF Start, run, disk, file, ConfigInv, OptionsInv, FileInv, ReadInv, Writing, Labels
<1>2. CASE Begin
  <2>1. pc = "begin" /\ UNCHANGED <<config, saved>>
    BY <1>2 DEF Begin, disk, file
  <2>2. CASE Ends
    BY <1>0, <2>1, <2>2, EndsKeepsConfigInv DEF Writing
  <2>3. CASE ~Ends
    <3>1. /\ UNCHANGED <<conf, read, failbit>>
          /\ pc' = "ask" \/ (pc' = "read" /\ config.there)
      BY <1>2, <2>3 DEF Begin, run
    <3>2. read = 0 /\ conf = Unset /\ ~failbit /\ config.lines \in 0..3
      BY <2>1 DEF ConfigInv, ReadInv, FileInv
    <3>3. Taken(0)
      BY <3>2 DEF Taken
    <3>4. Taken(read)'
      BY <2>1, <3>1, <3>2, <3>3 DEF Taken
    <3> QED
      BY <1>0, <2>1, <3>1, <3>2, <3>4
         DEF ConfigInv, OptionsInv, FileInv, ReadInv, Writing, Labels
  <2> QED
    BY <2>2, <2>3
<1>3. CASE Ask
  <2>1. CASE Ends
    BY <1>0, <1>3, <2>1, EndsKeepsConfigInv DEF Ask, disk, file, Writing
  <2>2. CASE ~Ends
    <3>1. pc = "ask" /\ pc' = "mkdir" /\ UNCHANGED <<read, failbit, config, saved>>
      BY <1>3, <2>2 DEF Ask, disk, file
    <3>2. conf' \in [Options -> Strings]
      <4>1. PICK g \in Games : conf' = [conf EXCEPT !["mhwiroot"] = g]
        BY <1>3, <2>2 DEF Ask
      <4>2. conf \in [Options -> Strings] /\ "mhwiroot" \in Options /\ g \in Strings
        BY DEF ConfigInv, OptionsInv, Options, Strings
      <4> QED
        BY <4>1, <4>2, OptionsAreFunctions
    <3> QED
      BY <1>0, <3>1, <3>2 DEF ConfigInv, OptionsInv, FileInv, ReadInv, Writing, Labels
  <2> QED
    BY <2>1, <2>2
<1>4. CASE Mkdir
  <2>1. CASE Ends
    BY <1>0, <1>4, <2>1, EndsKeepsConfigInv DEF Mkdir, file, Writing
  <2>2. CASE ~Ends
    BY <1>0, <1>4, <2>2 DEF Mkdir, run, file, ConfigInv, OptionsInv, FileInv, ReadInv, Writing, Labels
  <2> QED
    BY <2>1, <2>2
<1>5. CASE Trunc
  <2>1. CASE Ends /\ UNCHANGED file
    BY <1>0, <1>5, <2>1, EndsKeepsConfigInv DEF Trunc, file, Writing
  <2>2. CASE ~(Ends /\ UNCHANGED file)
    <3>1. /\ pc \in {"first_trunc", "trunc"} /\ pc' \in {"flush", "first_flush"}
          /\ config' = [there |-> TRUE, lines |-> 0, vals |-> conf]
          /\ saved' = conf
          /\ UNCHANGED <<conf, read, failbit>>
      BY <1>5, <2>2 DEF Trunc, run
    <3>2. FileInv'
      BY <3>1 DEF FileInv, Writing
    <3> QED
      BY <3>1, <3>2 DEF ConfigInv, OptionsInv, ReadInv, Labels
  <2> QED
    BY <2>1, <2>2
<1>6. CASE Flush
  <2>1. /\ \E n \in 0..3 : config' = [config EXCEPT !.lines = n]
        /\ WritesAreWhole => config' = [config EXCEPT !.lines = 3]
        /\ Writing /\ saved' = saved
    BY <1>6 DEF Flush, WritesAreWhole, Writing
  <2>2. PICK n \in 0..3 : config' = [config EXCEPT !.lines = n]
    BY <2>1
  <2>3. /\ config' = [there |-> config.there, lines |-> n, vals |-> config.vals]
        /\ WritesAreWhole => config' = [there |-> config.there, lines |-> 3, vals |-> config.vals]
    BY <2>1, <2>2 DEF ConfigInv, FileInv
  <2>4. ~Writing'
    BY <1>6 DEF Flush, Writing, Ends
  <2>5. FileInv'
    <3>1. config.there /\ config.vals = saved
      BY <2>1 DEF ConfigInv, FileInv
    <3>2. /\ config'.there = config.there /\ config'.vals = config.vals
          /\ config'.lines = n /\ (WritesAreWhole => config'.lines = 3)
      BY <2>3
    <3>3. config' = [there |-> config'.there, lines |-> config'.lines, vals |-> config'.vals]
      BY <2>3, <3>2
    <3> QED
      BY <1>0, <2>1, <2>4, <3>1, <3>2, <3>3 DEF FileInv
  <2>6. CASE pc = "flush"
    <3>1. pc' = "off" /\ conf' = Unset /\ read' = 0 /\ ~failbit'
      BY <1>6, <2>6 DEF Flush, Ends
    <3> QED
      BY <2>1, <2>5, <3>1, OptionsAreFunctions DEF ConfigInv, OptionsInv, ReadInv, Labels
  <2>7. CASE pc = "first_flush"
    <3>1. pc' = "mask" /\ UNCHANGED <<conf, read, failbit>>
      BY <1>6, <2>7 DEF Flush
    <3>2. config'.there
      BY <2>1, <2>3 DEF ConfigInv, FileInv
    <3> QED
      BY <2>1, <2>5, <2>7, <3>1, <3>2 DEF ConfigInv, OptionsInv, ReadInv, Labels
  <2> QED
    BY <1>6, <2>6, <2>7 DEF Flush
<1>7. CASE ReadLine
  <2>1. pc = "read" /\ UNCHANGED <<config, saved>>
    BY <1>7 DEF ReadLine, disk, file
  <2>2. config.there /\ config.lines \in 0..3 /\ config.vals = saved
    BY <2>1 DEF ConfigInv, FileInv, ReadInv
  <2>3. CASE failbit
    <3>1. UNCHANGED <<pc, conf, read, failbit>>
      BY <1>7, <2>3 DEF ReadLine
    <3> QED
      BY <1>0, <2>1, <2>3, <3>1 DEF ConfigInv, OptionsInv, FileInv, ReadInv, Writing
  <2>4. CASE ~failbit /\ read = config.lines
    <3>1. pc' = "mask" /\ UNCHANGED <<conf, read, failbit>>
      BY <1>7, <2>1, <2>4 DEF ReadLine
    <3>2. Taken(config.lines)
      BY <2>1, <2>4 DEF ConfigInv, ReadInv
    <3>3. Taken(config.lines)'
      BY <2>1, <3>1, <3>2 DEF Taken
    <3>4. FileInv'
      BY <1>0, <2>1, <2>2, <3>1 DEF ConfigInv, FileInv, Writing
    <3> QED
      BY <2>1, <2>2, <2>4, <3>1, <3>3, <3>4 DEF ConfigInv, OptionsInv, ReadInv, Labels
  <2>5. CASE ~failbit /\ read # config.lines
    <3> DEFINE o == Order[read + 1]
    <3>1. read \in 0..2 /\ read + 1 \in 1..3 /\ read + 1 <= config.lines /\ o \in Options
      <4>1. read \in 0..2 /\ read + 1 \in 1..3 /\ read + 1 <= config.lines
        BY <2>1, <2>2, <2>5 DEF ConfigInv, ReadInv
      <4> QED
        BY <4>1, OrderIsAll
    <3> DEFINE v == IF saved[o] \in Long THEN Cut ELSE saved[o]
    <3>2. /\ conf' = [conf EXCEPT ![o] = v]
          /\ ~failbit' => v = saved[o]
          /\ read' = read + 1
          /\ pc' = pc
      BY <1>7, <2>1, <2>2, <2>5 DEF ReadLine
    <3> HIDE DEF o
    <3>3. v \in Strings /\ conf \in [Options -> Strings]
      BY <3>1 DEF ConfigInv, OptionsInv, Strings
    <3> HIDE DEF v
    <3>4. conf' \in [Options -> Strings]
      BY <3>1, <3>2, <3>3, OptionsAreFunctions
    <3>5. ~failbit' => Taken(read)'
      <4> SUFFICES ASSUME ~failbit', NEW i \in 1..3
                   PROVE  conf'[Order[i]]
                            = IF i <= read + 1 THEN saved[Order[i]] ELSE Unset[Order[i]]
        BY <2>1, <3>2 DEF Taken
      <4>1. Order[i] \in Options
        BY OrderIsAll
      <4>2. CASE i = read + 1
        <5>1. i <= read + 1 /\ Order[i] = o
          BY <3>1, <4>2 DEF o
        <5>2. conf'[o] = saved[o]
          BY <3>1, <3>2, <3>3
        <5> QED
          BY <5>1, <5>2
      <4>3. CASE i # read + 1
        <5>1. (i <= read) <=> (i <= read + 1)
          BY <3>1, <4>3
        <5>2. conf[Order[i]] = IF i <= read THEN saved[Order[i]] ELSE Unset[Order[i]]
          BY <2>1, <2>5 DEF ConfigInv, ReadInv, Taken
        <5>3. Order[i] # o
          BY <3>1, <4>3, OrderIsAll DEF o
        <5>4. conf'[Order[i]] = conf[Order[i]]
          BY <3>2, <3>3, <4>1, <5>3
        <5> QED
          BY <5>1, <5>2, <5>4
      <4> QED
        BY <4>2, <4>3
    <3>6. FileInv'
      BY <1>0, <2>1, <2>2, <3>2 DEF ConfigInv, FileInv, Writing
    <3>7. read' \in 0..3 /\ read' <= config.lines
      BY <3>1, <3>2
    <3> QED
      BY <2>1, <2>2, <3>2, <3>4, <3>5, <3>6, <3>7 DEF ConfigInv, OptionsInv, ReadInv, Labels
  <2> QED
    BY <2>3, <2>4, <2>5
<1>8. CASE Mask \/ Stat \/ Exit
  BY <1>0, <1>8
     DEF Mask, Stat, Exit, run, disk, file, ConfigInv, OptionsInv, FileInv, ReadInv, Writing, Labels
<1>9. CASE OpenDB \/ CreateTable
  <2>1. UNCHANGED <<config, saved>> /\ ~Writing
    BY <1>9 DEF OpenDB, CreateTable, file, Writing
  <2>2. CASE Ends
    BY <1>0, <2>1, <2>2, EndsKeepsConfigInv
  <2>3. CASE ~Ends
    <3>1. pc # "read" /\ pc' \in {"create", "running"} /\ UNCHANGED <<conf, read, failbit>>
      BY <1>9, <2>3 DEF OpenDB, CreateTable, run
    <3> QED
      BY <1>0, <2>1, <3>1 DEF ConfigInv, OptionsInv, FileInv, ReadInv, Writing, Labels
  <2> QED
    BY <2>2, <2>3
<1>10. CASE Config
  <2>1. PICK o \in Options : \E v \in Values[o] : conf' = [conf EXCEPT ![o] = v]
    BY <1>10 DEF Config
  <2>2. PICK v \in Values[o] : conf' = [conf EXCEPT ![o] = v]
    BY <2>1
  <2>3. v \in Strings
    BY DEF Strings
  <2>4. conf' \in [Options -> Strings]
    BY <2>2, <2>3, OptionsAreFunctions DEF ConfigInv, OptionsInv
  <2>5. pc = "running" /\ UNCHANGED <<pc, read, failbit, config, saved>>
    BY <1>10 DEF Config, disk, file
  <2> QED
    BY <1>0, <2>4, <2>5 DEF ConfigInv, OptionsInv, FileInv, ReadInv, Writing
<1>11. CASE Kill \/ ReadFails
  <2>1. Ends /\ UNCHANGED <<config, saved>>
    BY <1>11 DEF Kill, ReadFails, disk, file
  <2>2. WritesAreWhole => ~Writing
    BY <1>11 DEF Kill, ReadFails, Writing, WritesAreWhole
  <2> QED
    BY <1>0, <2>1, <2>2, EndsKeepsConfigInv
<1>12. CASE UNCHANGED vars
  BY <1>0, <1>12 DEF vars, run, disk, file, ConfigInv, OptionsInv, FileInv, ReadInv, Writing, Taken
<1> QED
  BY <1>1, <1>2, <1>3, <1>4, <1>5, <1>6, <1>7, <1>8, <1>9, <1>10, <1>11, <1>12
     DEF Next, Proceeds

\* A run begins with the options that makeup_config_file was last given, whatever
\* fails or is killed, but for the lines a write cut short has lost: the lines it
\* writes are the lines read_from_config takes, and with one that is too long the
\* run does not begin.
THEOREM ConfigIsRestored == Spec => []ConfigRestored
<1>1. ConfigInv => ConfigRestored
  <2> SUFFICES ASSUME ConfigInv, pc = "mask"
               PROVE  /\ \A i \in 1..3 :
                           \/ conf[Order[i]] = saved[Order[i]]
                           \/ i > config.lines /\ conf[Order[i]] = Unset[Order[i]]
                      /\ WritesAreWhole => config.lines = 3
    BY DEF ConfigRestored
  <2>1. config.there /\ (conf = saved \/ Taken(config.lines)) /\ config.lines \in 0..3
    BY DEF ConfigInv, ReadInv, FileInv
  <2>2. WritesAreWhole => config.lines = 3
    BY <2>1 DEF ConfigInv, FileInv, Writing
  <2>3. ASSUME NEW i \in 1..3
        PROVE  \/ conf[Order[i]] = saved[Order[i]]
               \/ i > config.lines /\ conf[Order[i]] = Unset[Order[i]]
    <3>1. CASE conf = saved
      BY <3>1
    <3>2. CASE Taken(config.lines) /\ i <= config.lines
      BY <3>2 DEF Taken
    <3>3. CASE Taken(config.lines) /\ ~(i <= config.lines)
      <4>1. i > config.lines
        BY <2>1, <3>3
      <4> QED
        BY <3>3, <4>1 DEF Taken
    <3> QED
      BY <2>1, <3>1, <3>2, <3>3
  <2> QED
    BY <2>2, <2>3
<1> QED
  BY <1>1, ConfigInvInit, ConfigInvStep, PTL DEF Spec

-------------------------------------------------------------------------------
(* The table.                                                              *)

DbOptions == {c \in [Options -> Strings] : c["mhwimmroot"] \in DbDirs}

ReadsInv ==
  /\ pc \in Labels
  /\ conf \in DbOptions
  /\ config = [there |-> config.there, lines |-> config.lines, vals |-> config.vals]
  /\ config.vals \in DbOptions
  /\ config.lines \in 0..3
  /\ read \in 0..3
  /\ pc \in {"off", "begin"} => read = 0
  /\ pc = "read" => read <= config.lines

\* A file without the table is there only while the table is being made, or where
\* there is a reason for it; and where there is none an absent file is not missed.
EmptyInv ==
  /\ db \in [DbDirs -> {"absent", "empty", "table"}]
  /\ db_path \in DbDirs
  /\ \A d \in DbDirs : db[d] = "empty" => d \in spoilt \/ (pc = "create" /\ db_path = d)
  /\ pc = "open" /\ ~need_create_table /\ db[db_path] = "absent" => db_path \in spoilt
  /\ pc = "running" => db[db_path] = "table" \/ db_path \in spoilt

TableInv == ReadsInv /\ EmptyInv

LEMMA DbOptionsAreOptions ==
  /\ Unset \in DbOptions
  /\ \A c \in DbOptions, o \in Options, v \in Strings :
       (o = "mhwimmroot" => v \in DbDirs) => [c EXCEPT ![o] = v] \in DbOptions
<1>1. Unset["mhwimmroot"] \in DbDirs
  BY DEF Unset, DbDirs
<1>2. ASSUME NEW c \in DbOptions, NEW o \in Options, NEW v \in Strings,
             o = "mhwimmroot" => v \in DbDirs
      PROVE  [c EXCEPT ![o] = v] \in DbOptions
  <2>1. c \in [Options -> Strings] /\ c["mhwimmroot"] \in DbDirs
    BY DEF DbOptions
  <2>2. [c EXCEPT ![o] = v] \in [Options -> Strings]
    BY <2>1
  <2>3. "mhwimmroot" \in Options
    BY DEF Options
  <2>4. [c EXCEPT ![o] = v]["mhwimmroot"] \in DbDirs
    BY <1>2, <2>1, <2>3
  <2> QED
    BY <2>2, <2>4 DEF DbOptions
<1> QED
  BY <1>1, <1>2, OptionsAreFunctions DEF DbOptions

LEMMA EndsKeepsTableInv ==
  ASSUME TableInv, Ends, UNCHANGED <<config, db>>, spoilt \subseteq spoilt',
         pc = "create" => db_path \in spoilt'
  PROVE  TableInv'
<1>1. pc' = "off" /\ conf' = Unset /\ read' = 0 /\ db_path' \in DbDirs
  BY DEF Ends, Goto, DbDirs
<1>2. ReadsInv'
  BY <1>1, DbOptionsAreOptions DEF TableInv, ReadsInv, Labels
<1>3. EmptyInv'
  BY <1>1 DEF TableInv, EmptyInv
<1> QED
  BY <1>2, <1>3 DEF TableInv

\* A step between two labels that touches neither the options nor the databases.
LEMMA GotoKeepsTableInv ==
  ASSUME TableInv, UNCHANGED <<conf, config, read, db, spoilt>>, db_path' \in DbDirs, pc' \in Labels,
         pc # "create", pc' \notin {"off", "begin", "open", "running"},
         pc' = "read" => read <= config.lines
  PROVE  TableInv'
BY DEF TableInv, ReadsInv, EmptyInv

LEMMA TableInvStep ==
  ASSUME TableInv, [Next]_vars
  PROVE  TableInv'
<1> USE DEF Goto
<1>1. CASE Start
  BY <1>1 DEF Start, run, disk, file, TableInv, ReadsInv, EmptyInv, Labels
<1>2. CASE Begin
  <2>1. CASE Ends
    BY <1>2, <2>1, EndsKeepsTableInv DEF Begin, disk, file
  <2>2. CASE ~Ends
    BY <1>2, <2>2, GotoKeepsTableInv
       DEF Begin, run, disk, file, TableInv, ReadsInv, EmptyInv, Labels
  <2> QED
    BY <2>1, <2>2
<1>3. CASE Ask
  <2>1. CASE Ends
    BY <1>3, <2>1, EndsKeepsTableInv DEF Ask, disk, file
  <2>2. CASE ~Ends
    <3>1. pc = "ask" /\ pc' = "mkdir" /\ UNCHANGED <<read, config, db, db_path, spoilt>>
      BY <1>3, <2>2 DEF Ask, disk, file
    <3>2. PICK g \in Games : conf' = [conf EXCEPT !["mhwiroot"] = g]
      BY <1>3, <2>2 DEF Ask
    <3>3. conf' \in DbOptions
      <4>1. "mhwiroot" \in Options /\ g \in Strings
        BY DEF Options, Strings
      <4> QED
        BY <3>2, <4>1, DbOptionsAreOptions DEF TableInv, ReadsInv
    <3> QED
      BY <3>1, <3>3 DEF TableInv, ReadsInv, EmptyInv, Labels
  <2> QED
    BY <2>1, <2>2
<1>4. CASE Mkdir
  <2>1. CASE Ends
    BY <1>4, <2>1, EndsKeepsTableInv DEF Mkdir, file
  <2>2. CASE ~Ends
    BY <1>4, <2>2, GotoKeepsTableInv DEF Mkdir, run, file, TableInv, EmptyInv, Labels
  <2> QED
    BY <2>1, <2>2
<1>5. CASE Trunc
  <2>1. CASE Ends /\ UNCHANGED file
    BY <1>5, <2>1, EndsKeepsTableInv DEF Trunc, file
  <2>2. CASE ~(Ends /\ UNCHANGED file)
    <3>1. /\ pc \in {"first_trunc", "trunc"}
          /\ pc' \in {"flush", "first_flush"}
          /\ config' = [there |-> TRUE, lines |-> 0, vals |-> conf]
          /\ UNCHANGED <<conf, read, db, db_path, spoilt>>
      BY <1>5, <2>2 DEF Trunc, run
    <3>2. ReadsInv'
      BY <3>1 DEF TableInv, ReadsInv, Labels
    <3> QED
      BY <3>1, <3>2 DEF TableInv, EmptyInv
  <2> QED
    BY <2>1, <2>2
<1>6. CASE Flush
  <2>1. PICK n \in 0..3 : config' = [config EXCEPT !.lines = n]
    BY <1>6 DEF Flush
  <2>2. config' = [there |-> config.there, lines |-> n, vals |-> config.vals]
    BY <2>1 DEF TableInv, ReadsInv
  <2>3. pc \in {"first_flush", "flush"} /\ UNCHANGED <<db, spoilt>>
    BY <1>6 DEF Flush
  <2>4. /\ (pc' = "off" /\ conf' = Unset /\ read' = 0) \/ (pc' = "mask" /\ UNCHANGED <<conf, read>>)
        /\ db_path' \in {Default, db_path}
    BY <1>6 DEF Flush, Ends
  <2>5. ReadsInv'
    BY <2>2, <2>4, DbOptionsAreOptions DEF TableInv, ReadsInv, Labels
  <2>6. EmptyInv'
    BY <2>3, <2>4 DEF TableInv, EmptyInv, DbDirs
  <2> QED
    BY <2>5, <2>6 DEF TableInv
<1>7. CASE ReadLine
  <2>1. pc = "read" /\ UNCHANGED <<config, db, db_path, spoilt>>
    BY <1>7 DEF ReadLine, disk, file
  <2>2. CASE failbit \/ read = config.lines
    <3>1. pc' \in {"read", "mask"} /\ UNCHANGED <<conf, read>>
      BY <1>7, <2>2 DEF ReadLine
    <3> QED
      BY <2>1, <3>1, GotoKeepsTableInv DEF TableInv, ReadsInv, EmptyInv, Labels
  <2>3. CASE ~failbit /\ read # config.lines
    <3> DEFINE o == Order[read + 1]
               v == IF config.vals[o] \in Long THEN Cut ELSE config.vals[o]
    <3>1. read \in 0..2 /\ read + 1 \in 1..3 /\ read + 1 <= config.lines
      BY <2>1, <2>3 DEF TableInv, ReadsInv
    <3>2. o \in Options
      BY <3>1, OrderIsAll
    <3>3. conf' = [conf EXCEPT ![o] = v] /\ read' = read + 1 /\ pc' = pc
      BY <1>7, <2>3 DEF ReadLine
    <3> HIDE DEF o
    <3>4. config.vals \in [Options -> Strings] /\ config.vals["mhwimmroot"] \in DbDirs
      BY DEF TableInv, ReadsInv, DbOptions
    <3>5. v \in Strings
      BY <3>2, <3>4 DEF Strings
    <3>6. o = "mhwimmroot" => v \in DbDirs
      BY <3>4 DEF DbDirs
    <3> HIDE DEF v
    <3>7. conf' \in DbOptions
      BY <3>2, <3>3, <3>5, <3>6, DbOptionsAreOptions DEF TableInv, ReadsInv
    <3>8. ReadsInv'
      BY <2>1, <3>1, <3>3, <3>7 DEF TableInv, ReadsInv
    <3> QED
      BY <2>1, <3>3, <3>8 DEF TableInv, EmptyInv
  <2> QED
    BY <2>2, <2>3
<1>8. CASE Mask \/ Exit
  <2>1. conf["mhwimmroot"] \in DbDirs /\ db_path \in DbDirs
    BY DEF TableInv, ReadsInv, EmptyInv, DbOptions
  <2>2. /\ pc \in {"mask", "running"} /\ pc' \in {"stat", "trunc"}
        /\ UNCHANGED <<conf, config, read, db, spoilt>>
        /\ db_path' \in {conf["mhwimmroot"], db_path}
    BY <1>8 DEF Mask, Exit, run, disk, file
  <2> QED
    BY <2>1, <2>2, GotoKeepsTableInv DEF Labels
<1>9. CASE Stat
  <2>1. pc = "stat" /\ pc' = "open" /\ UNCHANGED <<conf, config, read, db, db_path>>
    BY <1>9 DEF Stat, file
  <2>2. /\ spoilt \subseteq spoilt'
        /\ ~need_create_table' /\ db[db_path] = "absent" => db_path \in spoilt'
    BY <1>9 DEF Stat
  <2>3. ReadsInv'
    BY <2>1 DEF TableInv, ReadsInv, Labels
  <2>4. EmptyInv'
    BY <2>1, <2>2 DEF TableInv, EmptyInv
  <2> QED
    BY <2>3, <2>4 DEF TableInv
<1>10. CASE OpenDB
  <2>1. pc = "open" /\ UNCHANGED <<config, spoilt>>
    BY <1>10 DEF OpenDB, file
  <2>2. CASE Ends /\ db' = db
    BY <2>1, <2>2, EndsKeepsTableInv
  <2>3. CASE ~(Ends /\ db' = db)
    <3> DEFINE d == db_path
    <3>1. /\ db' = IF db[d] = "absent" THEN [db EXCEPT ![d] = "empty"] ELSE db
          /\ pc' = IF need_create_table THEN "create" ELSE "running"
          /\ UNCHANGED <<conf, read, db_path>>
      BY <1>10, <2>3 DEF OpenDB, run
    <3>2. /\ d \in DbDirs /\ db[d] \in {"absent", "empty", "table"}
          /\ ~need_create_table /\ db[d] = "absent" => d \in spoilt
          /\ \A e \in DbDirs : db[e] = "empty" => e \in spoilt
      BY <2>1 DEF TableInv, EmptyInv
    <3>3. ReadsInv'
      BY <2>1, <3>1 DEF TableInv, ReadsInv, Labels
    <3>4. db' \in [DbDirs -> {"absent", "empty", "table"}]
      BY <3>1, <3>2 DEF TableInv, EmptyInv
    <3>5. \A e \in DbDirs : db'[e] = "empty" => e \in spoilt \/ (need_create_table /\ e = d)
      BY <3>1, <3>2 DEF TableInv, EmptyInv
    <3>6. db'[d] # "absent"
      BY <3>1, <3>2 DEF TableInv, EmptyInv
    <3>7. EmptyInv'
      BY <2>1, <3>1, <3>2, <3>4, <3>5, <3>6 DEF EmptyInv
    <3> QED
      BY <3>3, <3>7 DEF TableInv
  <2> QED
    BY <2>2, <2>3
<1>11. CASE CreateTable
  <2>1. pc = "create" /\ config' = config
    BY <1>11 DEF CreateTable, file
  <2>2. CASE Ends /\ db' = db /\ spoilt' = spoilt \cup {db_path}
    BY <2>1, <2>2, EndsKeepsTableInv
  <2>3. CASE ~(Ends /\ db' = db /\ spoilt' = spoilt \cup {db_path})
    <3>1. /\ pc' = "running" /\ UNCHANGED <<conf, read, db_path, spoilt>>
          /\ db' = [db EXCEPT ![db_path] = "table"]
      BY <1>11, <2>3 DEF CreateTable, run
    <3>2. ReadsInv'
      BY <2>1, <3>1 DEF TableInv, ReadsInv, Labels
    <3>3. db_path \in DbDirs
      BY DEF TableInv, EmptyInv
    <3>4. EmptyInv'
      BY <2>1, <3>1, <3>3 DEF TableInv, EmptyInv
    <3> QED
      BY <3>2, <3>4 DEF TableInv
  <2> QED
    BY <2>2, <2>3
<1>12. CASE Config
  <2>1. PICK o \in Options : \E v \in Values[o] : conf' = [conf EXCEPT ![o] = v]
    BY <1>12 DEF Config
  <2>2. PICK v \in Values[o] : conf' = [conf EXCEPT ![o] = v]
    BY <2>1
  <2>3. v \in Strings /\ (o = "mhwimmroot" => v \in DbDirs)
    BY DEF Strings, DbDirs
  <2>4. conf' \in DbOptions
    BY <2>2, <2>3, DbOptionsAreOptions DEF TableInv, ReadsInv
  <2>5. pc = "running" /\ UNCHANGED <<pc, read, config, db, db_path, spoilt>>
    BY <1>12 DEF Config, disk, file
  <2> QED
    BY <2>4, <2>5 DEF TableInv, ReadsInv, EmptyInv
<1>13. CASE Kill \/ ReadFails
  <2>1. /\ Ends /\ UNCHANGED <<config, db>> /\ spoilt \subseteq spoilt'
        /\ pc = "create" => db_path \in spoilt'
    BY <1>13 DEF Kill, ReadFails, disk, file
  <2> QED
    BY <2>1, EndsKeepsTableInv
<1>14. CASE UNCHANGED vars
  BY <1>14 DEF vars, run, disk, file, TableInv, ReadsInv, EmptyInv
<1> QED
  BY <1>1, <1>2, <1>3, <1>4, <1>5, <1>6, <1>7, <1>8, <1>9, <1>10, <1>11, <1>12, <1>13,
     <1>14 DEF Next, Proceeds

\* A running program has its table in every directory but those where the stat of
\* the absent file once failed for another reason, or creating the table failed or
\* was cut off: nothing else that fails or ends a run early, and no change of
\* MHWIMMROOT or of the config file, makes mhwimm_db_thread_worker take a file
\* without the table for one with it.
THEOREM TableIsThere == Spec => []TableExists
<1>1. Init => TableInv
  <2> SUFFICES ASSUME Init PROVE TableInv
    OBVIOUS
  <2>1. /\ pc = "off" /\ conf = Unset /\ read = 0
        /\ config = [there |-> FALSE, lines |-> 0, vals |-> Unset]
        /\ db = [d \in DbDirs |-> "absent"] /\ db_path = Default
    BY DEF Init
  <2>2. ReadsInv
    BY <2>1, DbOptionsAreOptions DEF ReadsInv, Labels
  <2>3. EmptyInv
    BY <2>1 DEF EmptyInv, DbDirs
  <2> QED
    BY <2>2, <2>3 DEF TableInv
<1>2. TableInv => TableExists
  BY DEF TableInv, EmptyInv, TableExists
<1> QED
  BY <1>1, <1>2, TableInvStep, PTL DEF Spec

-------------------------------------------------------------------------------
(* The types, whatever fails or is killed.                                 *)

\* The directory of the database comes from the options, so an option has to keep
\* to its own values, in the file too; and no more lines are read than there are.
TypeInv ==
  /\ ReadsInv
  /\ env \in Environments
  /\ saved \in DbOptions
  /\ config.there \in BOOLEAN
  /\ failbit \in BOOLEAN /\ made \in BOOLEAN /\ need_create_table \in BOOLEAN
  /\ spoilt \subseteq DbDirs
  /\ db \in [DbDirs -> {"absent", "empty", "table"}]
  /\ db_path \in DbDirs

LEMMA EndsKeepsTypeInv ==
  ASSUME TypeInv, Ends, UNCHANGED <<file, db>>, made' \in BOOLEAN, spoilt' \subseteq DbDirs
  PROVE  TypeInv'
<1>1. /\ pc' = "off" /\ conf' = Unset /\ read' = 0 /\ db_path' \in DbDirs
      /\ failbit' \in BOOLEAN /\ need_create_table' \in BOOLEAN
      /\ UNCHANGED <<env, config, saved, db>>
  BY DEF Ends, Goto, DbDirs, file
<1>2. ReadsInv'
  BY <1>1, DbOptionsAreOptions DEF TypeInv, ReadsInv, Labels
<1> QED
  BY <1>1, <1>2 DEF TypeInv

\* A step between two labels that leaves the options as they are.
LEMMA GotoKeepsTypeInv ==
  ASSUME TypeInv, UNCHANGED <<file, conf, read, failbit>>, pc' \in Labels,
         pc' = "begin" => pc = "off", pc' # "off", pc' = "read" => read <= config.lines,
         made' \in BOOLEAN, need_create_table' \in BOOLEAN, spoilt' \subseteq DbDirs,
         db' \in [DbDirs -> {"absent", "empty", "table"}], db_path' \in DbDirs
  PROVE  TypeInv'
BY DEF TypeInv, ReadsInv, file

LEMMA TypeInvStep ==
  ASSUME TypeInv, [Next]_vars
  PROVE  TypeInv'
<1> USE DEF Goto
<1>0. /\ made \in BOOLEAN /\ spoilt \subseteq DbDirs /\ need_create_table \in BOOLEAN /\ db_path \in DbDirs
      /\ db \in [DbDirs -> {"absent", "empty", "table"}]
  BY DEF TypeInv
<1>1. CASE Start \/ (Begin /\ ~Ends) \/ Exit
  <2>1. /\ UNCHANGED <<file, run, db, made, spoilt>> /\ pc' \in {"begin", "read", "ask", "trunc"}
        /\ pc' = "begin" => pc = "off"
        /\ pc' = "read" => read = 0
    BY <1>1 DEF Start, Begin, Exit, disk, TypeInv, ReadsInv
  <2>2. config.lines \in 0..3
    BY DEF TypeInv, ReadsInv
  <2> QED
    BY <1>0, <2>1, <2>2, GotoKeepsTypeInv DEF run, Labels
<1>2. CASE Ask
  <2>1. CASE Ends
    BY <1>0, <1>2, <2>1, EndsKeepsTypeInv DEF Ask, disk
  <2>2. CASE ~Ends
    <3>1. /\ pc' = "mkdir"
          /\ UNCHANGED <<env, config, saved, spoilt, db, made, read, failbit, need_create_table,
                        db_path>>
      BY <1>2, <2>2 DEF Ask, disk, file
    <3>2. PICK g \in Games : conf' = [conf EXCEPT !["mhwiroot"] = g]
      BY <1>2, <2>2 DEF Ask
    <3>3. conf' \in DbOptions
      <4>1. "mhwiroot" \in Options /\ g \in Strings
        BY DEF Options, Strings
      <4> QED
        BY <3>2, <4>1, DbOptionsAreOptions DEF TypeInv, ReadsInv
    <3> QED
      BY <3>1, <3>3 DEF TypeInv, ReadsInv, Labels
  <2> QED
    BY <2>1, <2>2
<1>3. CASE Mkdir
  <2>1. made' \in BOOLEAN /\ UNCHANGED <<file, db, spoilt>>
    BY <1>0, <1>3 DEF Mkdir
  <2>2. Ends \/ (pc' = "first_trunc" /\ UNCHANGED run)
    BY <1>3 DEF Mkdir
  <2> QED
    BY <1>0, <2>1, <2>2, EndsKeepsTypeInv, GotoKeepsTypeInv DEF run, Labels
<1>4. CASE Trunc
  <2>1. CASE Ends /\ UNCHANGED file
    BY <1>0, <1>4, <2>1, EndsKeepsTypeInv DEF Trunc
  <2>2. CASE ~(Ends /\ UNCHANGED file)
    <3>1. /\ pc' \in {"flush", "first_flush"} /\ saved' = conf
          /\ config' = [there |-> TRUE, lines |-> 0, vals |-> conf]
          /\ UNCHANGED <<env, run, db, made, spoilt>>
      BY <1>4, <2>2 DEF Trunc
    <3> QED
      BY <3>1 DEF run, TypeInv, ReadsInv, Labels
  <2> QED
    BY <2>1, <2>2
<1>5. CASE Flush
  <2>1. PICK n \in 0..3 : config' = [config EXCEPT !.lines = n]
    BY <1>5 DEF Flush
  <2>2. config' = [there |-> config.there, lines |-> n, vals |-> config.vals]
    BY <2>1 DEF TypeInv, ReadsInv
  <2>3. /\ \/ pc' = "off" /\ conf' = Unset /\ read' = 0
           \/ pc' = "mask" /\ UNCHANGED <<conf, read>>
        /\ db_path' \in {Default, db_path}
        /\ failbit' \in {FALSE, failbit} /\ need_create_table' \in {FALSE, need_create_table}
        /\ UNCHANGED <<env, saved, db, made, spoilt>>
    BY <1>5 DEF Flush, Ends
  <2>4. ReadsInv'
    BY <2>2, <2>3, DbOptionsAreOptions DEF TypeInv, ReadsInv, Labels
  <2>5. /\ config.there \in BOOLEAN /\ config'.there = config.there
        /\ db_path' \in DbDirs
    BY <2>2, <2>3 DEF TypeInv, DbDirs
  <2> QED
    BY <2>3, <2>4, <2>5 DEF TypeInv
<1>6. CASE ReadLine
  <2>1. pc = "read" /\ UNCHANGED <<file, db, made, spoilt, need_create_table, db_path>>
    BY <1>6 DEF ReadLine, disk
  <2>2. CASE failbit \/ read = config.lines
    <3>1. pc' \in {"read", "mask"} /\ UNCHANGED <<conf, read, failbit>>
      BY <1>6, <2>2 DEF ReadLine
    <3>2. read <= config.lines
      BY <2>1 DEF TypeInv, ReadsInv
    <3> QED
      BY <1>0, <2>1, <3>1, <3>2, GotoKeepsTypeInv DEF Labels
  <2>3. CASE ~failbit /\ read # config.lines
    <3> DEFINE o == Order[read + 1]
               v == IF config.vals[o] \in Long THEN Cut ELSE config.vals[o]
    <3>1. read \in 0..2 /\ read + 1 \in 1..3 /\ read + 1 <= config.lines
      BY <2>1, <2>3 DEF TypeInv, ReadsInv
    <3>2. o \in Options
      BY <3>1, OrderIsAll
    <3>3. conf' = [conf EXCEPT ![o] = v] /\ read' = read + 1 /\ pc' = pc
      BY <1>6, <2>3 DEF ReadLine
    <3>4. failbit' = (config.vals[o] \in Long)
      BY <1>6, <2>3 DEF ReadLine
    <3>5. failbit' \in BOOLEAN
      BY <3>4
    <3> HIDE DEF o
    <3>6. config.vals \in [Options -> Strings] /\ config.vals["mhwimmroot"] \in DbDirs
      BY DEF TypeInv, ReadsInv, DbOptions
    <3>7. v \in Strings
      BY <3>2, <3>6 DEF Strings
    <3>8. o = "mhwimmroot" => v \in DbDirs
      BY <3>6 DEF DbDirs
    <3> HIDE DEF v
    <3>9. conf' \in DbOptions
      BY <3>2, <3>3, <3>7, <3>8, DbOptionsAreOptions DEF TypeInv, ReadsInv
    <3> QED
      BY <2>1, <3>1, <3>3, <3>5, <3>9 DEF TypeInv, ReadsInv, file
  <2> QED
    BY <2>2, <2>3
<1>7. CASE Mask
  <2>1. conf["mhwimmroot"] \in DbDirs
    BY DEF TypeInv, ReadsInv, DbOptions
  <2> QED
    BY <1>0, <1>7, <2>1, GotoKeepsTypeInv DEF Mask, disk, Labels
<1>8. CASE Stat
  <2>1. /\ pc' = "open" /\ UNCHANGED <<file, conf, read, failbit, db, made, db_path>>
        /\ need_create_table' \in BOOLEAN
        /\ spoilt' \subseteq spoilt \cup {db_path}
    BY <1>8 DEF Stat
  <2>2. spoilt' \subseteq DbDirs
    BY <1>0, <2>1
  <2> QED
    BY <1>0, <2>1, <2>2, GotoKeepsTypeInv DEF Labels
<1>9. CASE OpenDB \/ CreateTable
  <2>1. /\ UNCHANGED <<file, made>>
        /\ (Ends /\ db' = db) \/ (UNCHANGED run /\ pc' \in {"create", "running"})
    BY <1>9 DEF OpenDB, CreateTable
  <2>2. db' \in [DbDirs -> {"absent", "empty", "table"}] /\ spoilt' \subseteq DbDirs
    BY <1>0, <1>9 DEF OpenDB, CreateTable
  <2> QED
    BY <1>0, <2>1, <2>2, EndsKeepsTypeInv, GotoKeepsTypeInv DEF run, Labels
<1>10. CASE Config
  <2>1. PICK o \in Options : \E v \in Values[o] : conf' = [conf EXCEPT ![o] = v]
    BY <1>10 DEF Config
  <2>2. PICK v \in Values[o] : conf' = [conf EXCEPT ![o] = v]
    BY <2>1
  <2>3. v \in Strings /\ (o = "mhwimmroot" => v \in DbDirs)
    BY DEF Strings, DbDirs
  <2>4. conf' \in DbOptions
    BY <2>2, <2>3, DbOptionsAreOptions DEF TypeInv, ReadsInv
  <2>5. pc = "running" /\ UNCHANGED <<pc, read, failbit, need_create_table, db_path, disk>>
    BY <1>10 DEF Config
  <2> QED
    BY <2>4, <2>5 DEF TypeInv, ReadsInv, disk, file
<1>11. CASE Kill \/ ReadFails \/ (Begin /\ Ends)
  <2>1. Ends /\ UNCHANGED <<file, db, made>> /\ spoilt' \subseteq spoilt \cup {db_path}
    BY <1>11 DEF Kill, ReadFails, Begin, disk
  <2>2. spoilt' \subseteq DbDirs
    BY <1>0, <2>1
  <2> QED
    BY <1>0, <2>1, <2>2, EndsKeepsTypeInv
<1>12. CASE UNCHANGED vars
  BY <1>12 DEF vars, run, disk, file, TypeInv, ReadsInv
<1> QED
  BY <1>1, <1>2, <1>3, <1>4, <1>5, <1>6, <1>7, <1>8, <1>9, <1>10, <1>11, <1>12
     DEF Next, Proceeds

\* Every variable keeps its type over every order of runs: what is read from the
\* config file is again an option's value, and the database's directory is one of
\* those the option has.
THEOREM TypeCorrect == Spec => []TypeOK
<1>1. Init => TypeInv
  <2> SUFFICES ASSUME Init PROVE TypeInv
    OBVIOUS
  <2>1. /\ pc = "off" /\ conf = Unset /\ read = 0 /\ saved = Unset
        /\ config = [there |-> FALSE, lines |-> 0, vals |-> Unset]
        /\ db = [d \in DbDirs |-> "absent"] /\ db_path = Default
        /\ env \in Environments /\ ~failbit /\ ~made /\ ~need_create_table /\ spoilt = {}
    BY DEF Init
  <2>2. ReadsInv
    BY <2>1, DbOptionsAreOptions DEF ReadsInv, Labels
  <2>3. made \in BOOLEAN /\ failbit \in BOOLEAN /\ need_create_table \in BOOLEAN
    BY DEF Init
  <2> QED
    BY <2>1, <2>2, <2>3, DbOptionsAreOptions DEF TypeInv, DbDirs
<1>2. TypeInv => TypeOK
  <2> SUFFICES ASSUME TypeInv PROVE TypeOK
    OBVIOUS
  <2>1. DbOptions \subseteq Conf
    BY DEF DbOptions, Conf, Strings
  <2>2. config \in [there : BOOLEAN, lines : 0..3, vals : Conf]
    BY <2>1 DEF TypeInv, ReadsInv
  <2> QED
    BY <2>1, <2>2 DEF TypeInv, ReadsInv, TypeOK
<1> QED
  BY <1>1, <1>2, TypeInvStep, PTL DEF Spec
===============================================================================
