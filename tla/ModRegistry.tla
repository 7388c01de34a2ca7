----------------------------- MODULE ModRegistry -----------------------------
(***************************************************************************)
(* What the user is promised about the records of installed mods: a mod is *)
(* recorded with all of its files at once, it is recorded at most once, no *)
(* file belongs to two mods, and a mod is forgotten as a whole.            *)
(*                                                                         *)
(* This is the abstract specification that the three threads together      *)
(* implement as long as neither the database nor the file system fails.    *)
(***************************************************************************)
CONSTANTS
  Names,        \* mod names
  Paths         \* paths below the game's root

VARIABLE records        \* pairs <<mod name, path>>

FilesOn(n) == {r[2] : r \in {s \in records : s[1] = n}}

Init == records = {}

\* install: a new mod whose files nobody has.
Add(n, files) ==
  /\ FilesOn(n) = {}
  /\ \A m \in Names : FilesOn(m) \cap files = {}
  /\ records' = records \cup ({n} \X files)

\* uninstall
Remove(n) == records' = {r \in records : r[1] # n}

Next ==
  \E n \in Names : Remove(n) \/ \E files \in SUBSET Paths : Add(n, files)

Spec == Init /\ [][Next]_records
===============================================================================
