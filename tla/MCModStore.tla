------------------------------ MODULE MCModStore ------------------------------
(* A game of two files and a tree of two levels, and five mods that share      *)
(* directories or files, or have what the game has.                            *)
EXTENDS ModStore

\* da has a directory in a directory, db shares a directory with it, dc shares
\* a file, dg has a file of the game, and dk has the game's other file as a
\* directory.  The second copy of the game has only that.
MCPaths == {"/d", "/d/e", "/d/e/q", "/d/p", "/d/r", "/g", "/k"}
MCParent ==
  [p \in MCPaths |-> CASE p \in {"/d", "/g", "/k"} -> "/"
                       [] p = "/d/e/q" -> "/d/e"
                       [] OTHER -> "/d"]
MCListing ==
  [da |-> [dirs |-> <<"/d", "/d/e">>, files |-> <<"/d/e/q", "/d/p">>],
   db |-> [dirs |-> <<"/d">>, files |-> <<"/d/r">>],
   dc |-> [dirs |-> <<"/d">>, files |-> <<"/d/p">>],
   dg |-> [dirs |-> <<>>, files |-> <<"/g">>],
   dk |-> [dirs |-> <<"/k">>, files |-> <<>>]]
MCDirs == DOMAIN MCListing
MCGame ==
  [r |-> [p \in MCPaths |-> IF p \in {"/g", "/k"} THEN "file" ELSE "none"],
   s |-> [p \in MCPaths |-> IF p = "/k" THEN "file" ELSE "none"]]

\* The commands with these mod directories: UNINSTALL and INSTALLED name none.
Commands(dirs) ==
  LET Com(o, n, d) == [op |-> o, name |-> n, dir |-> d]
      any == CHOOSE d \in Dirs : TRUE IN
  { Com("INSTALL", n, d) : n \in Names, d \in dirs }
    \cup { Com("UNINSTALL", n, any) : n \in Names }
    \cup { Com("INSTALLED", CHOOSE n \in Names : TRUE, any) }

\* One root, good mods and failures that the program takes care of, with and
\* without a kill; everything may fail, and everything but stat, each with one
\* root and with two.
Environment(dirs, faults, kill, roots, max_id) ==
  [requests |-> Commands(dirs), faults |-> faults, kill |-> kill,
   roots |-> roots, max_id |-> max_id]
GoodDirs == {"da", "db", "dc", "dg"}
MCEnvironments ==
  { Environment(GoodDirs, {"io", "add"}, {"INSTALL", "INSTALLED"}, {"r"}, 12),
    Environment(GoodDirs, {"io", "add"}, {}, {"r"}, 12),
    Environment({"da", "dc"}, FaultKinds, StoreOps, {"r"}, 2),
    Environment({"db", "dg"}, FaultKinds, StoreOps, {"r", "s"}, 1),
    Environment({"dg", "dk"}, FaultKinds \ {"stat"}, StoreOps, {"r"}, 1),
    Environment({"dg", "dk"}, FaultKinds \ {"stat"}, StoreOps, {"r", "s"}, 1) }

\* The mods of the calm environments are such as the theorems about these ask for.
Good ==
  INSTANCE ModStore WITH Dirs <- GoodDirs, Listing <- [d \in GoodDirs |-> Listing[d]]
ASSUME MCGoodMods == Good!GoodMods
===============================================================================
