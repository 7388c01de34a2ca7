------------------------------- MODULE MCStartup -------------------------------
(* A home, a copy of the game to begin with and one to change to, one of too   *)
(* long a name, and two directories for the database that may or may not be    *)
(* there.  Everything may fail or be killed, but in one environment the writing *)
(* of the config file.                                                         *)
EXTENDS Startup

MCValues ==
  [userhome |-> {"/h", "/i"}, mhwiroot |-> {"/g", "/long"},
   mhwimmroot |-> {"/h/mhwimm", "/other", "/gone"}]

Environment(safe) ==
  [faults |-> FaultKinds \ safe, kill |-> Labels \ ({"off"} \cup safe)]
MCEnvironments == { Environment(safe) : safe \in {{}, {"nospace", "first_flush", "flush"}} }
===============================================================================
