--------------------------- MODULE MCMhwimmThreads ---------------------------
(* Three mod directories, two of which share a file with the third, and     *)
(* every kind of command line.                                              *)
EXTENDS MhwimmThreads

MCWords == {"", "a", "b", "da", "db", "dc"}
MCPaths == {"p", "q"}
MCDirs  == {"da", "db", "dc"}
MCFilesOf ==
  [d \in MCDirs |->
     CASE d = "da" -> {"p", "q"} [] d = "db" -> {"q"} [] d = "dc" -> {"p"}]

Line(c, a) == [cmd |-> c, args |-> a]

\* A missing parameter, a directory that is none, mods that go together, mods
\* that do not, and a name installed from a second directory.
MCInputs ==
  { Line("INSTALL", <<"a", "da">>), Line("INSTALL", <<"b", "db">>),
    Line("INSTALL", <<"a", "dc">>), Line("INSTALL", <<"b", "dc">>),
    Line("INSTALL", <<"a">>),       Line("UNINSTALL", <<"a">>),
    Line("INSTALL", <<"b", "a">>),  Line("INSTALLED", <<>>),
    Line("OTHER", <<>>),            Line("NOP", <<>>),
    Line("EXIT", <<>>) }

\* Without the second directory: where everything may fail.
RecordsInputs == MCInputs \ {Line("INSTALL", <<"b", "dc">>)}

\* Enough for the control flow: one mod, one file, every outcome of a command.
OnePath == {"p"}
OneDir  == {"da"}
OneFilesOf == [d \in OneDir |-> OnePath]
FewInputs ==
  { Line("INSTALL", <<"a", "da">>), Line("INSTALL", <<"a">>),
    Line("UNINSTALL", <<"a">>),     Line("INSTALLED", <<>>),
    Line("OTHER", <<>>),            Line("EXIT", <<>>) }

AllFaults  == FaultKinds
NotLate    == FaultKinds \ {"late"}
NoDbFaults == {"alloc", "stdin"}
===============================================================================
