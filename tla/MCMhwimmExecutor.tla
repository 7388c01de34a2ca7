--------------------------- MODULE MCMhwimmExecutor ---------------------------
(* The words the documentation has, and how they are spelt.                   *)
EXTENDS MhwimmExecutor

MCCodes ==
  [cd         |-> <<99, 100>>,
   pwd        |-> <<112, 119, 100>>,
   ls         |-> <<108, 115>>,
   install    |-> <<105, 110, 115, 116, 97, 108, 108>>,
   uninstall  |-> <<117, 110, 105, 110, 115, 116, 97, 108, 108>>,
   installed  |-> <<105, 110, 115, 116, 97, 108, 108, 101, 100>>,
   get_config |-> <<103, 101, 116, 95, 99, 111, 110, 102, 105, 103>>,
   config     |-> <<99, 111, 110, 102, 105, 103>>,
   exit       |-> <<101, 120, 105, 116>>,
   commands   |-> <<99, 111, 109, 109, 97, 110, 100, 115>>,
   help       |-> <<104, 101, 108, 112>>,
   none       |-> <<>>,
   USERHOME   |-> <<85, 83, 69, 82, 72, 79, 77, 69>>,
   MHWIROOT   |-> <<77, 72, 87, 73, 82, 79, 79, 84>>,
   MHWIMMROOT |-> <<77, 72, 87, 73, 77, 77, 82, 79, 79, 84>>,
   abs        |-> <<47, 103>>,
   rel        |-> <<103>>]
MCWords == DOMAIN MCCodes

\* README and the comment of mhwimm_executor_cmd, but for `command', a word that
\* the code does not know.
MCSupported ==
  [cd |-> "CD", pwd |-> "PWD", ls |-> "LS", install |-> "INSTALL",
   uninstall |-> "UNINSTALL", installed |-> "INSTALLED", get_config |-> "GET_CONFIG",
   config |-> "CONFIG", exit |-> "EXIT", commands |-> "COMMANDS", help |-> "COMMANDS"]

Word(w) == [text |-> w, equals |-> 0, val |-> "none"]
Pair(k, n, v) == [text |-> k, equals |-> n, val |-> v]
Typed(w, n, p) == [word |-> w, nparams |-> n, first |-> p]

MCParams ==
  { Word("USERHOME"), Word("rel"), Pair("MHWIROOT", 1, "rel"), Pair("MHWIROOT", 1, "abs"),
    Pair("MHWIMMROOT", 1, "none"), Pair("MHWIROOT", 2, "rel"), Pair("none", 1, "abs") }

\* Lines with no parameter, with ns of them, and the options' two commands.
TypedLines(words, ns) ==
  { Typed(w, n, Word("rel")) : w \in words, n \in ns \cup {0} }
    \cup { Typed(w, 1, p) : w \in words \cap {"config", "get_config"}, p \in MCParams }
MCLines == TypedLines(DOMAIN MCSupported \cup {"none"}, {1, 2})

MCFirstConf ==
  [Options -> {"abs"}] \cup {[userhome |-> "abs", mhwiroot |-> "rel", mhwimmroot |-> "abs"]}

\* What the theorem on SupportedWordsWork asks of the words.
ASSUME MCSumsAreKeys == SumsAreKeys
===============================================================================
