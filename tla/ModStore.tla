------------------------------- MODULE ModStore -------------------------------
(***************************************************************************)
(* INSTALL, UNINSTALL and INSTALLED as what they do to the table and to    *)
(* the game's directory tree, one database call or system call after the   *)
(* other, each of which may fail, and after each of which the process may  *)
(* be killed.  Table and tree outlive it.                                  *)
(*                                                                         *)
(* The Executor waits while the Database runs a round and the Database     *)
(* waits for a request (MhwimmThreads, StrictHandover), so one program     *)
(* counter is enough here.  Loops that only read are one step.             *)
(***************************************************************************)
EXTENDS ModDb, Sequences, SequencesExt

CONSTANTS
  Roots,        \* values MHWIROOT takes: copies of the game
  Top,          \* such a root itself, as the parent of a path
  Parent,       \* [Paths -> Paths \cup {Top}]
  Dirs,         \* mod directories the user may name
  Listing,      \* what lf_traverse_dir finds in them, in its order
  Game,         \* each copy of the game without mods
  Environments  \* what may happen to the program, see env

Kinds      == {"none", "dir", "file"}
FaultKinds == {"ask", "add", "del", "stat", "io", "unlink"}
StoreOps   == {"INSTALL", "UNINSTALL", "INSTALLED"}

ASSUME StoreAssumption ==
  /\ Top \notin Paths
  /\ Parent \in [Paths -> Paths \cup {Top}]
  /\ Game \in [Roots -> [Paths -> Kinds]]
  /\ Listing \in [Dirs -> [dirs : Seq(Paths), files : Seq(Paths)]]
  /\ Environments \subseteq
       [requests : SUBSET [op : StoreOps, name : Names, dir : Dirs],
        faults : SUBSET FaultKinds, kill : SUBSET StoreOps,
        roots : SUBSET Roots, max_id : Nat]

VARIABLES
  env,                  \* never changes: the commands that may be typed, the calls
                        \* that may fail, the commands in which the process may be
                        \* killed, the values of MHWIROOT, and a bound: no INSTALL
                        \* is begun when a rowid exceeds max_id
  fs,                   \* what is at each path below each root
  mhwiroot,             \* the configured root
  pc,
  cmd,                  \* the command being carried out
  interest_field,
  regular_file_list,
  directory_list,       \* mod_name_list is a reference to it
  todo,                 \* what the running loop has left
  undoing,              \* uninstall runs as the undo of a failed INSTALL
  failed,               \* uninstall's rf_err and d_err
  reply,                \* what the user is told
  start                 \* history: tree and table when the command began

lists == <<regular_file_list, directory_list>>
request == <<env, mhwiroot, cmd, interest_field, start>>
vars == <<dbVars, fs, request, pc, lists, todo, undoing, failed, reply>>

Labels == {"idle", "ask", "stat", "asked", "execute", "check", "mkdir", "link",
           "rb_unlink", "rb_rmdir", "add", "add_undo", "add_failed", "after",
           "unlink", "rmdir", "del", "reply", "exit"}

Fault(k) == IF k \in env.faults THEN BOOLEAN ELSE {FALSE}

NoCmd == [op |-> "none", name |-> Bug, dir |-> Bug]

NoStart == [tree |-> <<>>, table |-> {}]

Init ==
  /\ DbInit
  /\ env \in Environments
  /\ fs = Game
  /\ mhwiroot \in env.roots
  /\ pc = "idle"
  /\ cmd = NoCmd
  /\ interest_field = "NONE"
  /\ regular_file_list = <<>>
  /\ directory_list = <<>>
  /\ todo = <<>>
  /\ undoing = FALSE
  /\ failed = FALSE
  /\ reply = "none"
  /\ start = NoStart

\* The workers wait for a command: lists and status are cleared.
ToIdle ==
  /\ pc' = "idle"
  /\ cmd' = NoCmd
  /\ interest_field' = "NONE"
  /\ regular_file_list' = <<>>
  /\ directory_list' = <<>>
  /\ todo' = <<>>
  /\ undoing' = FALSE
  /\ failed' = FALSE
  /\ reply' = "none"
  /\ start' = NoStart
  /\ UNCHANGED <<env, fs, mhwiroot>>

(* The directory tree, as the calls see it.                                *)

tree == fs[mhwiroot]
Directories == {Top} \cup {p \in Paths : tree[p] = "dir"}
CanCreate(p) == tree[p] = "none" /\ Parent[p] \in Directories
CanUnlink(p) == tree[p] = "file"
NotEmpty(p) == tree[p] = "dir" /\ \E q \in Paths : Parent[q] = p /\ tree[q] # "none"
CanRmdir(p) == tree[p] = "dir" /\ ~NotEmpty(p)

Put(p, kind) == fs' = [fs EXCEPT ![mhwiroot][p] = kind]

(* Steps that several commands share.                                      *)

Goto(l) == pc' = l /\ UNCHANGED <<todo, reply>>
Loop(l, s) == pc' = l /\ todo' = s /\ UNCHANGED reply
Advance == Loop(pc, Tail(todo))
Answer(r) == pc' = "reply" /\ todo' = <<>> /\ reply' = r

NameOnly(n) == [name |-> n, path |-> Bug, set |-> {"name"}]
NothingListed == regular_file_list = <<>> /\ directory_list = <<>>

\* Variation: every name is kept.
NotUnique(s) == s

\* std::list::unique: of each run of neighbours that are equal the first is kept.
Unique(s) ==
  LET first == {i \in DOMAIN s : i = 1 \/ s[i] # s[i - 1]}
  IN [k \in 1..Cardinality(first) |->
        s[CHOOSE i \in first : Cardinality({j \in first : j <= i}) = k]]

(* The round before the command: do_DB_ask.                                *)

Request ==
  /\ pc = "idle"
  /\ \E c \in env.requests :
       /\ c.op = "INSTALL" => NextId <= env.max_id + 1
       /\ cmd' = c
       /\ registerDBOperation("ASK",
            IF c.op = "INSTALLED" THEN ZeroRecord ELSE NameOnly(c.name))
       /\ interest_field' = IF c.op = "INSTALLED" THEN "NAME" ELSE "PATH"
  /\ start' = [tree |-> tree, table |-> table]
  /\ Goto("ask")
  /\ UNCHANGED <<env, fs, mhwiroot, lists, undoing, failed>>

FetchName ==
  /\ pc = "ask"
  /\ interest_field = "NAME"
  /\ \E fails \in Fault("ask") : executeDBOperation(fails)
  /\ \/ /\ current_status' = "WORKING"
        /\ directory_list' = <<record_buf'.name>> \o directory_list
        /\ Goto("ask")
     \/ /\ current_status' = "IDLE"
        /\ directory_list' = Unique(directory_list)
        /\ Goto("asked")
     \/ /\ current_status' = "ERROR"
        /\ Goto("asked")
        /\ UNCHANGED directory_list
  /\ UNCHANGED <<fs, request, regular_file_list, undoing, failed>>

FetchPath ==
  /\ pc = "ask"
  /\ interest_field = "PATH"
  /\ \E fails \in Fault("ask") : executeDBOperation(fails)
  /\ Goto(IF current_status' = "WORKING" THEN "stat" ELSE "asked")
  /\ UNCHANGED <<fs, request, lists, undoing, failed>>

\* Variation: directories are listed in the order of their records.
ListDirectoryLast(p) ==
  /\ directory_list' = Append(directory_list, p)
  /\ UNCHANGED regular_file_list

\* Variation: the wrong column is listed.
ListFileName(p) ==
  /\ regular_file_list' = <<record_buf.name>> \o regular_file_list
  /\ UNCHANGED directory_list

\* Entries go to the front: the last one recorded is the first one listed.
ListFile(p) ==
  /\ regular_file_list' = <<p>> \o regular_file_list
  /\ UNCHANGED directory_list
ListDirectory(p) ==
  /\ directory_list' = <<p>> \o directory_list
  /\ UNCHANGED regular_file_list

StatRow ==
  LET p == record_buf.path IN
  /\ pc = "stat"
  /\ \E fails \in Fault("stat") :
       \/ /\ fails \/ tree[p] = "none"
          /\ chgDBStatus("ERROR")
          /\ Goto("asked")
          /\ UNCHANGED lists
       \/ /\ ~fails
          /\ \/ tree[p] = "dir" /\ ListDirectory(p)
             \/ tree[p] = "file" /\ ListFile(p)
          /\ Goto("ask")
          /\ UNCHANGED dbVars
  /\ UNCHANGED <<fs, request, undoing, failed>>

\* uninstall's first lines.  If it fails as the undo, the program ends.
BeginUninstall(undo) ==
  /\ undoing' = undo
  /\ \/ /\ NothingListed
        /\ IF undo THEN Goto("exit") ELSE Answer("error")
     \/ /\ ~NothingListed
        /\ Loop("unlink", regular_file_list)

\* Variation: the result of the round is not looked at.
RoundFailsUnseen ==
  /\ current_status = "ERROR"
  /\ Goto(IF pc = "asked" THEN "execute" ELSE "reply")
  /\ UNCHANGED undoing

\* The rounds' results, and the Database's resetDB.  At the label
\* failed_db_interact_checking an INSTALL is undone whatever round has failed.
RoundFails ==
  /\ current_status = "ERROR"
  /\ \/ cmd.op = "INSTALL" /\ BeginUninstall(TRUE)
     \/ cmd.op # "INSTALL" /\ Answer("error") /\ UNCHANGED undoing

\* Variation: an INSTALL goes on whatever is on record.
AskedAnyway ==
  /\ pc = "asked"
  /\ resetDB
  /\ \/ RoundFails
     \/ current_status # "ERROR" /\ Goto("execute") /\ UNCHANGED undoing
  /\ UNCHANGED <<fs, request, lists, failed>>

Asked ==
  /\ pc = "asked"
  /\ resetDB
  /\ \/ RoundFails
     \/ /\ current_status # "ERROR"
        /\ cmd.op = "INSTALL" /\ ~NothingListed
        /\ Answer("error")
        /\ UNCHANGED undoing
     \/ /\ current_status # "ERROR"
        /\ cmd.op = "INSTALL" => NothingListed
        /\ Goto("execute")
        /\ UNCHANGED undoing
  /\ UNCHANGED <<fs, request, lists, failed>>

(* install                                                                 *)

\* ModTree has it entry by entry.  What a failed one has listed is not used: the
\* lists are cleared before the next command.
Traverse ==
  /\ pc = "execute"
  /\ cmd.op = "INSTALL"
  /\ \/ /\ "io" \in env.faults
        /\ Answer("error")
        /\ UNCHANGED lists
     \/ /\ regular_file_list' = Listing[cmd.dir].files
        /\ directory_list' = Listing[cmd.dir].dirs
        /\ Goto("check")
  /\ UNCHANGED <<dbVars, fs, request, undoing, failed>>

\* Variation: any regular file in the way is overlooked.
ConflictIgnored == FALSE

Conflict == \E i \in DOMAIN regular_file_list : tree[regular_file_list[i]] # "none"

\* stat is asked of the root, where a failure is an error, and of every file, where
\* any failure says that the path is free.
Check ==
  /\ pc = "check"
  /\ \/ /\ Conflict \/ "stat" \in env.faults
        /\ Answer("error")
     \/ /\ Conflict => "stat" \in env.faults
        /\ Loop("mkdir", directory_list)
  /\ UNCHANGED <<dbVars, fs, request, lists, undoing, failed>>

\* Variation: in the order they were made.
RollbackForwards ==
  /\ directory_list' = directory_list
  /\ Loop("rb_rmdir", directory_list)

\* The rollback removes the directories that were found last first.
RollbackDirectories ==
  /\ directory_list' = Reverse(directory_list)
  /\ Loop("rb_rmdir", directory_list')

\* EEXIST, from a file too, is as good as a new directory.
Mkdir ==
  /\ pc = "mkdir"
  /\ todo # <<>>
  /\ LET p == Head(todo) IN
       \/ tree[p] # "none" /\ Advance /\ UNCHANGED <<fs, directory_list>>
       \/ CanCreate(p) /\ Put(p, "dir") /\ Advance /\ UNCHANGED directory_list
       \/ /\ tree[p] # "none" \/ CanCreate(p) => "io" \in env.faults
          /\ RollbackDirectories
          /\ UNCHANGED fs
  /\ UNCHANGED <<dbVars, request, regular_file_list, undoing, failed>>

MkdirsDone ==
  /\ pc = "mkdir"
  /\ todo = <<>>
  /\ Loop("link", regular_file_list)
  /\ UNCHANGED <<dbVars, fs, request, lists, undoing, failed>>

Link ==
  /\ pc = "link"
  /\ todo # <<>>
  /\ LET p == Head(todo) IN
       \/ CanCreate(p) /\ Put(p, "file") /\ Advance
       \/ /\ CanCreate(p) => "io" \in env.faults
          /\ Loop("rb_unlink", regular_file_list)
          /\ UNCHANGED fs
  /\ UNCHANGED <<dbVars, request, lists, undoing, failed>>

\* Whatever fails here is ignored.
RbUnlink ==
  /\ pc = "rb_unlink"
  /\ todo # <<>>
  /\ LET p == Head(todo) IN
       \/ CanUnlink(p) /\ Put(p, "none")
       \/ (CanUnlink(p) => "unlink" \in env.faults) /\ UNCHANGED fs
  /\ Advance
  /\ UNCHANGED <<dbVars, request, lists, undoing, failed>>

RbUnlinksDone ==
  /\ pc = "rb_unlink"
  /\ todo = <<>>
  /\ RollbackDirectories
  /\ UNCHANGED <<dbVars, fs, request, regular_file_list, undoing, failed>>

RbRmdir ==
  /\ pc = "rb_rmdir"
  /\ todo # <<>>
  /\ LET p == Head(todo) IN
       \/ CanRmdir(p) /\ Put(p, "none")
       \/ (CanRmdir(p) => "unlink" \in env.faults) /\ UNCHANGED fs
  /\ Advance
  /\ UNCHANGED <<dbVars, request, lists, undoing, failed>>

RolledBack ==
  /\ pc = "rb_rmdir"
  /\ todo = <<>>
  /\ Answer("error")
  /\ UNCHANGED <<dbVars, fs, request, lists, undoing, failed>>

(* The round after an INSTALL: do_DB_add.                                  *)

\* Directories are recorded before files.
EntriesToAdd == directory_list \o regular_file_list

LinksDone ==
  /\ pc = "link"
  /\ todo = <<>>
  /\ registerDBOperation("ADD", NameOnly(cmd.name))
  /\ Loop("add", EntriesToAdd)
  /\ UNCHANGED <<fs, request, lists, undoing, failed>>

Add ==
  /\ pc = "add"
  /\ todo # <<>>
  /\ \E fails \in Fault("add") :
       RegisterAndExecute("ADD",
         [name |-> record_buf.name, path |-> Head(todo), set |-> Fields], fails)
  /\ IF current_status' = "ERROR" THEN Goto("add_undo") ELSE Advance
  /\ UNCHANGED <<fs, request, lists, undoing, failed>>

AddsDone ==
  /\ pc = "add"
  /\ todo = <<>>
  /\ Goto("after")
  /\ UNCHANGED <<dbVars, fs, request, lists, undoing, failed>>

\* Label err_exit_with_undo.
AddUndo ==
  /\ pc = "add_undo"
  /\ \E fails \in Fault("del") :
       RegisterAndExecute("DEL", [record_buf EXCEPT !.set = {"name"}], fails)
  /\ Goto("add_failed")
  /\ UNCHANGED <<fs, request, lists, undoing, failed>>

AddFailed ==
  /\ pc = "add_failed"
  /\ chgDBStatus("ERROR")
  /\ Goto("after")
  /\ UNCHANGED <<fs, request, lists, undoing, failed>>

After ==
  /\ pc = "after"
  /\ resetDB
  /\ \/ RoundFails
     \/ current_status # "ERROR" /\ Answer("done") /\ UNCHANGED undoing
  /\ UNCHANGED <<fs, request, lists, failed>>

(* uninstall, also as the undo; do_DB_del; installed                        *)

BeginsUninstall ==
  /\ pc = "execute"
  /\ cmd.op = "UNINSTALL"
  /\ BeginUninstall(FALSE)
  /\ UNCHANGED <<dbVars, fs, request, lists, failed>>

Unlink ==
  /\ pc = "unlink"
  /\ todo # <<>>
  /\ LET p == Head(todo) IN
       \/ CanUnlink(p) /\ Put(p, "none") /\ UNCHANGED failed
       \/ (CanUnlink(p) => "unlink" \in env.faults) /\ failed' = TRUE /\ UNCHANGED fs
  /\ Advance
  /\ UNCHANGED <<dbVars, request, lists, undoing>>

UnlinksDone ==
  /\ pc = "unlink"
  /\ todo = <<>>
  /\ Loop("rmdir", directory_list)
  /\ UNCHANGED <<dbVars, fs, request, lists, undoing, failed>>

\* Variation: a directory that is not empty is tried again.
RmdirAgain ==
  /\ pc = "rmdir"
  /\ todo # <<>>
  /\ LET p == Head(todo) IN
       \/ CanRmdir(p) /\ Put(p, "none") /\ Advance
       \/ ~CanRmdir(p) /\ Loop(pc, todo) /\ UNCHANGED fs
  /\ UNCHANGED <<dbVars, request, lists, undoing, failed>>

\* ENOTEMPTY is no error.
Rmdir ==
  /\ pc = "rmdir"
  /\ todo # <<>>
  /\ LET p == Head(todo) IN
       \/ CanRmdir(p) /\ Put(p, "none") /\ UNCHANGED failed
       \/ NotEmpty(p) /\ UNCHANGED <<fs, failed>>
       \/ /\ CanRmdir(p) \/ NotEmpty(p) => "unlink" \in env.faults
          /\ failed' = TRUE
          /\ UNCHANGED fs
  /\ Advance
  /\ UNCHANGED <<dbVars, request, lists, undoing>>

UninstallFails ==
  /\ pc = "rmdir"
  /\ todo = <<>>
  /\ failed
  /\ IF undoing THEN Goto("exit") ELSE Answer("error")
  /\ UNCHANGED <<dbVars, fs, request, lists, undoing, failed>>

Undone ==
  /\ pc = "rmdir"
  /\ todo = <<>>
  /\ ~failed
  /\ undoing
  /\ Answer("error")
  /\ UNCHANGED <<dbVars, fs, request, lists, undoing, failed>>

FilesRemoved ==
  /\ pc = "rmdir"
  /\ todo = <<>>
  /\ ~failed
  /\ ~undoing
  /\ registerDBOperation("DEL", NameOnly(cmd.name))
  /\ Goto("del")
  /\ UNCHANGED <<fs, request, lists, undoing, failed>>

Del ==
  /\ pc = "del"
  /\ \E fails \in Fault("del") : executeDBOperation(fails)
  /\ Goto("after")
  /\ UNCHANGED <<fs, request, lists, undoing, failed>>

Installed ==
  /\ pc = "execute"
  /\ cmd.op = "INSTALLED"
  /\ Answer(IF directory_list = <<>> THEN "error" ELSE "list")
  /\ UNCHANGED <<dbVars, fs, request, lists, undoing, failed>>

(* The end of a command, of the program, and the root.                     *)

Answered ==
  /\ pc = "reply"
  /\ ToIdle
  /\ UNCHANGED dbVars

Quit ==
  /\ pc \in {"idle", "exit"}
  /\ ToIdle
  /\ Reopen

Kill ==
  /\ cmd.op \in env.kill
  /\ ToIdle
  /\ Reopen

\* config MHWIROOT=...; a cd does the same to a root given as a relative path.
Config ==
  /\ pc = "idle"
  /\ mhwiroot' \in env.roots
  /\ UNCHANGED <<env, dbVars, fs, cmd, interest_field, start, pc, lists, todo, undoing,
                 failed, reply>>

Command ==
  \/ FetchName \/ FetchPath \/ StatRow \/ Asked
  \/ Traverse \/ Check \/ Mkdir \/ MkdirsDone \/ Link \/ LinksDone
  \/ RbUnlink \/ RbUnlinksDone \/ RbRmdir \/ RolledBack
  \/ Add \/ AddsDone \/ AddUndo \/ AddFailed \/ After
  \/ BeginsUninstall \/ Unlink \/ UnlinksDone \/ Rmdir
  \/ UninstallFails \/ Undone \/ FilesRemoved \/ Del \/ Installed
  \/ Answered

Next == Request \/ Command \/ Quit \/ Kill \/ Config

Spec == Init /\ [][Next]_vars
FairSpec == Spec /\ WF_vars(Command)

-------------------------------------------------------------------------------
(* Mods and games, as theorems about calm environments assume them.            *)

ModDirs == UNION {ToSet(Listing[d].dirs) : d \in Dirs}
ModFiles == UNION {ToSet(Listing[d].files) : d \in Dirs}

\* What a mod has as a directory the game does not have as a file.
KindsAgree == \A r \in Roots, p \in ModDirs : Game[r][p] # "file"

\* An entry is listed once, and a directory after the one it is in.  ModTree shows
\* this of lf_traverse_dir.
Tidy ==
  \A d \in Dirs :
    LET dirs == Listing[d].dirs IN
    /\ IsInjective(dirs) /\ IsInjective(Listing[d].files)
    /\ \A i \in DOMAIN dirs :
         Parent[dirs[i]] = Top \/ \E j \in 1..(i - 1) : Parent[dirs[i]] = dirs[j]

\* No directory of a mod is empty.  Two mods that share an empty directory get in
\* each other's way: the first UNINSTALL removes it, and the records of the second
\* point to nothing.
NoEmptyDirs ==
  \A d \in Dirs : \A p \in ToSet(Listing[d].dirs) :
    \E q \in ToSet(Listing[d].dirs) \cup ToSet(Listing[d].files) : Parent[q] = p

\* What one mod has as a directory no mod has as a file.
ModsAgree == ModDirs \cap ModFiles = {}

\* The game is a tree of directories.
GameIsTree ==
  \A r \in Roots, p \in Paths :
    Game[r][p] # "none" => Parent[p] = Top \/ Game[r][Parent[p]] = "dir"

\* What these theorems ask of the mods and of the game.
GoodMods == Tidy /\ NoEmptyDirs /\ ModsAgree /\ KindsAgree /\ GameIsTree

-------------------------------------------------------------------------------
PathsOf(n, t) == {row.path : row \in {r \in t : r.name = n}}

\* What most of the properties ask of the environment: one root, no kill in an
\* UNINSTALL, and no failure of the calls that read or undo.
Calm ==
  /\ env.faults \subseteq {"io", "add"}
  /\ env.kill \subseteq {"INSTALL", "INSTALLED"}
  /\ env.roots = {mhwiroot}
Undying == Calm /\ env.kill = {}

\* The values of the variables: the fields of mhwimm_db, mod_files_list and
\* config_t, and the calls of install, uninstall and the worker of the Database.
TypeOK ==
  /\ DbTypeOK
  /\ env \in Environments
  /\ fs \in [Roots -> [Paths -> Kinds]]
  /\ mhwiroot \in env.roots
  /\ pc \in Labels
  /\ cmd \in env.requests \cup {NoCmd}
  /\ interest_field \in {"NONE", "NAME", "PATH"}
  /\ regular_file_list \in Seq(Paths)
  /\ directory_list \in Seq(Paths \cup Names)
  /\ todo \in Seq(Paths \cup Names)
  /\ undoing \in BOOLEAN
  /\ failed \in BOOLEAN
  /\ reply \in {"none", "error", "done", "list"}

\* An INSERT or a DELETE never finds a SELECT to go on with, so it is carried out
\* and not taken for the rest of an ASK: executeDBOperation goes to more_row
\* whatever the operation is, and only the way the Executor leaves a command
\* whose ASK has failed keeps writes apart from it.
WritesNeverResume == pc \in {"add", "add_undo", "del"} => ~more_rows

\* The paths at which the program may remove what it has not put there: the
\* directories of mods, since mkdir's EEXIST is taken for a directory; and their
\* files, if the conflict check can fail or there is a root without the file.
Exposed ==
  ModDirs \cup {p \in ModFiles : \/ "stat" \in env.faults
                                 \/ \E s \in env.roots : Game[s][p] # "file"}

\* No sequence of commands, failures and kills removes a file of the game that is
\* not exposed: what the conflict check of install, and the records that uninstall
\* goes by, do and do not keep.
GameKept ==
  \A r \in Roots, p \in Paths :
    Game[r][p] = "file" /\ fs[r][p] # "file" => p \in Exposed

\* An INSTALL that is answered with an error leaves the files as they were and no
\* directory that was not there: the rollback of install, in the reverse order.
\* The undo of an INSTALL that could not be recorded may leave directories.
FailedInstallUndone ==
  Calm /\ pc = "reply" /\ cmd.op = "INSTALL" /\ reply = "error" =>
    \A p \in Paths : /\ tree[p] = "file" <=> start.tree[p] = "file"
                     /\ tree[p] = "dir" => undoing \/ start.tree[p] = "dir"

\* An UNINSTALL that succeeds has removed every file and every directory the mod
\* had on record, but for directories that hold something else, and its records:
\* uninstall goes through the lists in the order do_DB_ask makes them.
UninstallIsComplete ==
  pc = "reply" /\ cmd.op = "UNINSTALL" /\ reply = "done" =>
    /\ PathsOf(cmd.name, table) = {}
    /\ Calm => \A p \in PathsOf(cmd.name, start.table) : tree[p] = "none" \/ NotEmpty(p)

\* Between commands what is on record is in the game, and no file is on record
\* twice: links come before INSERTs, and the conflict check before links.
RecordedIsPresent ==
  Calm /\ pc = "idle" =>
    /\ \A row \in table : tree[row.path] # "none"
    /\ \A row, other \in table :
         row # other /\ row.path = other.path => tree[row.path] = "dir"

\* Between commands every file that is not the game's is on record, unless the
\* process is killed: unlinks come before the DELETE, and an INSTALL that could
\* not be recorded is undone.
PresentIsRecorded ==
  Undying /\ pc \in {"idle", "exit"} =>
    \A p \in Paths :
      tree[p] = "file" => \/ Game[mhwiroot][p] = "file"
                          \/ \E row \in table : row.path = p

\* A command removes no file of another mod: a file that goes was put there by
\* this very command, or is on record for its mod and for no other.
OnlyOwnFilesRemoved ==
  [][Calm => \A p \in Paths :
       tree[p] = "file" /\ fs'[mhwiroot][p] # "file" =>
         \/ start.tree[p] = "none"
         \/ \A n \in Names : p \in PathsOf(n, start.table) <=> n = cmd.name]_vars

\* INSTALLED prints every mod on record, and each once: unique() removes only
\* neighbours, and relies on the rows of a mod being next to each other.
InstalledIsExact ==
  pc = "reply" /\ reply = "list" =>
    /\ ToSet(directory_list) = {row.name : row \in table}
    /\ Calm => IsInjective(directory_list)

\* Row by row the table implements the registry of mods, as to files, unless the
\* process is killed: the rows of a mod that is being added count when all of
\* them are there.
Pending == pc \in {"add", "add_undo", "add_failed", "after"} /\ cmd.op = "INSTALL"
FileRows ==
  {r \in table : /\ Undying
                 /\ \E d \in Dirs : r.path \in ToSet(Listing[d].files)
                 /\ ~(Pending /\ r.name = cmd.name)}
Registry == INSTANCE ModRegistry WITH records <- {<<r.name, r.path>> : r \in FileRows}
ImplementsRegistry == Registry!Spec

\* Every command ends, with an answer or with the program: each loop of install,
\* uninstall, their rollback and the Database's rounds comes to its end.
CommandEnds == [](pc = "ask" => <>(pc \in {"reply", "exit", "idle"}))
===============================================================================
