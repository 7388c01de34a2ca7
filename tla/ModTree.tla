------------------------------- MODULE ModTree -------------------------------
(***************************************************************************)
(* lf_traverse_dir, the recursive function with which install lists what   *)
(* a mod directory holds: a stack of open directories, one call of the     *)
(* system a step.                                                          *)
(*                                                                         *)
(* A path is the sequence of the entries it goes through.  stat follows    *)
(* symbolic links, and gives up after MaxLinks of them.                    *)
(***************************************************************************)
EXTENDS Naturals, Sequences, SequencesExt, FiniteSets

CONSTANTS
  Entries,      \* directory entries, numbered 1, 2, ... below their parents
  MaxLinks,     \* how many links a path may have (the system's is 40)
  Faults        \* which calls may fail although the tree gives no reason

Top == 0        \* the mod directory itself
Nowhere == Cardinality(Entries) + 1     \* the target of a dangling link

Kinds == {"dir", "file", "symlink", "socket", "fifo"}
FaultKinds == {"opendir", "readdir", "stat"}

ASSUME TreeAssumption ==
  /\ IsFiniteSet(Entries)
  /\ Entries = 1..Cardinality(Entries)
  /\ MaxLinks \in Nat
  /\ Faults \subseteq FaultKinds

VARIABLES
  parent, kind, target,         \* the tree; it does not change
  stack,                        \* a frame [path, rest] for each running call
  pc,
  subpath,                      \* the directory to be opened, or just tried
  ret,                          \* what the call that has just ended returned
  directory_list, regular_file_list,
  open_dirs,                    \* how many directory streams are open
  missed                        \* history: paths that a failing readdir has not led to

theTree == <<parent, kind, target>>
lists == <<directory_list, regular_file_list>>
vars == <<theTree, stack, pc, subpath, ret, lists, open_dirs, missed>>

DirNodes == {Top} \cup {e \in Entries : kind[e] = "dir"}

\* A tree the file system can hold; a link leads to no other link.
IsTree ==
  /\ parent \in [Entries -> {Top} \cup Entries]
  /\ kind \in [Entries -> Kinds]
  /\ target \in [Entries -> {Top, Nowhere} \cup Entries]
  /\ \A e \in Entries :
       /\ parent[e] < e
       /\ parent[e] \in DirNodes
       /\ IF kind[e] = "symlink"
          THEN target[e] \in Entries => kind[target[e]] # "symlink"
          ELSE target[e] = Nowhere

Init ==
  /\ IsTree
  /\ stack = <<>>
  /\ pc = "opendir"
  /\ subpath = <<>>
  /\ ret = 0
  /\ directory_list = <<>>
  /\ regular_file_list = <<>>
  /\ open_dirs = 0
  /\ missed = {}

\* Where a path leads when its links are followed.
Follow(e) == IF kind[e] = "symlink" THEN target[e] ELSE e
Node(p) == IF p = <<>> THEN Top ELSE Follow(Last(p))
Children(n) == {e \in Entries : parent[e] = n}
Links(p) == Cardinality({i \in DOMAIN p : kind[p[i]] = "symlink"})
StatFails(p) == Node(p) = Nowhere \/ Links(p) > MaxLinks
KindAt(p) == IF Node(p) = Top THEN "dir" ELSE kind[Node(p)]

Frame == Last(stack)
Fault(k) == IF k \in Faults THEN BOOLEAN ELSE {FALSE}

-------------------------------------------------------------------------------
\* Variation: what cannot be opened is tried again and again.
OpenDirRetried ==
  /\ pc = "opendir"
  /\ KindAt(subpath) = "dir"
  /\ stack' = Append(stack, [path |-> subpath, rest |-> Children(Node(subpath))])
  /\ open_dirs' = open_dirs + 1
  /\ pc' = "readdir"
  /\ UNCHANGED <<theTree, subpath, ret, lists, missed>>

\* lf_traverse_dir begins.
OpenDir ==
  /\ pc = "opendir"
  /\ \E fails \in Fault("opendir") :
       \/ /\ ~fails /\ KindAt(subpath) = "dir"
          /\ stack' = Append(stack, [path |-> subpath, rest |-> Children(Node(subpath))])
          /\ open_dirs' = open_dirs + 1
          /\ pc' = "readdir"
          /\ UNCHANGED ret
       \/ /\ fails \/ KindAt(subpath) # "dir"
          /\ ret' = 1
          /\ pc' = "return"
          /\ UNCHANGED <<stack, open_dirs>>
  /\ UNCHANGED <<theTree, subpath, lists, missed>>

\* closedir and the return.
CloseAndReturn(r) ==
  /\ stack' = Front(stack)
  /\ open_dirs' = open_dirs - 1
  /\ ret' = r
  /\ pc' = "return"

\* Variation: a directory is listed when its own entries are.
DirectoryAfterwards(p) ==
  /\ pc' = "opendir"
  /\ subpath' = p
  /\ directory_list' = <<p>> \o directory_list
  /\ UNCHANGED <<regular_file_list, ret, open_dirs>>

\* S_IFDIR is tested as a bit, which a socket's mode has too.
Directory(p) ==
  /\ pc' = "opendir"
  /\ subpath' = p
  /\ directory_list' = Append(directory_list, p)
  /\ UNCHANGED <<regular_file_list, ret, open_dirs>>

RegularFile(p) ==
  /\ regular_file_list' = Append(regular_file_list, p)
  /\ UNCHANGED <<pc, subpath, directory_list, ret, open_dirs>>

\* readdir returns an entry, in no order, and stat tells what it is.
ReadDir ==
  /\ pc = "readdir"
  /\ \E e \in Frame.rest, fails \in Fault("stat") :
       LET p == Append(Frame.path, e) IN
       \/ /\ fails \/ StatFails(p)
          /\ CloseAndReturn(1)
          /\ UNCHANGED <<subpath, lists>>
       \/ /\ ~fails /\ ~StatFails(p)
          /\ stack' = [stack EXCEPT ![Len(stack)].rest = @ \ {e}]
          /\ \/ KindAt(p) \in {"dir", "socket"} /\ Directory(p)
             \/ KindAt(p) = "file" /\ RegularFile(p)
             \/ KindAt(p) = "fifo" /\ UNCHANGED <<pc, subpath, ret, lists, open_dirs>>
  /\ UNCHANGED <<theTree, missed>>

\* Variation: closedir is forgotten.
EndOfDirUnclosed ==
  /\ pc = "readdir"
  /\ Frame.rest = {}
  /\ stack' = Front(stack)
  /\ ret' = 0
  /\ pc' = "return"
  /\ UNCHANGED <<theTree, subpath, lists, open_dirs, missed>>

\* A readdir that fails is taken for the end: both return NULL.
EndOfDir ==
  /\ pc = "readdir"
  /\ Frame.rest = {} \/ "readdir" \in Faults
  /\ missed' = missed \cup {Append(Frame.path, e) : e \in Frame.rest}
  /\ CloseAndReturn(0)
  /\ UNCHANGED <<theTree, subpath, lists>>

\* Variation: the callee's result is not looked at.
ReturnAnyway ==
  /\ pc = "return"
  /\ pc' = IF stack = <<>> THEN "done" ELSE "readdir"
  /\ UNCHANGED <<theTree, stack, subpath, ret, lists, open_dirs, missed>>

\* The caller gets the result: a failure it hands on at once, without closedir.
Return ==
  /\ pc = "return"
  /\ \/ /\ stack = <<>>
        /\ pc' = "done"
        /\ UNCHANGED stack
     \/ /\ stack # <<>>
        /\ IF ret = 0
           THEN pc' = "readdir" /\ UNCHANGED stack
           ELSE stack' = Front(stack) /\ UNCHANGED pc
  /\ UNCHANGED <<theTree, subpath, ret, lists, open_dirs, missed>>

Next == OpenDir \/ ReadDir \/ EndOfDir \/ Return

Spec == Init /\ [][Next]_vars
FairSpec == Spec /\ WF_vars(Next)

-------------------------------------------------------------------------------
\* The paths below the mod directory that can be stat'ed, links followed.
ModPaths ==
  {p \in UNION {[1..n -> Entries] : n \in 1..(Cardinality(Entries) * (MaxLinks + 1))} :
     \A i \in DOMAIN p :
       LET q == SubSeq(p, 1, i) IN
       ~StatFails(q) /\ parent[p[i]] = Node(Front(q))}

LeftOut == {p \in ModPaths : \E i \in DOMAIN p : SubSeq(p, 1, i) \in missed}

Succeeded == pc = "done" /\ ret = 0

\* A traversal that succeeds has listed every directory and every regular file
\* below the mod directory, as what it is and once: what install makes, links
\* and records.  What it leaves out, without a word, is what a readdir that fails
\* has not returned, and what is below that.
ListsAreTheMod ==
  Succeeded =>
    /\ IsInjective(directory_list) /\ IsInjective(regular_file_list)
    /\ \A p \in ToSet(directory_list) : p \in ModPaths /\ KindAt(p) = "dir"
    /\ \A p \in ToSet(regular_file_list) : p \in ModPaths /\ KindAt(p) = "file"
    /\ \A p \in ModPaths \ LeftOut :
         /\ KindAt(p) = "dir" => p \in ToSet(directory_list)
         /\ KindAt(p) = "file" => p \in ToSet(regular_file_list)

\* A directory is listed after the one it is in, and a file's directory is
\* listed: the loop of mkdirs makes the parents first, and the links find their
\* directories.
ParentsFirst ==
  /\ \A i \in DOMAIN directory_list :
       LET up == Front(directory_list[i]) IN
       up = <<>> \/ \E j \in 1..(i - 1) : directory_list[j] = up
  /\ \A i \in DOMAIN regular_file_list :
       LET up == Front(regular_file_list[i]) IN
       up = <<>> \/ up \in ToSet(directory_list)

\* A traversal that succeeds has closed every directory it has opened; one that
\* fails leaves at most those open that led to the failure.
OnlyFailureLeaksDirs ==
  /\ Succeeded => open_dirs = 0
  /\ pc = "done" => open_dirs <= Len(subpath)

\* The traversal ends, also when a link leads back to a directory it is in.
TraversalEnds == <>(pc = "done")
===============================================================================
