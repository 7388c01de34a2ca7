------------------------- MODULE ModStoreRecordsProofs -------------------------
(***************************************************************************)
(* What INSTALL, UNINSTALL and INSTALLED promise, for all mods, games and  *)
(* roots, under the conditions that the properties state: one root, no     *)
(* kill in an UNINSTALL and no failure of the calls that read or undo.     *)
(***************************************************************************)
EXTENDS ModStoreProofs

-------------------------------------------------------------------------------
(* The invariant.                                                          *)

Mine == {row \in table : row.name = cmd.name}
MyPaths == {row.path : row \in Mine}
MyFiles == ToSet(Listing[cmd.dir].files)
MyDirs == ToSet(Listing[cmd.dir].dirs)

\* From install's first call that changes the tree to the answer.
Installing ==
  /\ cmd.op = "INSTALL"
  /\ pc \in {"mkdir", "link", "rb_unlink", "rb_rmdir", "add", "add_undo", "add_failed",
             "after", "unlink", "rmdir"}

\* From uninstall's first call to the answer.
Removing == cmd.op = "UNINSTALL" /\ pc \in {"unlink", "rmdir", "del", "after"}

IsTreeOf(t) ==
  /\ t \in [Paths -> Kinds]
  /\ \A p \in Paths : t[p] # "none" => Parent[p] = Top \/ t[Parent[p]] = "dir"
  /\ \A p \in ModDirs : t[p] # "file"

TreeInv == IsTreeOf(tree) /\ (pc # "idle" => IsTreeOf(start.tree))

\* Files belong to one mod, a mod has an entry once, and a directory before what is
\* in it.
RowsInv ==
  /\ \A row \in table : row.path \in ModDirs \cup ModFiles
  /\ \A row, other \in table :
       row.path = other.path /\ (row.name = other.name \/ row.path \in ModFiles) => row = other
  /\ \A row, other \in table :
       row.name = other.name /\ row.id < other.id => Parent[row.path] # other.path

\* The mod n is in the game with (at least) the entries A: what it has on record, its
\* directories kept from rmdir by what is in them, its files by nobody else having
\* them on record, and none of them listed by the INSTALL that runs.
Held(n, A) ==
  /\ A \subseteq ModDirs \cup ModFiles
  /\ \A p \in A : tree[p] = IF p \in ModFiles THEN "file" ELSE "dir"
  /\ \A p \in A : p \in ModFiles \/ \E q \in A : Parent[q] = p
  /\ \A row \in table : row.name = n => row.path \in A
  /\ \A row \in table : row.path \in A \cap ModFiles => row.name = n
Anchored(n, A) == Held(n, A) /\ (Installing => A \cap ToSet(regular_file_list) = {})

HoldInv ==
  \A n \in Names :
    \/ n = cmd.name /\ (Installing \/ Removing)
    \/ \E A \in SUBSET Paths : Anchored(n, A)

\* A SELECT is open only while its rows are read, and comes to its end; each command
\* keeps to its own steps.
CalmInv ==
  /\ more_rows => pc \in {"ask", "stat"}
  /\ pc = "stat" => more_rows /\ interest_field = "PATH"
  /\ ~more_rows => sql_stmt = NoStmt
  /\ pc = "asked" => current_status = "IDLE"
  /\ pc = "add" => current_status # "ERROR"
  /\ pc = "idle" => NothingListed
  /\ pc # "idle" => interest_field = IF cmd.op = "INSTALLED" THEN "NAME" ELSE "PATH"
  /\ pc \in {"ask", "stat", "asked", "execute", "check"} =>
       start = [tree |-> tree, table |-> table]
  /\ pc \in {"idle", "ask", "stat", "asked", "execute"} => ~failed /\ ~undoing
  /\ cmd.op = "UNINSTALL" => ~failed /\ ~undoing
  /\ cmd.op = "INSTALL" /\ pc \in {"unlink", "rmdir"} => undoing
  /\ pc \in {"rb_unlink", "rb_rmdir", "add_failed"} => cmd.op = "INSTALL"
  /\ pc \in {"unlink", "rmdir", "after"} => cmd.op \in {"INSTALL", "UNINSTALL"}
  /\ pc = "del" => cmd.op = "UNINSTALL"

\* The rows that do_DB_ask has listed.
Seen ==
  CASE pc = "ask" -> {row \in Mine : row.id <= sql_stmt.at}
    [] pc = "stat" -> {row \in Mine : row.id < sql_stmt.at}
    [] OTHER -> Mine
SeenPaths == {row.path : row \in Seen}

ChildrenFirst(s) == \A i, j \in DOMAIN s : i < j => Parent[s[j]] # s[i]
ParentsFirst(s) == \A i, j \in DOMAIN s : i < j => Parent[s[i]] # s[j]

\* The entries S are in the lists, directories after what is in them.
AreListed(S) ==
  /\ ToSet(regular_file_list) = S \cap ModFiles
  /\ ToSet(directory_list) = S \cap ModDirs
  /\ IsInjective(regular_file_list) /\ IsInjective(directory_list)
  /\ ChildrenFirst(directory_list)

\* do_DB_ask's lists are the mod's entries on record, as far as it has come.
AskInv ==
  /\ pc \in {"ask", "stat"} /\ interest_field = "PATH" =>
       /\ record_buf.set = {"name"} /\ record_buf.name = cmd.name
       /\ more_rows => sql_stmt.where = {"name"}
  /\ pc = "stat" =>
       \E row \in Mine : row.id = sql_stmt.at /\ row.path = record_buf.path
  /\ \/ pc \in {"ask", "stat", "asked"} /\ interest_field = "PATH"
     \/ cmd.op = "UNINSTALL" /\ pc \in {"execute", "unlink", "rmdir"}
     => AreListed(SeenPaths)

\* The lists, and what an INSTALL leaves alone.
InstallFrame ==
  /\ Installing \/ pc = "check" =>
       /\ regular_file_list = Listing[cmd.dir].files
       /\ pc # "rb_rmdir" => directory_list = Listing[cmd.dir].dirs
  /\ Installing =>
       /\ \A p \in Paths \ (MyDirs \cup MyFiles) : tree[p] = start.tree[p]
       /\ \A p \in MyFiles : start.tree[p] = "none" /\ tree[p] \in {"none", "file"}
  /\ cmd.op = "INSTALL" /\ pc \notin {"ask", "stat", "asked", "add", "add_undo", "after", "reply"}
       => Mine = {}

\* How far the loops of install, its rollback and its undo have come.
InstallLoops ==
  cmd.op = "INSTALL" =>
    /\ pc = "mkdir" =>
         /\ ToSet(todo) \subseteq MyDirs
         /\ \A p \in MyDirs : p \in ToSet(todo) \/ tree[p] = "dir"
         /\ \A p \in MyFiles : tree[p] = "none"
    /\ pc = "link" =>
         /\ ToSet(todo) \subseteq MyFiles
         /\ \A p \in MyDirs : tree[p] = "dir"
         /\ \A p \in MyFiles : p \in ToSet(todo) \/ tree[p] = "file"
    /\ pc \in {"add", "add_undo", "add_failed", "after"} =>
         /\ \A p \in MyDirs : tree[p] = "dir"
         /\ \A p \in MyFiles : tree[p] = "file"
         /\ MyPaths \subseteq MyDirs \cup MyFiles
    /\ pc = "rb_unlink" \/ pc = "unlink" =>
         /\ ToSet(todo) \subseteq MyFiles
         /\ \A p \in MyFiles : tree[p] = "file" => p \in ToSet(todo)
    /\ pc = "rb_rmdir" \/ pc = "rmdir" =>
         /\ ToSet(todo) \subseteq MyDirs
         /\ \A p \in MyFiles : tree[p] = "none"
    /\ pc = "rb_rmdir" =>
         /\ ChildrenFirst(todo)
         /\ \A p \in MyDirs : tree[p] = "dir" /\ start.tree[p] # "dir" => p \in ToSet(todo)

\* How the records come to be all of the mod's, or none.
AddInv ==
  cmd.op = "INSTALL" =>
    /\ pc = "add" =>
         /\ MyPaths \cap ToSet(todo) = {}
         /\ MyPaths \cup ToSet(todo) = MyDirs \cup MyFiles
         /\ IsInjective(todo) /\ ParentsFirst(todo)
         /\ \A row \in Mine, p \in ToSet(todo) : Parent[row.path] # p
         /\ \A row \in Mine, other \in table : row.id < other.id => other \in Mine
    /\ pc = "add_undo" => record_buf.name = cmd.name
    /\ pc = "after" /\ current_status = "ERROR" => Mine = {}
    /\ pc = "after" /\ current_status # "ERROR" => MyPaths = MyDirs \cup MyFiles

\* What a failed INSTALL leaves.
AnswerInv ==
  pc = "reply" /\ cmd.op = "INSTALL" /\ reply = "error" =>
    \A p \in Paths : /\ tree[p] = "file" <=> start.tree[p] = "file"
                     /\ tree[p] = "dir" => undoing \/ start.tree[p] = "dir"

GoneOrHeld(p) == tree[p] = "none" \/ NotEmpty(p)

\* How far uninstall has come.
UninstallInv ==
  cmd.op = "UNINSTALL" =>
    /\ pc \in {"unlink", "rmdir", "del"} => start.table = table
    /\ pc = "unlink" =>
         /\ IsInjective(todo) /\ ToSet(todo) \subseteq MyPaths \cap ModFiles
         /\ \A p \in MyPaths \cap ModFiles : tree[p] = IF p \in ToSet(todo) THEN "file" ELSE "none"
         /\ \A p \in MyPaths \cap ModDirs : tree[p] = "dir"
    /\ pc = "rmdir" =>
         /\ IsInjective(todo) /\ ToSet(todo) \subseteq MyPaths \cap ModDirs
         /\ ChildrenFirst(todo)
         /\ \A p \in MyPaths \cap ModFiles : tree[p] = "none"
         /\ \A p \in MyPaths \cap ModDirs :
              IF p \in ToSet(todo) THEN tree[p] = "dir"
              ELSE GoneOrHeld(p) /\ \A q \in ToSet(todo) : Parent[q] # p
    /\ pc = "del" => \A p \in MyPaths : GoneOrHeld(p)
    /\ pc = "del" => record_buf = NameOnly(cmd.name)
    /\ pc = "after" => Mine = {} /\ current_status # "ERROR"
    /\ pc = "after" \/ (pc = "reply" /\ reply = "done") =>
         \A p \in PathsOf(cmd.name, start.table) : GoneOrHeld(p)

\* Unless the process is killed, a file is the game's, on record, or of the INSTALL
\* that runs.
FilesInv ==
  Undying =>
    \A p \in Paths :
      tree[p] = "file" => \/ Game[mhwiroot][p] = "file"
                          \/ \E row \in table : row.path = p
                          \/ Installing /\ p \in MyFiles

StoreInv ==
  /\ TreeInv /\ RowsInv /\ HoldInv /\ CalmInv /\ AskInv /\ InstallFrame /\ InstallLoops
  /\ AddInv /\ AnswerInv /\ UninstallInv /\ FilesInv

CalmStoreInv == Calm => StoreInv

-------------------------------------------------------------------------------
(* Lists.                                                                  *)

LEMMA ListEmpty ==
  /\ ToSet(<<>>) = {} /\ IsInjective(<<>>) /\ ChildrenFirst(<<>>) /\ ParentsFirst(<<>>)
  /\ \A S : \A s \in Seq(S) : ToSet(s) = {} => s = <<>>
<1>1. \A S : \A s \in Seq(S) : ToSet(s) = {} => s = <<>>
  <2> SUFFICES ASSUME NEW S, NEW s \in Seq(S), s # <<>> PROVE s[1] \in ToSet(s)
    OBVIOUS
  <2> QED
    BY DEF ToSet
<1> QED
  BY <1>1 DEF ToSet, IsInjective, ChildrenFirst, ParentsFirst

LEMMA ListTail ==
  ASSUME NEW S, NEW s \in Seq(S), s # <<>>
  PROVE  /\ Head(s) \in ToSet(s) /\ ToSet(Tail(s)) \subseteq ToSet(s)
         /\ \A x \in ToSet(s) : x = Head(s) \/ x \in ToSet(Tail(s))
         /\ IsInjective(s) => IsInjective(Tail(s)) /\ Head(s) \notin ToSet(Tail(s))
         /\ ChildrenFirst(s) =>
              ChildrenFirst(Tail(s)) /\ \A q \in ToSet(Tail(s)) : Parent[q] # Head(s)
         /\ ParentsFirst(s) =>
              ParentsFirst(Tail(s)) /\ \A q \in ToSet(Tail(s)) : Parent[Head(s)] # q
<1>1. /\ Head(s) = s[1] /\ Len(s) \in Nat /\ Len(s) > 0 /\ DOMAIN s = 1..Len(s)
      /\ DOMAIN Tail(s) = 1..(Len(s) - 1)
      /\ \A i \in DOMAIN Tail(s) : Tail(s)[i] = s[i + 1]
  OBVIOUS
<1>2. \A i \in DOMAIN Tail(s) : i + 1 \in DOMAIN s /\ i + 1 > 1 /\ i \in Nat
  BY <1>1
<1>3. \A i \in DOMAIN s : i = 1 \/ (i - 1 \in DOMAIN Tail(s) /\ Tail(s)[i - 1] = s[i])
  BY <1>1
<1>4. Head(s) \in ToSet(s) /\ ToSet(Tail(s)) \subseteq ToSet(s)
  <2>1. Head(s) \in ToSet(s)
    BY <1>1 DEF ToSet
  <2>2. \A i \in DOMAIN Tail(s) : Tail(s)[i] \in ToSet(s)
    BY <1>1, <1>2 DEF ToSet
  <2> QED
    BY <2>1, <2>2 DEF ToSet
<1>5. \A x \in ToSet(s) : x = Head(s) \/ x \in ToSet(Tail(s))
  <2> TAKE x \in ToSet(s)
  <2>1. PICK i \in DOMAIN s : x = s[i]
    BY DEF ToSet
  <2>2. \A k \in DOMAIN Tail(s) : Tail(s)[k] \in ToSet(Tail(s))
    BY DEF ToSet
  <2> QED
    BY <1>1, <1>3, <2>1, <2>2
<1>6. IsInjective(s) => IsInjective(Tail(s)) /\ Head(s) \notin ToSet(Tail(s))
  BY <1>1, <1>2 DEF ToSet, IsInjective
<1>7. ChildrenFirst(s) =>
        ChildrenFirst(Tail(s)) /\ \A q \in ToSet(Tail(s)) : Parent[q] # Head(s)
  BY <1>1, <1>2 DEF ToSet, ChildrenFirst
<1>8. ParentsFirst(s) =>
        ParentsFirst(Tail(s)) /\ \A q \in ToSet(Tail(s)) : Parent[Head(s)] # q
  BY <1>1, <1>2 DEF ToSet, ParentsFirst
<1> QED
  BY <1>4, <1>5, <1>6, <1>7, <1>8

LEMMA ListFront ==
  ASSUME NEW S, NEW s \in Seq(S), NEW p
  PROVE  /\ ToSet(<<p>> \o s) = ToSet(s) \cup {p}
         /\ IsInjective(s) /\ p \notin ToSet(s) => IsInjective(<<p>> \o s)
         /\ ChildrenFirst(s) /\ (\A q \in ToSet(s) : Parent[q] # p) => ChildrenFirst(<<p>> \o s)
<1> DEFINE t == <<p>> \o s
<1>1. /\ Len(s) \in Nat /\ DOMAIN s = 1..Len(s) /\ DOMAIN t = 1..(Len(s) + 1)
      /\ t[1] = p /\ \A i \in DOMAIN s : t[i + 1] = s[i]
  OBVIOUS
<1>2. \A i \in DOMAIN t : i = 1 \/ (i - 1 \in DOMAIN s /\ t[i] = s[i - 1] /\ i > 1 /\ i \in Nat)
  BY <1>1
<1>3. 1 \in DOMAIN t /\ \A i \in DOMAIN s : i + 1 \in DOMAIN t
  BY <1>1
<1> HIDE DEF t
<1>4. ToSet(t) = ToSet(s) \cup {p}
  BY <1>1, <1>2, <1>3 DEF ToSet
<1>5. IsInjective(s) /\ p \notin ToSet(s) => IsInjective(t)
  BY <1>1, <1>2 DEF ToSet, IsInjective
<1>6. ChildrenFirst(s) /\ (\A q \in ToSet(s) : Parent[q] # p) => ChildrenFirst(t)
  <2> SUFFICES ASSUME ChildrenFirst(s), \A q \in ToSet(s) : Parent[q] # p,
                      NEW i \in DOMAIN t, NEW j \in DOMAIN t, i < j
               PROVE  Parent[t[j]] # t[i]
    BY DEF ChildrenFirst
  <2>1. j - 1 \in DOMAIN s /\ t[j] = s[j - 1]
    BY <1>1, <1>2
  <2>2. CASE i = 1
    BY <1>1, <2>1, <2>2 DEF ToSet
  <2>3. CASE i # 1
    <3>1. i - 1 \in DOMAIN s /\ t[i] = s[i - 1] /\ i - 1 < j - 1
      BY <1>1, <1>2, <2>3
    <3> QED
      BY <2>1, <3>1 DEF ChildrenFirst
  <2> QED
    BY <2>2, <2>3
<1> QED
  BY <1>4, <1>5, <1>6 DEF t

LEMMA ListReverse ==
  ASSUME NEW S, NEW s \in Seq(S)
  PROVE  ToSet(Reverse(s)) = ToSet(s) /\ (ParentsFirst(s) => ChildrenFirst(Reverse(s)))
<1> DEFINE t == Reverse(s)
           n == Len(s)
<1>1. /\ n \in Nat /\ DOMAIN s = 1..n /\ DOMAIN t = 1..n
      /\ \A i \in 1..n : t[i] = s[n - i + 1]
  BY DEF Reverse
<1>2. \A i \in 1..n : n - i + 1 \in 1..n /\ n - (n - i + 1) + 1 = i
  BY <1>1
<1>3. \A i, j \in 1..n : i < j => n - j + 1 < n - i + 1
  BY <1>1
<1> HIDE DEF t, n
<1>4. ToSet(t) = ToSet(s)
  BY <1>1, <1>2 DEF ToSet
<1>5. ParentsFirst(s) => ChildrenFirst(t)
  BY <1>1, <1>2, <1>3 DEF ParentsFirst, ChildrenFirst
<1> QED
  BY <1>4, <1>5 DEF t

LEMMA ListConcat ==
  ASSUME NEW S, NEW s \in Seq(S), NEW t \in Seq(S)
  PROVE  /\ ToSet(s \o t) = ToSet(s) \cup ToSet(t)
         /\ IsInjective(s) /\ IsInjective(t) /\ ToSet(s) \cap ToSet(t) = {} => IsInjective(s \o t)
         /\ ParentsFirst(s) /\ (\A q \in ToSet(s) \cup ToSet(t) : Parent[q] \notin ToSet(t))
              => ParentsFirst(s \o t)
<1> DEFINE u == s \o t
           m == Len(s)
           n == Len(t)
<1>1. /\ m \in Nat /\ n \in Nat /\ DOMAIN s = 1..m /\ DOMAIN t = 1..n /\ DOMAIN u = 1..(m + n)
      /\ \A i \in 1..m : u[i] = s[i]
      /\ \A i \in 1..n : u[i + m] = t[i]
  OBVIOUS
<1> HIDE DEF u, m, n
<1>2. \A i \in DOMAIN u : \/ i \in DOMAIN s /\ u[i] = s[i]
                          \/ i > m /\ i - m \in DOMAIN t /\ u[i] = t[i - m]
  <2> SUFFICES ASSUME NEW i \in DOMAIN u, i > m
               PROVE  i - m \in 1..n /\ u[i] = t[i - m]
    BY <1>1
  <2>1. i - m \in 1..n /\ (i - m) + m = i
    BY <1>1
  <2> QED
    BY <1>1, <2>1
<1>3. (\A i \in DOMAIN s : i \in DOMAIN u) /\ \A i \in DOMAIN t : i + m \in DOMAIN u
  BY <1>1
<1>4. ToSet(u) = ToSet(s) \cup ToSet(t)
  BY <1>1, <1>2, <1>3 DEF ToSet
<1>5. IsInjective(s) /\ IsInjective(t) /\ ToSet(s) \cap ToSet(t) = {} => IsInjective(u)
  <2> SUFFICES ASSUME IsInjective(s), IsInjective(t), ToSet(s) \cap ToSet(t) = {},
                      NEW i \in DOMAIN u, NEW j \in DOMAIN u, u[i] = u[j]
               PROVE  i = j
    BY DEF IsInjective
  <2>1. i \in DOMAIN s <=> j \in DOMAIN s
    <3>1. \A k \in DOMAIN u : u[k] \in ToSet(s) <=> k \in DOMAIN s
      <4>1. \A k \in DOMAIN s : s[k] \in ToSet(s)
        BY DEF ToSet
      <4>2. \A k \in DOMAIN t : t[k] \in ToSet(t)
        BY DEF ToSet
      <4> QED
        BY <1>1, <1>2, <4>1, <4>2
    <3> QED
      BY <3>1
  <2>2. CASE i \in DOMAIN s
    BY <1>1, <1>2, <2>1, <2>2 DEF IsInjective
  <2>3. CASE i \notin DOMAIN s
    <3>1. i - m = j - m
      BY <1>2, <2>1, <2>3 DEF IsInjective
    <3> QED
      BY <1>1, <3>1
  <2> QED
    BY <2>2, <2>3
<1>6. ParentsFirst(s) /\ (\A q \in ToSet(s) \cup ToSet(t) : Parent[q] \notin ToSet(t))
        => ParentsFirst(u)
  <2> SUFFICES ASSUME ParentsFirst(s),
                      \A q \in ToSet(s) \cup ToSet(t) : Parent[q] \notin ToSet(t),
                      NEW i \in DOMAIN u, NEW j \in DOMAIN u, i < j
               PROVE  Parent[u[i]] # u[j]
    BY DEF ParentsFirst
  <2>1. CASE u[j] \in ToSet(t)
    BY <1>2, <2>1 DEF ToSet
  <2>2. CASE u[j] \notin ToSet(t)
    <3>1. j \in DOMAIN s /\ u[j] = s[j]
      BY <1>2, <2>2 DEF ToSet
    <3>2. i \in DOMAIN s /\ u[i] = s[i]
      BY <1>1, <3>1
    <3> QED
      BY <3>1, <3>2 DEF ParentsFirst
  <2> QED
    BY <2>1, <2>2
<1> QED
  BY <1>4, <1>5, <1>6 DEF u

-------------------------------------------------------------------------------
(* Mods.                                                                   *)

LEMMA ModsAreListed ==
  ASSUME NEW d \in Dirs
  PROVE  /\ Listing[d].dirs \in Seq(Paths) /\ Listing[d].files \in Seq(Paths)
         /\ ToSet(Listing[d].dirs) \subseteq ModDirs \cap Paths
         /\ ToSet(Listing[d].files) \subseteq ModFiles \cap Paths
<1>1. Listing[d].dirs \in Seq(Paths) /\ Listing[d].files \in Seq(Paths)
  BY StoreAssumption
<1>2. \A s \in Seq(Paths) : ToSet(s) \subseteq Paths
  BY DEF ToSet
<1> QED
  BY <1>1, <1>2 DEF ModDirs, ModFiles

LEMMA ModsAreTidy ==
  ASSUME Tidy, NEW d \in Dirs
  PROVE  /\ IsInjective(Listing[d].dirs) /\ IsInjective(Listing[d].files)
         /\ ParentsFirst(Listing[d].dirs)
         /\ \A p \in ToSet(Listing[d].dirs) : Parent[p] # p
<1> DEFINE dirs == Listing[d].dirs
<1>1. /\ IsInjective(dirs) /\ IsInjective(Listing[d].files)
      /\ \A i \in DOMAIN dirs :
           Parent[dirs[i]] = Top \/ \E j \in 1..(i - 1) : Parent[dirs[i]] = dirs[j]
  BY DEF Tidy
<1>2. dirs \in Seq(Paths) /\ Top \notin Paths
  BY StoreAssumption
<1>3. DOMAIN dirs = 1..Len(dirs) /\ Len(dirs) \in Nat /\ \A i \in DOMAIN dirs : dirs[i] \in Paths
  BY <1>2
<1> HIDE DEF dirs
<1>4. \A i, j \in DOMAIN dirs : i <= j => Parent[dirs[i]] # dirs[j]
  <2> SUFFICES ASSUME NEW i \in DOMAIN dirs, NEW j \in DOMAIN dirs, i <= j,
                      Parent[dirs[i]] = dirs[j]
               PROVE  FALSE
    OBVIOUS
  <2>1. PICK k \in 1..(i - 1) : Parent[dirs[i]] = dirs[k]
    BY <1>1, <1>2, <1>3
  <2>2. k \in DOMAIN dirs /\ k # j
    BY <1>3, <2>1
  <2> QED
    BY <1>1, <2>1, <2>2 DEF IsInjective
<1>5. ParentsFirst(dirs)
  BY <1>3, <1>4 DEF ParentsFirst
<1>6. \A p \in ToSet(dirs) : Parent[p] # p
  BY <1>3, <1>4 DEF ToSet
<1> QED
  BY <1>1, <1>5, <1>6 DEF dirs

(* The tree.                                                               *)

LEMMA TreeCreates ==
  ASSUME NEW t, IsTreeOf(t), NEW p \in Paths, NEW kind \in {"dir", "file"}, t[p] = "none",
         Parent[p] = Top \/ t[Parent[p]] = "dir", p \in ModDirs => kind = "dir"
  PROVE  IsTreeOf([t EXCEPT ![p] = kind])
<1> DEFINE u == [t EXCEPT ![p] = kind]
<1>1. t \in [Paths -> Kinds] /\ u \in [Paths -> Kinds]
  BY DEF IsTreeOf, Kinds
<1>2. \A q \in Paths : u[q] = IF q = p THEN kind ELSE t[q]
  BY <1>1
<1>3. \A q \in Paths : t[q] # "none" => Parent[q] = Top \/ (t[Parent[q]] = "dir" /\ Parent[q] # p)
  BY DEF IsTreeOf
<1>4. \A q \in Paths : Parent[q] \in Paths \cup {Top}
  BY StoreAssumption
<1> HIDE DEF u
<1>5. \A q \in Paths : u[q] # "none" => Parent[q] = Top \/ u[Parent[q]] = "dir"
  BY <1>2, <1>3, <1>4
<1>6. \A q \in ModDirs : u[q] # "file"
  <2>1. ModDirs \subseteq Paths
    BY ModsAreListed DEF ModDirs
  <2> QED
    BY <1>2, <2>1 DEF IsTreeOf
<1>7. IsTreeOf(u)
  BY <1>1, <1>5, <1>6 DEF IsTreeOf
<1> QED
  BY <1>7 DEF u

LEMMA TreeLoses ==
  ASSUME NEW t, IsTreeOf(t), NEW p \in Paths, \A q \in Paths : Parent[q] = p => t[q] = "none"
  PROVE  IsTreeOf([t EXCEPT ![p] = "none"])
<1> DEFINE u == [t EXCEPT ![p] = "none"]
<1>1. t \in [Paths -> Kinds] /\ u \in [Paths -> Kinds]
  BY DEF IsTreeOf, Kinds
<1>2. \A q \in Paths : u[q] = IF q = p THEN "none" ELSE t[q]
  BY <1>1
<1>3. \A q \in Paths : Parent[q] \in Paths \cup {Top}
  BY StoreAssumption
<1> HIDE DEF u
<1>4. \A q \in Paths : u[q] # "none" => Parent[q] = Top \/ u[Parent[q]] = "dir"
  BY <1>2, <1>3 DEF IsTreeOf
<1>5. \A q \in ModDirs : u[q] # "file"
  <2>1. ModDirs \subseteq Paths
    BY ModsAreListed DEF ModDirs
  <2> QED
    BY <1>2, <2>1 DEF IsTreeOf
<1>6. IsTreeOf(u)
  BY <1>1, <1>4, <1>5 DEF IsTreeOf
<1> QED
  BY <1>6 DEF u

-------------------------------------------------------------------------------
(* What a step changes.                                                    *)

Before == TypeInv /\ NoOpenSelect /\ Calm /\ StoreInv

LEMMA TheCommand ==
  ASSUME Before, pc # "idle"
  PROVE  /\ cmd \in env.requests /\ cmd.op \in StoreOps
         /\ cmd.name \in Names /\ cmd.dir \in Dirs
<1>1. cmd \in env.requests /\ env \in Environments
  BY DEF Before, TypeInv, StoreTypes, ToRecord
<1> QED
  BY <1>1, StoreAssumption

\* The environment and the root stay, and the command until it is answered.
LEMMA Frame ==
  ASSUME Before, [Next]_vars
  PROVE  /\ env' = env /\ mhwiroot' = mhwiroot /\ mhwiroot \in Roots /\ Calm'
         /\ tree \in [Paths -> Kinds]
         /\ pc # "idle" => /\ cmd \in env.requests /\ cmd.op \in StoreOps
                           /\ cmd.name \in Names /\ cmd.dir \in Dirs
         /\ pc # "idle" /\ pc' # "idle" => UNCHANGED <<cmd, start, interest_field>>
         /\ pc = "idle" => pc' \in {"idle", "ask"} /\ UNCHANGED <<tree, table>>
<1>1. /\ mhwiroot \in Roots /\ mhwiroot \in env.roots /\ env.roots = {mhwiroot}
      /\ pc # "idle" => cmd \in env.requests
      /\ \A c \in env.requests : c.op \in StoreOps /\ c.name \in Names /\ c.dir \in Dirs
      /\ fs \in [Roots -> [Paths -> Kinds]]
  BY StoreAssumption DEF Before, TypeInv, StoreTypes, ToRecord, Calm
<1>2. /\ env' = env
      /\ mhwiroot' = mhwiroot \/ mhwiroot' \in env.roots
      /\ pc # "idle" /\ pc' # "idle" => UNCHANGED <<cmd, start, interest_field>>
      /\ pc = "idle" => pc' \in {"idle", "ask"} /\ UNCHANGED <<fs, table>>
  <2> USE DEF Goto, Loop, Answer, Advance, request
  <2>1. CASE Request \/ Config \/ UNCHANGED vars
    BY <2>1 DEF Request, Config, vars, dbVars, registerDBOperation
  <2>2. CASE Answered \/ Quit \/ Kill
    BY <2>2 DEF Answered, Quit, Kill, ToIdle, Reopen, dbVars, Before, TypeInv
  <2>3. CASE Command /\ ~Answered
    BY <2>3
       DEF Command, FetchName, FetchPath, StatRow, Asked, Traverse, Check, Mkdir, MkdirsDone,
           Link, LinksDone, RbUnlink, RbUnlinksDone, RbRmdir, RolledBack, Add, AddsDone,
           AddUndo, AddFailed, After, BeginsUninstall, Unlink, UnlinksDone, Rmdir,
           UninstallFails, Undone, FilesRemoved, Del, Installed
  <2> QED
    BY <2>1, <2>2, <2>3 DEF Next
<1>3. mhwiroot' = mhwiroot
  BY <1>1, <1>2
<1>4. Calm'
  BY <1>2, <1>3 DEF Before, Calm
<1> QED
  BY <1>1, <1>2, <1>3, <1>4 DEF tree

\* Only entries of the mod are made, unlinked and removed.
LEMMA TodoIsMine ==
  ASSUME Before, todo # <<>>,
         pc \in {"mkdir", "link", "rb_unlink", "rb_rmdir", "unlink", "rmdir"}
  PROVE  /\ Head(todo) \in ToSet(todo) /\ Head(todo) \in Paths
         /\ cmd.dir \in Dirs /\ cmd.op \in {"INSTALL", "UNINSTALL"}
         /\ cmd.op = "INSTALL" => Head(todo) \in MyDirs \cup MyFiles
         /\ cmd.op = "UNINSTALL" => Head(todo) \in MyPaths
<1>1. /\ cmd \in env.requests /\ cmd.dir \in Dirs
      /\ pc \in {"mkdir", "link"} => cmd.op = "INSTALL"
  BY StoreAssumption DEF Before, TypeInv, StoreTypes, ToRecord
<1>2. cmd.op \in {"INSTALL", "UNINSTALL"}
      /\ (cmd.op = "UNINSTALL" => pc \in {"unlink", "rmdir"})
  BY <1>1 DEF Before, StoreInv, CalmInv
<1>3. Head(todo) \in ToSet(todo)
  BY ListTail DEF Before, TypeInv, StoreTypes
<1>4. cmd.op = "INSTALL" => Head(todo) \in MyDirs \cup MyFiles
  BY <1>3 DEF Before, StoreInv, InstallLoops
<1>5. cmd.op = "UNINSTALL" => Head(todo) \in MyPaths
  BY <1>2, <1>3 DEF Before, StoreInv, UninstallInv
<1>6. MyDirs \subseteq Paths /\ MyFiles \subseteq Paths /\ MyPaths \subseteq Paths
  <2>1. MyPaths \subseteq Paths
    BY DEF Before, TypeInv, IdsInv, Rows, MyPaths, Mine
  <2> QED
    BY <1>1, <2>1, ModsAreListed DEF MyDirs, MyFiles
<1> QED
  BY <1>1, <1>2, <1>3, <1>4, <1>5, <1>6

\* A step that changes the tree at the first entry of todo.
Puts(kind) ==
  /\ todo # <<>> /\ todo' = Tail(todo) /\ pc' = pc
  /\ tree' = [tree EXCEPT ![Head(todo)] = kind]
  /\ UNCHANGED <<dbVars, request, lists, undoing, failed>>
Creates ==
  \/ pc = "mkdir" /\ CanCreate(Head(todo)) /\ Puts("dir")
  \/ pc = "link" /\ CanCreate(Head(todo)) /\ Puts("file")
Unlinks == pc \in {"rb_unlink", "unlink"} /\ CanUnlink(Head(todo)) /\ Puts("none")
Rmdirs == pc \in {"rb_rmdir", "rmdir"} /\ CanRmdir(Head(todo)) /\ Puts("none")

LEMMA TreeStep ==
  ASSUME Before, [Next]_vars
  PROVE  tree' = tree \/ Creates \/ Unlinks \/ Rmdirs
<1>1. mhwiroot' = mhwiroot /\ mhwiroot \in Roots /\ fs \in [Roots -> [Paths -> Kinds]]
  BY Frame DEF Before, TypeInv, StoreTypes
<1>2. ASSUME NEW kind, Put(Head(todo), kind) PROVE tree' = [tree EXCEPT ![Head(todo)] = kind]
  BY <1>1, <1>2 DEF Put, tree
<1>3. CASE UNCHANGED fs
  BY <1>1, <1>3 DEF tree
<1>4. CASE Mkdir \/ Link \/ RbUnlink \/ RbRmdir \/ Unlink \/ Rmdir
  <2> SUFFICES ASSUME fs' # fs PROVE Creates \/ Unlinks \/ Rmdirs
    BY <1>3
  <2> USE DEF Advance, Loop
  <2>1. CASE Mkdir
    BY <1>2, <2>1 DEF Mkdir, Creates, Puts, lists
  <2>2. CASE Link
    BY <1>2, <2>2 DEF Link, Creates, Puts
  <2>3. CASE RbUnlink
    BY <1>2, <2>3 DEF RbUnlink, Unlinks, Puts
  <2>4. CASE Unlink
    BY <1>2, <2>4 DEF Unlink, Unlinks, Puts
  <2>5. CASE RbRmdir
    BY <1>2, <2>5 DEF RbRmdir, Rmdirs, Puts
  <2>6. CASE Rmdir
    BY <1>2, <2>6 DEF Rmdir, Rmdirs, Puts
  <2> QED
    BY <1>4, <2>1, <2>2, <2>3, <2>4, <2>5, <2>6
<1>5. CASE Request \/ Quit \/ Kill \/ Config \/ Answered \/ UNCHANGED vars
  BY <1>3, <1>5 DEF Request, Quit, Kill, Config, Answered, ToIdle, vars
<1>6. CASE Command /\ ~(Mkdir \/ Link \/ RbUnlink \/ RbRmdir \/ Unlink \/ Rmdir \/ Answered)
  BY <1>3, <1>6
     DEF Command, FetchName, FetchPath, StatRow, Asked, Traverse, Check, MkdirsDone,
         LinksDone, RbUnlinksDone, RolledBack, Add, AddsDone, AddUndo, AddFailed, After,
         BeginsUninstall, UnlinksDone, UninstallFails, Undone, FilesRemoved, Del, Installed
<1> QED
  BY <1>4, <1>5, <1>6 DEF Next

\* A step that adds a row for the first entry of todo, or deletes the mod's rows.
Inserts ==
  /\ pc = "add" /\ pc' = "add" /\ todo # <<>> /\ todo' = Tail(todo)
  /\ table' = table \cup {[id |-> NextId, name |-> cmd.name, path |-> Head(todo)]}
  /\ UNCHANGED <<fs, request, lists, undoing, failed>>
Deletes ==
  /\ \/ pc = "add_undo" /\ pc' = "add_failed"
     \/ pc = "del" /\ pc' = "after" /\ current_status' = "IDLE"
  /\ table' = table \ Mine
  /\ UNCHANGED <<fs, request, lists, undoing, failed>>

LEMMA NoFaults ==
  ASSUME Before
  PROVE  /\ Fault("ask") = {FALSE} /\ Fault("stat") = {FALSE} /\ Fault("del") = {FALSE}
         /\ "unlink" \notin env.faults
BY DEF Before, Calm, Fault

LEMMA DelStep ==
  ASSUME Before, NEW buf, buf.set = {"name"}, buf.name = cmd.name, ~more_rows,
         RegisterAndExecute("DEL", buf, FALSE)
  PROVE  table' = table \ Mine /\ current_status' = "IDLE"
BY DEF RegisterAndExecute, ResumeSelect, StartSelect, ExecuteNop, LacksValues, Insert, Delete,
       Complete, Matches, Mine

LEMMA AddStep ==
  ASSUME Before, Add
  PROVE  /\ record_buf'.name = cmd.name
         /\ \/ Inserts /\ current_status' # "ERROR"
            \/ pc' = "add_undo" /\ table' = table /\ current_status' = "ERROR"
<1> DEFINE buf == [name |-> record_buf.name, path |-> Head(todo), set |-> Fields]
<1>1. ~more_rows /\ pc = "add" /\ record_buf.name = cmd.name
  BY DEF Add, Before, NoOpenSelect, TypeInv, ToRecord
<1>2. PICK fails : RegisterAndExecute("ADD", buf, fails)
  BY DEF Add
<1>3. Insert("ADD", buf, fails) /\ record_buf' = buf
  BY <1>1, <1>2 DEF RegisterAndExecute, ResumeSelect, StartSelect, ExecuteNop, LacksValues,
                    Delete
<1>4. \/ current_status' = "ERROR" /\ table' = table
      \/ /\ current_status' # "ERROR"
         /\ table' = table \cup {[id |-> NextId, name |-> cmd.name, path |-> Head(todo)]}
  BY <1>1, <1>3 DEF Insert, Complete
<1> QED
  BY <1>1, <1>3, <1>4 DEF Add, Inserts, Advance, Loop, Goto

LEMMA TableStep ==
  ASSUME Before, [Next]_vars
  PROVE  table' = table \/ Inserts \/ Deletes
<1>1. CASE Request \/ Quit \/ Kill \/ Config \/ Answered \/ UNCHANGED vars
  BY <1>1 DEF Request, Quit, Kill, Config, Answered, registerDBOperation, Reopen, dbVars, vars
<1>2. CASE FetchName \/ FetchPath
  <2>1. PICK fails : RegisterAndExecute("ASK", record_buf, fails)
    BY <1>2 DEF FetchName, FetchPath, executeDBOperation, Before, NoOpenSelect
  <2> QED
    BY <2>1 DEF RegisterAndExecute, ResumeSelect, StartSelect, FetchRow, ExecuteNop,
                LacksValues, Insert, Delete
<1>3. CASE Add
  BY <1>3, AddStep
<1>4. CASE AddUndo
  <2> DEFINE buf == [record_buf EXCEPT !.set = {"name"}]
  <2>1. /\ ~more_rows /\ pc = "add_undo" /\ cmd.op = "INSTALL" /\ record_buf.name = cmd.name
        /\ record_buf \in Record
    BY <1>4 DEF AddUndo, Before, NoOpenSelect, TypeInv, ToRecord, DbTypes, StoreInv, AddInv
  <2>2. RegisterAndExecute("DEL", buf, FALSE)
    BY <1>4, NoFaults DEF AddUndo
  <2>3. buf.set = {"name"} /\ buf.name = cmd.name
    BY <2>1 DEF Record
  <2>4. table' = table \ Mine
    <3> HIDE DEF buf
    <3> QED
      BY <2>1, <2>2, <2>3, DelStep
  <2> HIDE DEF buf
  <2> QED
    BY <1>4, <2>4 DEF AddUndo, Deletes, Goto
<1>5. CASE Del
  <2>1. /\ ~more_rows /\ pc = "del" /\ current_op = "DEL" /\ cmd.op = "UNINSTALL"
        /\ record_buf = NameOnly(cmd.name)
    BY <1>5 DEF Del, Before, NoOpenSelect, TypeInv, ToRecord, StoreInv, CalmInv, UninstallInv
  <2>2. RegisterAndExecute("DEL", record_buf, FALSE)
    BY <1>5, <2>1, NoFaults DEF Del, executeDBOperation
  <2>3. table' = table \ Mine /\ current_status' = "IDLE"
    BY <2>1, <2>2, DelStep DEF NameOnly
  <2> QED
    BY <1>5, <2>3 DEF Del, Deletes, Goto
<1>6. CASE Command /\ ~(FetchName \/ FetchPath \/ Add \/ AddUndo \/ Del \/ Answered)
  BY <1>6
     DEF Command, StatRow, Asked, Traverse, Check, Mkdir, MkdirsDone, Link, LinksDone, RbUnlink,
         RbUnlinksDone, RbRmdir, RolledBack, AddsDone, AddFailed, After, BeginsUninstall,
         Unlink, UnlinksDone, Rmdir, UninstallFails, Undone, FilesRemoved, Installed,
         dbVars, chgDBStatus, resetDB, registerDBOperation
<1> QED
  BY <1>1, <1>2, <1>3, <1>4, <1>5, <1>6 DEF Next

-------------------------------------------------------------------------------
(* The tree and the rows.                                                  *)

\* What goes leaves no child behind.
LEMMA LostIsChildless ==
  ASSUME Before, NEW p \in Paths, CanUnlink(p) \/ CanRmdir(p)
  PROVE  \A q \in Paths : Parent[q] = p => tree[q] = "none"
<1>1. IsTreeOf(tree)
  BY DEF Before, StoreInv, TreeInv
<1>2. CASE CanUnlink(p)
  <2>1. tree[p] # "dir" /\ p # Top
    BY <1>2, StoreAssumption DEF CanUnlink
  <2> QED
    BY <1>1, <2>1 DEF IsTreeOf
<1>3. CASE CanRmdir(p)
  BY <1>3 DEF CanRmdir, NotEmpty
<1> QED
  BY <1>2, <1>3

LEMMA TreeInvStep ==
  ASSUME GoodMods, Before, [Next]_vars
  PROVE  TreeInv'
<1>1. IsTreeOf(tree) /\ (pc # "idle" => IsTreeOf(start.tree))
  BY DEF Before, StoreInv, TreeInv
<1>2. IsTreeOf(tree')
  <2> DEFINE p == Head(todo)
  <2>1. CASE tree' = tree
    BY <1>1, <2>1
  <2>2. CASE Creates
    <3>1. PICK kind \in {"dir", "file"} :
            /\ todo # <<>> /\ CanCreate(p) /\ tree' = [tree EXCEPT ![p] = kind]
            /\ pc = "link" \/ (pc = "mkdir" /\ kind = "dir")
      <4>1. CASE pc = "mkdir"
        BY <2>2, <4>1 DEF Creates, Puts
      <4>2. CASE pc # "mkdir"
        BY <2>2, <4>2 DEF Creates, Puts
      <4> QED
        BY <4>1, <4>2
    <3>2. p \in Paths /\ p \in ToSet(todo) /\ cmd.dir \in Dirs /\ cmd.op = "INSTALL"
      BY <3>1, TodoIsMine DEF Before, TypeInv, ToRecord
    <3>3. pc = "link" => p \in MyFiles
      BY <3>2 DEF Before, StoreInv, InstallLoops
    <3>4. p \in ModDirs => kind = "dir"
      BY <3>1, <3>2, <3>3, ModsAreListed DEF GoodMods, ModsAgree, MyFiles
    <3>5. tree[p] = "none" /\ (Parent[p] = Top \/ tree[Parent[p]] = "dir")
      BY <3>1 DEF CanCreate, Directories
    <3> QED
      BY <1>1, <3>1, <3>2, <3>4, <3>5, TreeCreates
  <2>3. CASE Unlinks \/ Rmdirs
    <3>1. /\ tree' = [tree EXCEPT ![p] = "none"] /\ (CanUnlink(p) \/ CanRmdir(p))
          /\ todo # <<>> /\ pc \in {"rb_unlink", "rb_rmdir", "unlink", "rmdir"}
      BY <2>3 DEF Unlinks, Rmdirs, Puts
    <3>2. p \in Paths
      BY <3>1, TodoIsMine
    <3> QED
      BY <1>1, <3>1, <3>2, LostIsChildless, TreeLoses
  <2> QED
    BY <2>1, <2>2, <2>3, TreeStep
<1>3. pc' # "idle" => IsTreeOf(start'.tree)
  <2>1. CASE pc # "idle"
    BY <1>1, <2>1, Frame
  <2>2. CASE Request
    BY <1>1, <2>2 DEF Request
  <2>3. CASE pc = "idle" /\ ~Request /\ pc' # "idle"
    BY <2>3
       DEF Next, Config, Kill, Quit, ToIdle, vars,
           Command, FetchName, FetchPath, StatRow, Asked, Traverse, Check, Mkdir, MkdirsDone,
           Link, LinksDone, RbUnlink, RbUnlinksDone, RbRmdir, RolledBack, Add, AddsDone,
           AddUndo, AddFailed, After, BeginsUninstall, Unlink, UnlinksDone, Rmdir,
           UninstallFails, Undone, FilesRemoved, Del, Installed, Answered
  <2> QED
    BY <2>1, <2>2, <2>3
<1> QED
  BY <1>2, <1>3 DEF TreeInv

\* What others have in the game is out of the way of the INSTALL that runs.
LEMMA OthersAnchored ==
  ASSUME Before, Installing, NEW row \in table, row.path \in MyFiles
  PROVE  row.name = cmd.name
<1>1. SUFFICES ASSUME row.name # cmd.name PROVE FALSE
  OBVIOUS
<1>2. row.name \in Names
  BY DEF Before, TypeInv, IdsInv, Rows
<1>3. PICK A \in SUBSET Paths : Anchored(row.name, A)
  BY <1>1, <1>2 DEF Before, StoreInv, HoldInv
<1>4. regular_file_list = Listing[cmd.dir].files
  BY DEF Before, StoreInv, InstallFrame
<1> QED
  BY <1>3, <1>4 DEF Anchored, Held, MyFiles

LEMMA RowsInvStep ==
  ASSUME GoodMods, Before, [Next]_vars
  PROVE  RowsInv'
<1>1. RowsInv /\ IdsInv
  BY DEF Before, StoreInv, TypeInv
<1>2. CASE table' = table \/ Deletes
  <2>1. table' \subseteq table
    BY <1>2 DEF Deletes
  <2> QED
    BY <1>1, <2>1 DEF RowsInv
<1>3. CASE Inserts
  <2> DEFINE p == Head(todo)
             new == [id |-> NextId, name |-> cmd.name, path |-> p]
  <2>1. /\ Installing /\ cmd.op = "INSTALL" /\ cmd.dir \in Dirs /\ pc = "add"
        /\ todo \in Seq(Paths) /\ todo # <<>>
    <3>1. pc = "add" /\ todo # <<>>
      BY <1>3 DEF Inserts
    <3>2. cmd.op = "INSTALL" /\ todo \in Seq(Paths)
      BY <3>1 DEF Before, TypeInv, ToRecord
    <3> QED
      BY <3>1, <3>2, Frame DEF Installing
  <2>2. p \in ToSet(todo)
    BY <2>1, ListTail
  <2>3. p \in MyDirs \cup MyFiles /\ p \notin MyPaths /\ \A row \in Mine : Parent[row.path] # p
    BY <2>1, <2>2 DEF Before, StoreInv, AddInv
  <2>4. MyDirs \subseteq ModDirs /\ MyFiles \subseteq ModFiles /\ MyDirs \cap ModFiles = {}
    BY <2>1, ModsAreListed DEF MyDirs, MyFiles, GoodMods, ModsAgree
  <2>5. table' = table \cup {new} /\ new.name = cmd.name /\ new.path = p /\ new.id = NextId
    BY <1>3 DEF Inserts
  <2>6. NextId \in Nat /\ \A row \in table : row.id < NextId /\ row.id \in Nat
    BY <1>1, NextIdIsNew DEF IdsInv, Rows
  <2>7. \A row \in table : ~(row.path = p /\ (row.name = cmd.name \/ p \in ModFiles))
    <3> SUFFICES ASSUME NEW row \in table, row.path = p, row.name = cmd.name \/ p \in ModFiles
                 PROVE  FALSE
      OBVIOUS
    <3>1. row.name # cmd.name
      BY <2>3 DEF MyPaths, Mine
    <3>2. p \in MyFiles
      BY <2>3, <2>4, <3>1
    <3> QED
      BY <2>1, <3>1, <3>2, OthersAnchored
  <2>8. \A row \in table : row.name = cmd.name => Parent[row.path] # p
    BY <2>3 DEF Mine
  <2> HIDE DEF new, p
  <2>9. \A row \in table' : row.path \in ModDirs \cup ModFiles
    BY <1>1, <2>3, <2>4, <2>5 DEF RowsInv
  <2>10. \A row, other \in table' :
           row.path = other.path /\ (row.name = other.name \/ row.path \in ModFiles) => row = other
    BY <1>1, <2>5, <2>7 DEF RowsInv
  <2>11. \A row, other \in table' :
           row.name = other.name /\ row.id < other.id => Parent[row.path] # other.path
    BY <1>1, <2>5, <2>6, <2>8 DEF RowsInv
  <2> QED
    BY <2>9, <2>10, <2>11 DEF RowsInv
<1> QED
  BY <1>2, <1>3, TableStep

-------------------------------------------------------------------------------
(* The mods are held.                                                      *)


LEMMA InstallBegins ==
  ASSUME Before, [Next]_vars, ~Installing, Installing'
  PROVE  /\ Check /\ ~Conflict /\ pc = "check" /\ pc' = "mkdir" /\ cmd.op = "INSTALL"
         /\ UNCHANGED <<tree, table, regular_file_list>>
<1>1. pc # "idle" => cmd' = cmd \/ pc' = "idle"
  BY Frame
<1>2. CASE Request \/ Config \/ Kill \/ Quit \/ Answered \/ UNCHANGED vars
  BY <1>2 DEF Request, Config, Kill, Quit, Answered, ToIdle, Installing, vars, request, Goto
<1>3. CASE Asked
  BY <1>3 DEF Asked, RoundFails, Before, StoreInv, CalmInv, Installing, Answer, Goto
<1>4. CASE Check
  <2>1. cmd.op = "INSTALL"
    BY <1>4 DEF Check, Before, TypeInv, ToRecord
  <2>2. pc = "check" /\ ~Conflict /\ pc' = "mkdir" /\ UNCHANGED <<table, regular_file_list>>
    <3>1. "stat" \notin env.faults
      BY DEF Before, Calm
    <3> QED
      BY <1>4, <3>1 DEF Check, Installing, Answer, Loop, dbVars, lists
  <2>3. tree' = tree
    BY <1>4, Frame DEF Check, tree
  <2> QED
    BY <1>4, <2>1, <2>2, <2>3
<1>5. CASE Command /\ ~(Asked \/ Check \/ Answered)
  BY <1>1, <1>5
     DEF Before, StoreInv, CalmInv, Installing, Goto, Loop, Answer, Advance, request,
         Command, FetchName, FetchPath, StatRow, Traverse, Mkdir, MkdirsDone,
         Link, LinksDone, RbUnlink, RbUnlinksDone, RbRmdir, RolledBack, Add, AddsDone,
         AddUndo, AddFailed, After, RoundFails, BeginsUninstall, BeginUninstall, Unlink,
         UnlinksDone, Rmdir, UninstallFails, Undone, FilesRemoved, Del, Installed
<1> QED
  BY <1>2, <1>3, <1>4, <1>5 DEF Next

LEMMA InstallGoesOn ==
  ASSUME Before, [Next]_vars, Installing, Installing'
  PROVE  /\ UNCHANGED <<regular_file_list, cmd>>
         /\ pc' # "rb_rmdir" => pc # "rb_rmdir" /\ directory_list' = directory_list
<1>1. cmd' = cmd
  BY Frame DEF Installing
<1>2. CASE Request \/ Config \/ Kill \/ Quit \/ Answered \/ UNCHANGED vars
  BY <1>1, <1>2 DEF Request, Config, Kill, Quit, Answered, ToIdle, Installing, vars, lists
<1>3. CASE Command /\ ~Answered
  BY <1>1, <1>3
     DEF Installing, lists, RollbackDirectories, Goto, Loop, Answer, Advance,
         Command, FetchName, FetchPath, StatRow, Asked, Traverse, Check, Mkdir, MkdirsDone,
         Link, LinksDone, RbUnlink, RbUnlinksDone, RbRmdir, RolledBack, Add, AddsDone,
         AddUndo, AddFailed, After, BeginsUninstall, Unlink, UnlinksDone, Rmdir,
         UninstallFails, Undone, FilesRemoved, Del, Installed
<1> QED
  BY <1>1, <1>2, <1>3 DEF Next

LEMMA InstallEnds ==
  ASSUME Before, [Next]_vars, Installing, ~Installing'
  PROVE  /\ Kill \/ UNCHANGED <<tree, table>>
         /\ \/ Kill /\ cmd.op \in env.kill
            \/ pc = "after" /\ current_status # "ERROR" /\ pc' = "reply" /\ reply' = "done"
            \/ pc = "after" /\ current_status = "ERROR" /\ pc' = "exit" /\ NothingListed
            \/ /\ pc \in {"rb_rmdir", "rmdir"} /\ todo = <<>> /\ undoing' = undoing
               /\ \/ pc' = "exit"
                  \/ pc' = "reply" /\ reply' = "error" /\ (pc = "rmdir" => undoing)
<1>1. /\ cmd.op = "INSTALL" /\ pc # "idle" /\ mhwiroot' = mhwiroot /\ CalmInv
      /\ pc' # "idle" => cmd' = cmd
  BY Frame DEF Installing, Before, StoreInv
<1>2. CASE Request \/ Config \/ Quit \/ Answered \/ UNCHANGED vars
  BY <1>1, <1>2 DEF Request, Config, Quit, Answered, Installing, vars, request
<1>3. CASE Kill
  BY <1>3 DEF Kill
<1>4. CASE Command /\ ~Answered
  BY <1>1, <1>4
     DEF Installing, Goto, Loop, Answer, Advance, request, CalmInv, tree, dbVars,
         resetDB, registerDBOperation,
         Command, FetchName, FetchPath, StatRow, Asked, Traverse, Check, Mkdir, MkdirsDone,
         Link, LinksDone, RbUnlink, RbUnlinksDone, RollbackDirectories, RbRmdir, RolledBack, Add,
         AddsDone, AddUndo, AddFailed, After, RoundFails, BeginsUninstall, BeginUninstall, Unlink,
         UnlinksDone, Rmdir, UninstallFails, Undone, FilesRemoved, Del, Installed
<1> QED
  BY <1>2, <1>3, <1>4 DEF Next

LEMMA RemovalEnds ==
  ASSUME Before, [Next]_vars, Removing, ~Removing'
  PROVE  pc = "after" /\ Mine = {} /\ pc' = "reply"
<1>1. /\ cmd.op = "UNINSTALL" /\ cmd.op \notin env.kill /\ pc # "idle" /\ ~failed /\ ~undoing
      /\ pc' # "idle" => cmd' = cmd
      /\ pc = "after" => Mine = {} /\ current_status # "ERROR"
  BY Frame DEF Before, Calm, StoreInv, CalmInv, UninstallInv, Removing
<1>2. CASE Request \/ Config \/ Kill \/ Quit \/ Answered \/ UNCHANGED vars
  BY <1>1, <1>2 DEF Request, Config, Kill, Quit, Answered, Removing, vars, request
<1>3. CASE Command /\ ~Answered
  BY <1>1, <1>3
     DEF Removing, Goto, Loop, Answer, Advance, request,
         Command, FetchName, FetchPath, StatRow, Asked, Traverse, Check, Mkdir, MkdirsDone,
         Link, LinksDone, RbUnlink, RbUnlinksDone, RbRmdir, RolledBack, Add, AddsDone,
         AddUndo, AddFailed, After, RoundFails, BeginsUninstall, Unlink, UnlinksDone, Rmdir,
         UninstallFails, Undone, FilesRemoved, Del, Installed
<1> QED
  BY <1>2, <1>3 DEF Next

\* The mod that is being installed could be left as it is.
LEMMA MineHeld ==
  ASSUME GoodMods, Before, Installing
  PROVE  \E A \in SUBSET Paths : Held(cmd.name, A)
<1>1. cmd.dir \in Dirs /\ cmd.op = "INSTALL"
  BY TheCommand DEF Installing
<1>2. CASE Mine = {}
  <2>1. Held(cmd.name, {})
    BY <1>2 DEF Held, Mine
  <2> QED
    BY <2>1
<1>3. CASE pc \in {"add", "add_undo", "add_failed", "after"}
  <2> DEFINE A == MyDirs \cup MyFiles
  <2>1. /\ MyDirs \subseteq ModDirs \cap Paths /\ MyFiles \subseteq ModFiles \cap Paths
        /\ MyDirs \cap ModFiles = {}
    BY <1>1, ModsAreListed DEF MyDirs, MyFiles, GoodMods, ModsAgree
  <2>2. /\ \A p \in MyDirs : tree[p] = "dir"
        /\ \A p \in MyFiles : tree[p] = "file"
        /\ MyPaths \subseteq A
    BY <1>1, <1>3 DEF Before, StoreInv, InstallLoops
  <2>3. \A p \in MyDirs : \E q \in A : Parent[q] = p
    BY <1>1 DEF GoodMods, NoEmptyDirs, MyDirs, MyFiles
  <2>4. \A row \in table : row.name = cmd.name => row.path \in A
    BY <2>2 DEF MyPaths, Mine
  <2>5. \A row \in table : row.path \in A \cap ModFiles => row.name = cmd.name
    BY <2>1, OthersAnchored
  <2>6. Held(cmd.name, A)
    BY <2>1, <2>2, <2>3, <2>4, <2>5 DEF Held
  <2> QED
    BY <2>1, <2>6
<1> QED
  BY <1>1, <1>2, <1>3 DEF Before, StoreInv, InstallFrame, Installing

LEMMA HeldKept ==
  ASSUME NEW n, NEW A, Held(n, A), \A p \in A : tree'[p] = tree[p],
         \A row \in table' : row \in table \/ (row.name # n /\ row.path \notin A \cap ModFiles)
  PROVE  Held(n, A)'
BY DEF Held

LEMMA HoldInvStep ==
  ASSUME GoodMods, Before, [Next]_vars
  PROVE  HoldInv'
<1> SUFFICES ASSUME NEW n \in Names
             PROVE  \/ n = cmd'.name /\ (Installing' \/ Removing')
                    \/ \E A \in SUBSET Paths : Anchored(n, A)'
  BY DEF HoldInv
<1>0. (n = cmd.name /\ (Installing \/ Removing)) \/ \E A \in SUBSET Paths : Anchored(n, A)
  BY DEF Before, StoreInv, HoldInv
<1>1. CASE Creates \/ Unlinks \/ Rmdirs
  <2> DEFINE p == Head(todo)
  <2>1. /\ pc' = pc /\ cmd' = cmd /\ table' = table /\ regular_file_list' = regular_file_list
        /\ pc \in {"mkdir", "link", "rb_unlink", "rb_rmdir", "unlink", "rmdir"} /\ todo # <<>>
    BY <1>1 DEF Creates, Unlinks, Rmdirs, Puts, dbVars, request, lists
  <2>2. p \in Paths /\ p \in ToSet(todo) /\ cmd.op \in {"INSTALL", "UNINSTALL"} /\ cmd.dir \in Dirs
    BY <2>1, TodoIsMine
  <2>3. Installing \/ Removing
    BY <2>1, <2>2 DEF Installing, Removing, Before, StoreInv, CalmInv, TypeInv, ToRecord
  <2>4. Installing' = Installing /\ Removing' = Removing
    BY <2>1 DEF Installing, Removing
  <2>5. ASSUME NEW A \in SUBSET Paths, Anchored(n, A), n # cmd.name PROVE Anchored(n, A)'
    <3>1. \A q \in A : tree[q] = IF q \in ModFiles THEN "file" ELSE "dir"
      BY <2>5 DEF Anchored, Held
    <3>2. p \notin A
      <4>1. CASE Creates
        BY <3>1, <4>1 DEF Creates, CanCreate
      <4>2. CASE Unlinks
        <5> SUFFICES ASSUME p \in A PROVE FALSE
          OBVIOUS
        <5>1. p \in ModFiles /\ pc \in {"rb_unlink", "unlink"}
          BY <3>1, <4>2 DEF Unlinks, CanUnlink
        <5>2. CASE cmd.op = "INSTALL"
          <6>1. Installing /\ p \in MyFiles /\ regular_file_list = Listing[cmd.dir].files
            BY <2>2, <2>3, <5>1, <5>2
               DEF Removing, Installing, Before, StoreInv, InstallLoops, InstallFrame
          <6> QED
            BY <2>5, <6>1 DEF Anchored, MyFiles
        <5>3. CASE cmd.op = "UNINSTALL"
          <6>1. pc = "unlink" /\ p \in MyPaths
            BY <2>2, <5>1, <5>3 DEF Before, StoreInv, CalmInv, UninstallInv
          <6>2. PICK row \in table : row.name = cmd.name /\ row.path = p
            BY <6>1 DEF MyPaths, Mine
          <6> QED
            BY <2>5, <5>1, <6>2 DEF Anchored, Held
        <5> QED
          BY <2>2, <5>2, <5>3
      <4>3. CASE Rmdirs
        <5> SUFFICES ASSUME p \in A PROVE FALSE
          OBVIOUS
        <5>1. p \notin ModFiles /\ \A q \in Paths : Parent[q] = p => tree[q] = "none"
          BY <3>1, <4>3 DEF Rmdirs, CanRmdir, NotEmpty
        <5>2. PICK q \in A : Parent[q] = p
          BY <2>5, <5>1 DEF Anchored, Held
        <5> QED
          BY <3>1, <5>1, <5>2
      <4> QED
        BY <1>1, <4>1, <4>2, <4>3
    <3>3. \A q \in A : tree'[q] = tree[q]
      <4>1. \E kind : tree' = [tree EXCEPT ![p] = kind]
        BY <1>1 DEF Creates, Unlinks, Rmdirs, Puts
      <4> QED
        BY <3>2, <4>1, Frame
    <3>4. Held(n, A)'
      BY <2>1, <2>5, <3>3, HeldKept DEF Anchored
    <3> QED
      BY <2>1, <2>4, <2>5, <3>4 DEF Anchored
  <2> QED
    BY <1>0, <2>1, <2>3, <2>4, <2>5
<1>2. CASE Inserts \/ Deletes
  <2>1. /\ cmd' = cmd /\ regular_file_list' = regular_file_list /\ tree' = tree
        /\ pc \in {"add", "add_undo", "del"} /\ pc' \in {"add", "add_failed", "after"}
        /\ pc = "del" => pc' = "after"
    BY <1>2, Frame DEF Inserts, Deletes, request, lists, tree
  <2>2. cmd.op = IF pc = "del" THEN "UNINSTALL" ELSE "INSTALL"
    BY <2>1 DEF Before, TypeInv, ToRecord, StoreInv, CalmInv
  <2>3. (Installing \/ Removing) /\ (Installing' \/ Removing') /\ Installing' = Installing
    BY <2>1, <2>2 DEF Installing, Removing
  <2>4. ASSUME NEW A \in SUBSET Paths, Anchored(n, A), n # cmd.name PROVE Anchored(n, A)'
    <3>1. \A row \in table' : row \in table \/ (row.name # n /\ row.path \notin A \cap ModFiles)
      <4>1. CASE Deletes
        BY <4>1 DEF Deletes
      <4>2. CASE Inserts
        <5>1. todo # <<>> /\ todo \in Seq(Paths) /\ cmd.op = "INSTALL" /\ pc = "add"
          BY <4>2 DEF Inserts, Before, TypeInv, ToRecord
        <5>2. Head(todo) \in MyDirs \cup MyFiles /\ cmd.dir \in Dirs /\ Installing
          BY <5>1, ListTail, Frame DEF Before, StoreInv, AddInv, Installing
        <5>3. A \cap MyFiles = {} /\ MyDirs \cap ModFiles = {}
          BY <2>4, <5>2, ModsAreListed
             DEF Anchored, Before, StoreInv, InstallFrame, MyFiles, MyDirs, GoodMods, ModsAgree
        <5> QED
          BY <2>4, <4>2, <5>2, <5>3 DEF Inserts
      <4> QED
        BY <1>2, <4>1, <4>2
    <3>2. Held(n, A)'
      BY <2>1, <2>4, <3>1, HeldKept DEF Anchored
    <3> QED
      BY <2>1, <2>3, <2>4, <3>2 DEF Anchored
  <2> QED
    BY <1>0, <2>1, <2>3, <2>4
<1>3. CASE tree' = tree /\ table' = table
  <2>1. \A A : Held(n, A) => Held(n, A)'
    BY <1>3 DEF Held
  <2>2. CASE n = cmd.name /\ Installing
    <3>1. CASE Installing'
      BY <2>2, <3>1, InstallGoesOn
    <3>2. CASE ~Installing'
      BY <2>1, <2>2, <3>2, MineHeld DEF Anchored
    <3> QED
      BY <3>1, <3>2
  <2>3. CASE n = cmd.name /\ Removing
    <3>1. CASE Removing'
      BY <2>3, <3>1, Frame DEF Removing
    <3>2. CASE ~Removing'
      <4>1. Mine = {} /\ ~Installing'
        BY <2>3, <3>2, RemovalEnds DEF Installing
      <4>2. Held(n, {})
        BY <2>3, <4>1 DEF Held, Mine
      <4> QED
        BY <2>1, <4>1, <4>2 DEF Anchored
    <3> QED
      BY <3>1, <3>2
  <2>4. ASSUME NEW A \in SUBSET Paths, Anchored(n, A) PROVE Anchored(n, A)'
    <3>1. CASE Installing' /\ Installing
      BY <2>1, <2>4, <3>1, InstallGoesOn DEF Anchored
    <3>2. CASE Installing' /\ ~Installing
      <4>1. \A q \in ToSet(regular_file_list) : tree[q] = "none"
        BY <3>2, InstallBegins DEF Conflict, ToSet
      <4>2. A \cap ToSet(regular_file_list') = {}
        BY <2>4, <3>2, <4>1, InstallBegins DEF Anchored, Held
      <4> QED
        BY <2>1, <2>4, <4>2 DEF Anchored
    <3>3. CASE ~Installing'
      BY <2>1, <2>4, <3>3 DEF Anchored
    <3> QED
      BY <3>1, <3>2, <3>3
  <2> QED
    BY <1>0, <2>2, <2>3, <2>4
<1> QED
  BY <1>1, <1>2, <1>3, TreeStep, TableStep

-------------------------------------------------------------------------------
(* The rounds.                                                             *)

\* What the SELECT that is open, or begins, looks for.
Where == IF more_rows THEN sql_stmt.where ELSE record_buf.set
Wanted(row) == row.id > sql_stmt.at /\ Matches(row, Where, record_buf)

LEMMA AnyFetchStep ==
  ASSUME NoOpenSelect, ~more_rows => sql_stmt = NoStmt, pc = "ask",
         NEW fails, executeDBOperation(fails)
  PROVE  /\ current_op' = "ASK" /\ table' = table
         /\ \/ /\ current_status' = "WORKING" /\ more_rows'
               /\ \E row \in table :
                    /\ Wanted(row) /\ \A other \in table : Wanted(other) => row.id <= other.id
                    /\ sql_stmt' = [where |-> Where, at |-> row.id]
                    /\ record_buf' = [record_buf EXCEPT !.name = row.name, !.path = row.path]
            \/ /\ current_status' = "IDLE" /\ ~more_rows' /\ sql_stmt' = NoStmt
               /\ record_buf' = record_buf
               /\ \A row \in table : ~Wanted(row)
            \/ fails /\ current_status' = "ERROR" /\ ~more_rows' /\ sql_stmt' = NoStmt
<1>1. current_op = "ASK" /\ (~more_rows => sql_stmt.at = 0)
  BY DEF NoOpenSelect, NoStmt
<1>2. FetchRow(Where, sql_stmt.at, record_buf, fails) /\ current_op' = "ASK"
  BY <1>1 DEF executeDBOperation, RegisterAndExecute, ResumeSelect, StartSelect, ExecuteNop,
              LacksValues, Insert, Delete, Where
<1> DEFINE rest == {row \in table : row.id > sql_stmt.at /\ Matches(row, Where, record_buf)}
<1>3. \A row \in table : row \in rest <=> Wanted(row)
  BY DEF Wanted
<1>4. CASE current_status' = "ERROR"
  BY <1>2, <1>4 DEF FetchRow, Complete
<1>5. CASE current_status' = "IDLE"
  BY <1>2, <1>3, <1>5 DEF FetchRow, Complete
<1>6. CASE current_status' \notin {"ERROR", "IDLE"}
  <2>1. PICK row \in rest :
          /\ \A other \in rest : row.id <= other.id
          /\ sql_stmt' = [where |-> Where, at |-> row.id]
          /\ record_buf' = [record_buf EXCEPT !.name = row.name, !.path = row.path]
    BY <1>2, <1>6 DEF FetchRow, Complete
  <2>2. current_status' = "WORKING" /\ more_rows' /\ table' = table
    BY <1>2, <1>6 DEF FetchRow, Complete
  <2> QED
    BY <1>2, <1>3, <2>1, <2>2
<1> QED
  BY <1>4, <1>5, <1>6

LEMMA FetchStep ==
  ASSUME Before, pc = "ask", executeDBOperation(FALSE)
  PROVE  /\ current_op' = "ASK" /\ table' = table
         /\ \/ /\ current_status' = "WORKING" /\ more_rows'
               /\ \E row \in table :
                    /\ Wanted(row) /\ \A other \in table : Wanted(other) => row.id <= other.id
                    /\ sql_stmt' = [where |-> Where, at |-> row.id]
                    /\ record_buf' = [record_buf EXCEPT !.name = row.name, !.path = row.path]
            \/ /\ current_status' = "IDLE" /\ ~more_rows' /\ sql_stmt' = NoStmt
               /\ record_buf' = record_buf
               /\ \A row \in table : ~Wanted(row)
<1>1. NoOpenSelect /\ (~more_rows => sql_stmt = NoStmt)
  BY DEF Before, StoreInv, CalmInv
<1> QED
  BY <1>1, AnyFetchStep

\* What is on record for the mod is there, unless it is being installed or removed.
LEMMA RowIsThere ==
  ASSUME Before, pc # "idle", ~Installing, ~Removing
  PROVE  \A p \in MyPaths : /\ p \in ModDirs \cup ModFiles
                            /\ tree[p] = IF p \in ModFiles THEN "file" ELSE "dir"
<1>1. PICK A \in SUBSET Paths : Anchored(cmd.name, A)
  BY TheCommand DEF Before, StoreInv, HoldInv
<1>2. \A p \in MyPaths : p \in A
  BY <1>1 DEF MyPaths, Mine, Anchored, Held
<1> QED
  BY <1>1, <1>2 DEF Anchored, Held

LEMMA StatStep ==
  ASSUME Before, StatRow
  PROVE  LET p == record_buf.path IN
         /\ pc = "stat" /\ p \in MyPaths /\ p \in Paths
         /\ \/ p \in ModDirs /\ p \notin ModFiles /\ ListDirectory(p)
            \/ p \in ModFiles /\ ListFile(p)
         /\ Goto("ask") /\ UNCHANGED dbVars
<1>1. pc = "stat" /\ record_buf.path \in MyPaths /\ record_buf.path \in Paths
  BY DEF StatRow, Before, TypeInv, ToRecord, StoreInv, AskInv, CalmInv, MyPaths
<1>2. ~Installing /\ ~Removing
  BY <1>1 DEF Installing, Removing
<1> QED
  BY <1>1, <1>2, RowIsThere, NoFaults DEF StatRow

LEMMA CalmInvStep ==
  ASSUME GoodMods, Before, [Next]_vars
  PROVE  CalmInv'
<1> USE DEF Goto, Loop, Answer, Advance, lists, request
<1>0. /\ CalmInv /\ tree \in [Paths -> Kinds] /\ mhwiroot' = mhwiroot
      /\ pc \in {"ask", "stat"} => current_op = "ASK"
      /\ pc \in {"execute", "check", "mkdir", "link", "add", "add_undo", "del"} => ~more_rows
      /\ pc \in {"check", "mkdir", "link", "add", "add_undo"} => cmd.op = "INSTALL"
      /\ pc # "idle" => cmd.op \in StoreOps
  BY TheCommand, Frame DEF Before, StoreInv, NoOpenSelect, TypeInv, ToRecord
<1>1. CASE Request
  <2>1. PICK c \in env.requests :
          /\ cmd' = c
          /\ interest_field' = IF c.op = "INSTALLED" THEN "NAME" ELSE "PATH"
    BY <1>1 DEF Request
  <2> QED
    BY <1>0, <1>1, <2>1 DEF Request, registerDBOperation, CalmInv, tree, NothingListed
<1>2. CASE FetchName \/ FetchPath
  <2>1. /\ pc = "ask" /\ executeDBOperation(FALSE)
        /\ UNCHANGED <<fs, request, undoing, failed>>
        /\ pc' = IF current_status' = "WORKING" THEN IF FetchName THEN "ask" ELSE "stat" ELSE "asked"
    <3>1. CASE FetchName
      <4>1. pc = "ask" /\ executeDBOperation(FALSE)
        BY <3>1, NoFaults DEF FetchName
      <4> QED
        BY <3>1, <4>1, FetchStep DEF FetchName
    <3>2. CASE FetchPath
      BY <1>0, <3>2, NoFaults DEF FetchPath, FetchName, CalmInv
    <3> QED
      BY <1>2, <3>1, <3>2
  <2>2. /\ table' = table
        /\ \/ current_status' = "WORKING" /\ more_rows'
           \/ current_status' = "IDLE" /\ ~more_rows' /\ sql_stmt' = NoStmt
    BY <2>1, FetchStep
  <2>3. tree' = tree /\ pc' \in {"ask", "stat", "asked"}
    BY <1>0, <2>1 DEF tree
  <2>4. pc' = "stat" => interest_field = "PATH"
    BY <1>2, <2>1, <2>2 DEF FetchPath
  <2>5. pc' = "stat" => more_rows'
    BY <2>1, <2>2
  <2> QED
    BY <1>0, <2>1, <2>2, <2>3, <2>4, <2>5 DEF CalmInv
<1>3. CASE StatRow
  <2>1. pc = "stat" /\ pc' = "ask" /\ UNCHANGED dbVars
    BY <1>3, StatStep
  <2>2. tree' = tree /\ UNCHANGED <<request, undoing, failed>>
    BY <1>0, <1>3 DEF StatRow, tree
  <2> QED
    BY <1>0, <2>1, <2>2 DEF CalmInv, dbVars
<1>4. CASE Asked
  <2>1. current_status # "ERROR" /\ ~more_rows /\ pc = "asked"
    BY <1>0, <1>4 DEF Asked, CalmInv
  <2> QED
    BY <1>0, <1>4, <2>1 DEF Asked, RoundFails, resetDB, registerDBOperation, CalmInv, tree
<1>5. CASE After
  BY <1>0, <1>5 DEF After, RoundFails, BeginUninstall, resetDB, registerDBOperation, CalmInv,
                    tree, Before, StoreInv, UninstallInv
<1>6. CASE Traverse \/ Check \/ MkdirsDone \/ RbUnlinksDone \/ RolledBack \/ AddsDone
           \/ BeginsUninstall \/ UnlinksDone \/ UninstallFails \/ Undone \/ Installed
  BY <1>0, <1>6
     DEF Traverse, Check, MkdirsDone, RbUnlinksDone, RollbackDirectories, RolledBack, AddsDone,
         BeginsUninstall, BeginUninstall, UnlinksDone, UninstallFails, Undone, Installed,
         CalmInv, dbVars, tree, StoreOps
<1>7. CASE Mkdir \/ Link \/ RbUnlink \/ RbRmdir
  BY <1>0, <1>7
     DEF Mkdir, RollbackDirectories, Link, RbUnlink, RbRmdir, CalmInv, dbVars
<1>8. CASE Unlink \/ Rmdir
  <2>1. UNCHANGED <<dbVars, request, lists, undoing, pc>> /\ pc \in {"unlink", "rmdir"}
    BY <1>8 DEF Unlink, Rmdir
  <2>2. cmd.op = "UNINSTALL" => ~failed'
    <3> SUFFICES ASSUME cmd.op = "UNINSTALL" PROVE failed' = failed /\ ~failed
      OBVIOUS
    <3>1. todo # <<>>
      BY <1>8 DEF Unlink, Rmdir
    <3>2. Head(todo) \in ToSet(todo)
      BY <2>1, <3>1, TodoIsMine
    <3>3. CASE Unlink
      <4>1. pc = "unlink" /\ Head(todo) \in MyPaths \cap ModFiles
        BY <3>2, <3>3 DEF Unlink, Before, StoreInv, UninstallInv
      <4>2. CanUnlink(Head(todo))
        BY <3>2, <4>1 DEF CanUnlink, Before, StoreInv, UninstallInv
      <4> QED
        BY <1>0, <3>3, <4>2, NoFaults DEF Unlink, CalmInv
    <3>4. CASE Rmdir
      <4>1. pc = "rmdir" /\ Head(todo) \in MyPaths \cap ModDirs
        BY <3>2, <3>4 DEF Rmdir, Before, StoreInv, UninstallInv
      <4>2. CanRmdir(Head(todo)) \/ NotEmpty(Head(todo))
        BY <3>2, <4>1 DEF CanRmdir, Before, StoreInv, UninstallInv
      <4> QED
        BY <1>0, <3>4, <4>2, NoFaults DEF Rmdir, CalmInv
    <3> QED
      BY <1>8, <3>3, <3>4
  <2> QED
    BY <1>0, <2>1, <2>2 DEF CalmInv, dbVars
<1>9. CASE LinksDone \/ FilesRemoved
  BY <1>0, <1>9 DEF LinksDone, FilesRemoved, registerDBOperation, CalmInv
<1>10. CASE Add \/ AddUndo \/ Del
  <2>1. /\ ~more_rows
        /\ pc \in {"add", "add_undo", "del"}
    BY <1>0, <1>10 DEF Add, AddUndo, Del, CalmInv, Before, TypeInv, ToRecord
  <2>2. PICK op, buf, fails : RegisterAndExecute(op, buf, fails) /\ op \in {"ADD", "DEL"}
    <3>1. CASE Add
      BY <3>1 DEF Add
    <3>2. CASE AddUndo
      BY <3>2 DEF AddUndo
    <3>3. CASE Del
      <4>1. current_op = "DEL"
        BY <3>3 DEF Del, Before, TypeInv, ToRecord
      <4> QED
        BY <3>3, <4>1 DEF Del, executeDBOperation
    <3> QED
      BY <1>10, <3>1, <3>2, <3>3
  <2>3. ~more_rows /\ sql_stmt = NoStmt
    BY <1>0, <2>1 DEF CalmInv
  <2>4. ~more_rows' /\ sql_stmt' = NoStmt
    BY <2>2, <2>3 DEF RegisterAndExecute, ResumeSelect, StartSelect, ExecuteNop, LacksValues,
                      Insert, Delete, Complete
  <2>5. /\ pc' \in {"add", "add_undo", "add_failed", "after"}
        /\ pc' = "add" => current_status' # "ERROR"
        /\ pc' \in {"add_undo", "add_failed"} => cmd.op = "INSTALL"
        /\ pc' = "after" => cmd.op = "UNINSTALL"
        /\ UNCHANGED <<fs, request, lists, undoing, failed>>
    BY <1>0, <1>10 DEF Add, AddUndo, Del, CalmInv
  <2> QED
    BY <1>0, <2>1, <2>4, <2>5 DEF CalmInv
<1>11. CASE AddFailed
  BY <1>0, <1>11 DEF AddFailed, chgDBStatus, CalmInv
<1>12. CASE Answered \/ Quit \/ Kill
  BY <1>0, <1>12 DEF Answered, Quit, Kill, ToIdle, Reopen, dbVars, CalmInv, NothingListed, NoCmd
<1>13. CASE Config
  BY <1>0, <1>13 DEF Config, dbVars, CalmInv, NothingListed, tree
<1>14. CASE UNCHANGED vars
  BY <1>0, <1>14 DEF vars, dbVars, CalmInv, NothingListed, tree
<1> QED
  BY <1>1, <1>2, <1>3, <1>4, <1>5, <1>6, <1>7, <1>8, <1>9, <1>10, <1>11, <1>12, <1>13, <1>14
     DEF Next, Command

LEMMA ListsKept ==
  ASSUME NEW S, AreListed(S), UNCHANGED lists, SeenPaths' = S
  PROVE  AreListed(SeenPaths)'
BY DEF AreListed, lists

LEMMA AskInvStep ==
  ASSUME GoodMods, Before, [Next]_vars
  PROVE  AskInv'
<1> USE DEF Goto, Loop, Answer, Advance, request
<1>0. /\ AskInv /\ CalmInv /\ RowsInv /\ IdsInv
      /\ regular_file_list \in Seq(Paths) /\ directory_list \in Seq(Paths \cup Names)
      /\ record_buf \in Record
      /\ \A row \in table : row.id \in Nat /\ row.id > 0
  BY DEF Before, StoreInv, TypeInv, StoreTypes, DbTypes, IdsInv, Rows
<1>1. CASE Request
  <2>1. PICK c \in env.requests :
          /\ cmd' = c
          /\ registerDBOperation("ASK",
               IF c.op = "INSTALLED" THEN ZeroRecord ELSE NameOnly(c.name))
          /\ interest_field' = IF c.op = "INSTALLED" THEN "NAME" ELSE "PATH"
    BY <1>1 DEF Request
  <2>2. pc = "idle" /\ pc' = "ask" /\ UNCHANGED lists
    BY <1>1 DEF Request
  <2>3. sql_stmt.at = 0 /\ ~more_rows /\ NothingListed /\ UNCHANGED <<sql_stmt, more_rows>>
    BY <1>0, <2>1, <2>2 DEF CalmInv, NoStmt, registerDBOperation
  <2>4. SeenPaths' = {}
    <3>1. table' = table /\ sql_stmt'.at = 0
      BY <2>1, <2>3 DEF registerDBOperation
    <3>2. Seen' = {}
      BY <1>0, <2>2, <3>1 DEF Seen, Mine
    <3> QED
      BY <3>2 DEF SeenPaths
  <2>5. AreListed(SeenPaths)'
    <3>1. AreListed({})
      BY <2>3, ListEmpty DEF AreListed, NothingListed
    <3> QED
      BY <2>2, <2>4, <3>1, ListsKept
  <2>6. interest_field' = "PATH" =>
          record_buf'.set = {"name"} /\ record_buf'.name = cmd'.name /\ ~more_rows'
    BY <2>1, <2>3 DEF registerDBOperation, NameOnly
  <2> QED
    BY <2>2, <2>5, <2>6 DEF AskInv
<1>2. CASE FetchPath
  <2>1. /\ pc = "ask" /\ interest_field = "PATH" /\ executeDBOperation(FALSE)
        /\ pc' = IF current_status' = "WORKING" THEN "stat" ELSE "asked"
        /\ UNCHANGED <<fs, request, lists>>
    BY <1>2, NoFaults DEF FetchPath
  <2>2. /\ record_buf.set = {"name"} /\ record_buf.name = cmd.name /\ Where = {"name"}
        /\ AreListed(SeenPaths) /\ cmd' = cmd /\ interest_field' = "PATH"
    BY <1>0, <2>1 DEF AskInv, Where
  <2>3. \A row \in table : Wanted(row) <=> row.name = cmd.name /\ row.id > sql_stmt.at
    BY <2>2 DEF Wanted, Matches
  <2>5. sql_stmt.at \in Nat
    BY DEF Before, TypeInv, DbTypes
  <2>6. CASE current_status' = "WORKING"
    <3>1. PICK row \in table :
            /\ Wanted(row) /\ \A other \in table : Wanted(other) => row.id <= other.id
            /\ sql_stmt' = [where |-> Where, at |-> row.id]
            /\ record_buf' = [record_buf EXCEPT !.name = row.name, !.path = row.path]
            /\ table' = table
      BY <2>1, <2>6, FetchStep
    <3>2. row.name = cmd.name /\ sql_stmt'.at = row.id /\ sql_stmt'.where = {"name"}
      BY <2>2, <2>3, <3>1
    <3>3. record_buf'.set = {"name"} /\ record_buf'.name = cmd.name /\ record_buf'.path = row.path
      BY <1>0, <2>2, <3>1, <3>2 DEF Record
    <3>4. \A r \in Mine : r.id <= sql_stmt.at <=> r.id < row.id
      BY <1>0, <2>3, <2>5, <3>1 DEF Mine
    <3>5. SeenPaths' = SeenPaths
      <4>1. Seen = {r \in Mine : r.id <= sql_stmt.at} /\ Seen' = {r \in Mine : r.id < row.id}
        BY <2>1, <2>2, <2>6, <3>1, <3>2 DEF Seen, Mine
      <4>2. Seen' = Seen
        BY <3>4, <4>1
      <4> QED
        BY <4>2 DEF SeenPaths
    <3>6. AreListed(SeenPaths)'
      BY <2>1, <2>2, <3>5, ListsKept
    <3>7. row \in Mine' /\ row.id = sql_stmt'.at /\ row.path = record_buf'.path
      BY <2>2, <3>1, <3>2, <3>3 DEF Mine
    <3> QED
      BY <2>1, <2>2, <2>6, <3>2, <3>3, <3>6, <3>7 DEF AskInv
  <2>7. CASE current_status' # "WORKING"
    <3>1. table' = table /\ \A row \in table : ~Wanted(row)
      BY <2>1, <2>7, FetchStep
    <3>2. SeenPaths' = SeenPaths
      <4>1. Seen = {r \in Mine : r.id <= sql_stmt.at} /\ Seen' = Mine
        BY <2>1, <2>2, <2>7, <3>1 DEF Seen, Mine
      <4>2. \A r \in Mine : r.id <= sql_stmt.at
        BY <1>0, <2>3, <2>5, <3>1 DEF Mine
      <4>3. Seen' = Seen
        BY <4>1, <4>2
      <4> QED
        BY <4>3 DEF SeenPaths
    <3>3. AreListed(SeenPaths)'
      BY <2>1, <2>2, <3>2, ListsKept
    <3> QED
      BY <2>1, <2>7, <3>3 DEF AskInv
  <2> QED
    BY <2>6, <2>7
<1>3. CASE StatRow
  <2> DEFINE p == record_buf.path
  <2>1. /\ pc = "stat" /\ pc' = "ask" /\ UNCHANGED dbVars /\ UNCHANGED <<fs, request>>
        /\ \/ p \in ModDirs /\ p \notin ModFiles /\ ListDirectory(p)
           \/ p \in ModFiles /\ p \notin ModDirs /\ ListFile(p)
    BY <1>3, StatStep DEF StatRow, GoodMods, ModsAgree
  <2>2. /\ interest_field = "PATH" /\ AreListed(SeenPaths) /\ more_rows
        /\ record_buf.set = {"name"} /\ record_buf.name = cmd.name /\ sql_stmt.where = {"name"}
    BY <1>0, <2>1 DEF AskInv, CalmInv
  <2>3. PICK row \in Mine : row.id = sql_stmt.at /\ row.path = p
    BY <1>0, <2>1 DEF AskInv
  <2>4. Seen = {r \in Mine : r.id < row.id} /\ Seen' = {r \in Mine : r.id <= row.id}
    BY <2>1, <2>3 DEF Seen, Mine, dbVars
  <2>5. \A r \in Mine : r.id <= row.id <=> r.id < row.id \/ r = row
    BY <1>0, <2>3 DEF Mine, IdsInv
  <2>6. Seen' = Seen \cup {row}
    BY <1>0, <2>3, <2>4, <2>5 DEF Mine
  <2>7. SeenPaths' = SeenPaths \cup {p}
    BY <2>3, <2>6 DEF SeenPaths
  <2>8. p \notin SeenPaths
    <3>1. \A r \in Seen : r.path # p
      BY <1>0, <2>3, <2>4 DEF Mine, RowsInv
    <3> QED
      BY <3>1 DEF SeenPaths
  <2>9. \A q \in SeenPaths : Parent[q] # p
    <3>1. \A r \in Seen : Parent[r.path] # p
      BY <1>0, <2>3, <2>4 DEF Mine, RowsInv
    <3> QED
      BY <3>1 DEF SeenPaths
  <2>10. AreListed(SeenPaths)'
    <3>1. CASE ListDirectory(p) /\ p \in ModDirs /\ p \notin ModFiles
      <4>1. directory_list' = <<p>> \o directory_list /\ regular_file_list' = regular_file_list
        BY <3>1 DEF ListDirectory
      <4>2. /\ ToSet(directory_list') = ToSet(directory_list) \cup {p}
            /\ IsInjective(directory_list') /\ ChildrenFirst(directory_list')
        BY <1>0, <2>2, <2>8, <2>9, <4>1, ListFront DEF AreListed
      <4> QED
        BY <2>2, <2>7, <3>1, <4>1, <4>2 DEF AreListed
    <3>2. CASE ListFile(p) /\ p \in ModFiles /\ p \notin ModDirs
      <4>1. regular_file_list' = <<p>> \o regular_file_list /\ directory_list' = directory_list
        BY <3>2 DEF ListFile
      <4>2. /\ ToSet(regular_file_list') = ToSet(regular_file_list) \cup {p}
            /\ IsInjective(regular_file_list')
        BY <1>0, <2>2, <2>8, <4>1, ListFront DEF AreListed
      <4> QED
        BY <2>2, <2>7, <3>2, <4>1, <4>2 DEF AreListed
    <3> QED
      BY <2>1, <3>1, <3>2
  <2> QED
    BY <2>1, <2>2, <2>10 DEF AskInv, dbVars
<1>4. CASE Asked \/ BeginsUninstall \/ Unlink \/ UnlinksDone \/ Rmdir
  <2>1. UNCHANGED <<table, lists, request>>
    BY <1>4 DEF Asked, BeginsUninstall, Unlink, UnlinksDone, Rmdir, resetDB,
                registerDBOperation, dbVars
  <2>2. \/ pc = "asked" /\ pc' \in {"execute", "reply"}
        \/ pc \in {"execute", "unlink", "rmdir"} /\ pc' \in {"unlink", "rmdir", "reply"}
    BY <1>0, <1>4 DEF Asked, BeginsUninstall, BeginUninstall, Unlink, UnlinksDone, Rmdir,
                      RoundFails, CalmInv
  <2>3. Seen' = Mine /\ Seen = Mine
    BY <2>1, <2>2 DEF Seen, Mine
  <2>4. cmd' = cmd /\ (pc = "asked" /\ cmd.op = "UNINSTALL" => interest_field = "PATH")
    BY <1>0, <2>1 DEF CalmInv
  <2>5. cmd.op = "UNINSTALL" => AreListed(SeenPaths)
    BY <1>0, <2>2, <2>4 DEF AskInv
  <2>6. AreListed(SeenPaths) => AreListed(SeenPaths)'
    BY <2>1, <2>3, ListsKept DEF SeenPaths
  <2> QED
    BY <2>2, <2>4, <2>5, <2>6 DEF AskInv
<1>5. CASE FetchName
  <2>1. pc' \in {"ask", "asked"} /\ interest_field' = "NAME"
    BY <1>5 DEF FetchName
  <2> QED
    BY <2>1 DEF AskInv
<1>6. CASE Traverse \/ Check \/ Mkdir \/ MkdirsDone \/ Link \/ LinksDone \/ RbUnlink
           \/ RbUnlinksDone \/ RbRmdir \/ RolledBack \/ Add \/ AddsDone \/ AddUndo \/ AddFailed
           \/ After \/ UninstallFails \/ Undone \/ FilesRemoved \/ Del \/ Installed
  <2>1. pc' \notin {"ask", "stat", "asked", "execute"}
        /\ (pc' \in {"unlink", "rmdir"} => cmd'.op = "INSTALL")
    <3>1. CASE After
      BY <3>1 DEF After, RoundFails, BeginUninstall
    <3> QED
      BY <1>6, <3>1
         DEF Traverse, Check, Mkdir, MkdirsDone, Link, LinksDone, RbUnlink, RbUnlinksDone,
             RbRmdir, RolledBack, RollbackDirectories, Add, AddsDone, AddUndo, AddFailed,
             UninstallFails, Undone, FilesRemoved, Del, Installed
  <2> QED
    BY <2>1 DEF AskInv
<1>7. CASE Answered \/ Quit \/ Kill \/ Config
  <2>1. pc' = "idle"
    BY <1>7 DEF Answered, Quit, Kill, ToIdle, Config
  <2> QED
    BY <2>1 DEF AskInv
<1>8. CASE UNCHANGED vars
  BY <1>0, <1>8 DEF vars, lists, dbVars, AskInv, AreListed, SeenPaths, Seen, Mine
<1> QED
  BY <1>1, <1>2, <1>3, <1>4, <1>5, <1>6, <1>7, <1>8 DEF Next, Command

-------------------------------------------------------------------------------
(* INSTALL.                                                                *)

LEMMA MyMod ==
  ASSUME GoodMods, Before, pc # "idle"
  PROVE  /\ MyDirs \subseteq ModDirs \cap Paths /\ MyFiles \subseteq ModFiles \cap Paths
         /\ MyDirs \cap MyFiles = {} /\ MyDirs \cap ModFiles = {} /\ MyFiles \cap ModDirs = {}
         /\ \A p \in MyDirs : tree[p] \in {"none", "dir"} /\ Parent[p] # p
<1>1. cmd.dir \in Dirs
  BY TheCommand
<1>2. MyDirs \subseteq ModDirs \cap Paths /\ MyFiles \subseteq ModFiles \cap Paths
  BY <1>1, ModsAreListed DEF MyDirs, MyFiles
<1>3. \A p \in MyDirs : Parent[p] # p
  BY <1>1, ModsAreTidy DEF MyDirs, GoodMods
<1>4. \A p \in MyDirs : tree[p] \in {"none", "dir"}
  BY <1>2 DEF Before, StoreInv, TreeInv, IsTreeOf, Kinds
<1> QED
  BY <1>2, <1>3, <1>4 DEF GoodMods, ModsAgree

\* An INSTALL goes ahead if nothing is on record for the mod.
LEMMA NothingOnRecord ==
  ASSUME Before, pc = "asked", interest_field = "PATH", NothingListed
  PROVE  Mine = {}
<1>1. AreListed(SeenPaths) /\ Seen = Mine
  BY DEF Before, StoreInv, AskInv, Seen
<1>2. SeenPaths \cap ModFiles = {} /\ SeenPaths \cap ModDirs = {}
  BY <1>1, ListEmpty DEF AreListed, NothingListed
<1>3. \A row \in Mine : row.path \in SeenPaths /\ row.path \in ModDirs \cup ModFiles
  BY <1>1 DEF SeenPaths, Mine, Before, StoreInv, RowsInv
<1> QED
  BY <1>2, <1>3

LEMMA InstallFrameStep ==
  ASSUME GoodMods, Before, [Next]_vars
  PROVE  InstallFrame'
<1>0. InstallFrame /\ CalmInv
  BY DEF Before, StoreInv
<1>1. ASSUME Installing' \/ pc' = "check"
      PROVE  /\ regular_file_list' = Listing[cmd'.dir].files
             /\ pc' # "rb_rmdir" => directory_list' = Listing[cmd'.dir].dirs
  <2>1. CASE Installing' /\ Installing
    BY <1>0, <2>1, InstallGoesOn DEF InstallFrame
  <2>2. CASE Installing' /\ ~Installing
    <3>1. /\ pc = "check" /\ UNCHANGED <<regular_file_list, directory_list>>
          /\ cmd' = cmd
      BY <2>2, InstallBegins DEF Check, lists, request
    <3> QED
      BY <1>0, <3>1 DEF InstallFrame
  <2>3. CASE pc' = "check"
    <3>1. CASE Traverse
      BY <2>3, <3>1, Frame DEF Traverse, Answer, request
    <3>2. CASE UNCHANGED vars
      BY <1>0, <2>3, <3>2 DEF vars, lists, request, InstallFrame
    <3>3. CASE ~Traverse /\ ~UNCHANGED vars
      <4>1. pc # "check"
        BY <1>0, <2>3, <3>3
           DEF Next, Request, Config, Kill, Quit, ToIdle, Goto, Loop, Answer, Advance, CalmInv,
               Command, FetchName, FetchPath, StatRow, Asked, Check, Mkdir, MkdirsDone,
               Link, LinksDone, RbUnlink, RbUnlinksDone, RbRmdir, RolledBack, Add, AddsDone,
               AddUndo, AddFailed, After, RoundFails, BeginsUninstall, BeginUninstall, Unlink,
               UnlinksDone, Rmdir, UninstallFails, Undone, FilesRemoved, Del, Installed, Answered
      <4> QED
        BY <1>0, <2>3, <3>3, <4>1
           DEF Next, Request, Config, Kill, Quit, ToIdle, Goto, Loop, Answer, Advance, CalmInv,
               RollbackDirectories,
               Command, FetchName, FetchPath, StatRow, Asked, Check, Mkdir, MkdirsDone,
               Link, LinksDone, RbUnlink, RbUnlinksDone, RbRmdir, RolledBack, Add, AddsDone,
               AddUndo, AddFailed, After, RoundFails, BeginsUninstall, BeginUninstall, Unlink,
               UnlinksDone, Rmdir, UninstallFails, Undone, FilesRemoved, Del, Installed, Answered
    <3> QED
      BY <3>1, <3>2, <3>3
  <2> QED
    BY <1>1, <2>1, <2>2, <2>3
<1>2. ASSUME Installing'
      PROVE  /\ \A p \in Paths \ (MyDirs' \cup MyFiles') : tree'[p] = start'.tree[p]
             /\ \A p \in MyFiles' : start'.tree[p] = "none" /\ tree'[p] \in {"none", "file"}
  <2>1. /\ pc # "idle" /\ pc' # "idle" /\ cmd' = cmd /\ start' = start
        /\ MyDirs' = MyDirs /\ MyFiles' = MyFiles
    BY <1>2, Frame DEF Installing, MyDirs, MyFiles
  <2>2. CASE ~Installing
    <3>1. pc = "check" /\ cmd.op = "INSTALL" /\ ~Conflict /\ tree' = tree
      BY <1>2, <2>2, InstallBegins
    <3>2. start.tree = tree /\ regular_file_list = Listing[cmd.dir].files
      BY <1>0, <3>1 DEF CalmInv, InstallFrame
    <3>3. \A p \in MyFiles : tree[p] = "none"
      BY <3>1, <3>2 DEF Conflict, ToSet, MyFiles
    <3> QED
      BY <2>1, <3>1, <3>2, <3>3
  <2>3. CASE Installing /\ tree' = tree
    BY <1>0, <2>1, <2>3 DEF InstallFrame
  <2>4. CASE Installing /\ (Creates \/ Unlinks \/ Rmdirs)
    <3> DEFINE p == Head(todo)
    <3>1. PICK kind \in Kinds :
            /\ tree' = [tree EXCEPT ![p] = kind] /\ todo # <<>>
            /\ pc \in {"mkdir", "link", "rb_unlink", "rb_rmdir", "unlink", "rmdir"}
            /\ kind = "dir" => pc = "mkdir"
      BY <2>4 DEF Creates, Unlinks, Rmdirs, Puts, Kinds
    <3>2. /\ p \in MyDirs \cup MyFiles /\ p \in ToSet(todo) /\ p \in Paths
          /\ pc = "mkdir" => p \in MyDirs
      BY <2>4, <3>1, TodoIsMine DEF Before, StoreInv, InstallLoops, Installing
    <3>3. p \in MyFiles => kind \in {"none", "file"}
      BY <2>1, <3>1, <3>2, MyMod DEF Kinds
    <3>4. \A q \in Paths : tree'[q] = IF q = p THEN kind ELSE tree[q]
      BY <3>1, Frame
    <3>5. MyFiles \subseteq Paths
      BY <2>1, MyMod
    <3> HIDE DEF p
    <3> QED
      BY <1>0, <2>1, <2>4, <3>2, <3>3, <3>4, <3>5 DEF InstallFrame
  <2> QED
    BY <2>2, <2>3, <2>4, TreeStep
<1>3. ASSUME cmd'.op = "INSTALL",
             pc' \notin {"ask", "stat", "asked", "add", "add_undo", "after", "reply"}
      PROVE  Mine' = {}
  <2>1. CASE Request \/ Kill \/ Quit \/ Answered
    BY <1>3, <2>1 DEF Request, Goto, Kill, Quit, Answered, ToIdle, NoCmd
  <2>2. CASE Config \/ UNCHANGED vars
    BY <1>0, <1>3, <2>2 DEF Config, vars, request, dbVars, InstallFrame, Mine
  <2>3. CASE Command /\ ~Answered
    <3>1. cmd' = cmd
      BY <2>3
         DEF request,
             Command, FetchName, FetchPath, StatRow, Asked, Traverse, Check, Mkdir, MkdirsDone,
             Link, LinksDone, RbUnlink, RbUnlinksDone, RbRmdir, RolledBack, Add, AddsDone,
             AddUndo, AddFailed, After, BeginsUninstall, Unlink, UnlinksDone, Rmdir,
             UninstallFails, Undone, FilesRemoved, Del, Installed
    <3>2. CASE Inserts
      BY <1>3, <3>2 DEF Inserts
    <3>3. CASE Deletes
      BY <3>1, <3>3 DEF Deletes, Mine
    <3>4. CASE table' = table /\ Asked
      <4>1. pc = "asked" /\ interest_field = "PATH" /\ NothingListed
        BY <1>0, <1>3, <3>1, <3>4 DEF Asked, RoundFails, CalmInv, Answer
      <4> QED
        BY <3>1, <3>4, <4>1, NothingOnRecord DEF Mine
    <3>5. CASE table' = table /\ After
      <4>1. pc = "after" /\ current_status = "ERROR"
        BY <1>3, <3>5 DEF After, RoundFails, Answer
      <4> QED
        BY <1>3, <3>1, <3>5, <4>1 DEF Before, StoreInv, AddInv, Mine
    <3>6. CASE table' = table /\ AddUndo
      <4> DEFINE buf == [record_buf EXCEPT !.set = {"name"}]
      <4>1. /\ ~more_rows /\ record_buf.name = cmd.name /\ record_buf \in Record
            /\ RegisterAndExecute("DEL", buf, FALSE)
        BY <1>3, <3>1, <3>6, NoFaults
           DEF AddUndo, Before, NoOpenSelect, TypeInv, DbTypes, StoreInv, AddInv
      <4>2. buf.set = {"name"} /\ buf.name = cmd.name
        BY <4>1 DEF Record
      <4>3. table' = table \ Mine
        <5> HIDE DEF buf
        <5> QED
          BY <4>1, <4>2, DelStep
      <4> QED
        BY <3>1, <3>6, <4>3 DEF Mine
    <3>7. CASE table' = table /\ ~(Asked \/ After \/ AddUndo)
      <4>1. Mine = {}
        BY <1>0, <1>3, <2>3, <3>1, <3>7
           DEF InstallFrame, Goto, Loop, Answer, Advance,
               Command, FetchName, FetchPath, StatRow, Traverse, Check, Mkdir, MkdirsDone,
               Link, LinksDone, RbUnlink, RbUnlinksDone, RbRmdir, RolledBack, Add, AddsDone,
               AddFailed, BeginsUninstall, BeginUninstall, Unlink, UnlinksDone, Rmdir,
               UninstallFails, Undone, FilesRemoved, Del, Installed
      <4> QED
        BY <3>1, <3>7, <4>1 DEF Mine
    <3> QED
      BY <3>2, <3>3, <3>4, <3>5, <3>6, <3>7, TableStep
  <2> QED
    BY <2>1, <2>2, <2>3 DEF Next
<1> QED
  BY <1>1, <1>2, <1>3 DEF InstallFrame

\* The loops of install, its rollback and its undo.
LEMMA LoopStep ==
  ASSUME Before, todo # <<>>
  PROVE  /\ Head(todo) \in ToSet(todo) /\ ToSet(Tail(todo)) \subseteq ToSet(todo)
         /\ \A x \in ToSet(todo) : x = Head(todo) \/ x \in ToSet(Tail(todo))
         /\ IsInjective(todo) => IsInjective(Tail(todo)) /\ Head(todo) \notin ToSet(Tail(todo))
         /\ ChildrenFirst(todo) =>
              /\ ChildrenFirst(Tail(todo))
              /\ \A q \in ToSet(Tail(todo)) : Parent[q] # Head(todo)
BY ListTail DEF Before, TypeInv, StoreTypes

\* The rollback begins: the directories in the reverse order.
LEMMA RollbackStep ==
  ASSUME GoodMods, Before, Installing, pc # "rb_rmdir", RollbackDirectories
  PROVE  ToSet(todo') = MyDirs /\ ChildrenFirst(todo') /\ pc' = "rb_rmdir"
<1>1. directory_list = Listing[cmd.dir].dirs /\ cmd.dir \in Dirs
  BY TheCommand DEF Before, StoreInv, InstallFrame, Installing
<1>2. directory_list \in Seq(Paths) /\ ParentsFirst(directory_list)
  BY <1>1, ModsAreListed, ModsAreTidy DEF GoodMods
<1> QED
  BY <1>1, <1>2, ListReverse DEF RollbackDirectories, Loop, MyDirs

\* A directory that the rollback leaves was there, or holds what was.
LEMMA RollbackLeaves ==
  ASSUME GoodMods, Before, RbRmdir, cmd.op = "INSTALL",
         tree'[Head(todo)] = "dir"
  PROVE  start.tree[Head(todo)] = "dir"
<1> DEFINE p == Head(todo)
<1>1. pc = "rb_rmdir" /\ todo # <<>> /\ Installing
  BY DEF RbRmdir, Installing
<1>2. /\ p \in ToSet(todo) /\ p \in MyDirs /\ p \in Paths /\ ChildrenFirst(todo)
      /\ \A q \in MyFiles : tree[q] = "none"
      /\ \A q \in MyDirs : tree[q] = "dir" /\ start.tree[q] # "dir" => q \in ToSet(todo)
      /\ ToSet(todo) \subseteq MyDirs
  BY <1>1, TodoIsMine DEF Before, StoreInv, InstallLoops
<1>3. tree[p] = "dir" /\ NotEmpty(p)
  <2>1. [Next]_vars
    BY DEF Next, Command
  <2>2. CASE UNCHANGED fs /\ ~CanRmdir(p)
    BY <2>1, <2>2, Frame DEF tree, CanRmdir
  <2>3. CASE Put(p, "none")
    <3>1. tree' = [tree EXCEPT ![p] = "none"]
      BY <2>1, <2>3, Frame DEF Put, tree, Before, TypeInv, StoreTypes
    <3> QED
      BY <1>2, <2>1, <3>1, Frame
  <2> QED
    BY <2>2, <2>3, NoFaults DEF RbRmdir
<1>4. PICK q \in Paths : Parent[q] = p /\ tree[q] # "none"
  BY <1>3 DEF NotEmpty
<1>5. start.tree[q] # "none"
  <2>1. CASE q \notin MyDirs \cup MyFiles
    BY <1>1, <1>4, <2>1 DEF Before, StoreInv, InstallFrame
  <2>2. CASE q \in MyFiles
    BY <1>2, <1>4, <2>2
  <2>3. CASE q \in MyDirs
    <3>1. tree[q] = "dir" /\ q # p
      BY <1>1, <1>4, <2>3, MyMod
    <3>2. q \notin ToSet(todo)
      BY <1>1, <1>2, <1>4, <3>1, LoopStep
    <3> QED
      BY <1>2, <2>3, <3>1, <3>2
  <2> QED
    BY <2>1, <2>2, <2>3
<1>6. IsTreeOf(start.tree)
  BY <1>1 DEF Before, StoreInv, TreeInv
<1> QED
  BY <1>2, <1>4, <1>5, <1>6, StoreAssumption DEF IsTreeOf

LEMMA InstallLoopsStep ==
  ASSUME GoodMods, Before, [Next]_vars
  PROVE  InstallLoops'
<1> USE DEF Goto, Loop, Answer, Advance
<1> SUFFICES ASSUME cmd'.op = "INSTALL",
                    pc' \in {"mkdir", "link", "add", "add_undo", "add_failed", "after",
                             "rb_unlink", "unlink", "rb_rmdir", "rmdir"}
             PROVE  InstallLoops'
  BY DEF InstallLoops
<1> DEFINE p == Head(todo)
<1>1. /\ pc # "idle" /\ UNCHANGED <<cmd, start>> /\ cmd.op = "INSTALL" /\ cmd.dir \in Dirs
      /\ MyDirs' = MyDirs /\ MyFiles' = MyFiles
  BY Frame, TheCommand DEF MyDirs, MyFiles
<1>2. /\ InstallLoops /\ InstallFrame /\ CalmInv
      /\ tree \in [Paths -> Kinds] /\ mhwiroot' = mhwiroot /\ (UNCHANGED fs => tree' = tree)
  BY Frame DEF Before, StoreInv, tree
<1>3. /\ MyDirs \subseteq Paths /\ MyFiles \subseteq Paths /\ MyDirs \cap MyFiles = {}
      /\ \A q \in MyDirs : tree[q] \in {"none", "dir"} /\ Parent[q] # q
  BY <1>1, MyMod
<1>4. todo # <<>> /\ pc \in {"mkdir", "link", "rb_unlink", "rb_rmdir", "unlink", "rmdir"} =>
        p \in Paths /\ p \in MyDirs \cup MyFiles
  BY <1>1, TodoIsMine
<1>5. ASSUME NEW kind, Put(p, kind), p \in Paths
      PROVE  \A q \in Paths : tree'[q] = IF q = p THEN kind ELSE tree[q]
  <2>1. tree' = [tree EXCEPT ![p] = kind]
    BY <1>2, <1>5, Frame DEF Put, tree, Before, TypeInv, StoreTypes
  <2> QED
    BY <1>2, <2>1
<1>6. /\ MyPaths = {} => MyPaths \subseteq MyDirs \cup MyFiles
      /\ \A s \in Seq(Paths \cup Names) : s = <<>> => ToSet(s) = {}
  BY ListEmpty
<1>7. todo \in Seq(Paths \cup Names)
  BY DEF Before, TypeInv, StoreTypes
<1>8. CASE Check
  <2>1. pc = "check" /\ pc' = "mkdir" /\ todo' = directory_list /\ ~Conflict /\ tree' = tree
    <3>1. "stat" \notin env.faults
      BY DEF Before, Calm
    <3> QED
      BY <1>2, <1>8, <3>1 DEF Check
  <2>2. directory_list = Listing[cmd.dir].dirs /\ regular_file_list = Listing[cmd.dir].files
    BY <1>2, <2>1 DEF InstallFrame
  <2>3. \A q \in MyFiles : tree[q] = "none"
    BY <2>1, <2>2 DEF Conflict, ToSet, MyFiles
  <2>4. ToSet(todo') = MyDirs
    BY <2>1, <2>2 DEF MyDirs
  <2> QED
    BY <1>1, <2>1, <2>3, <2>4 DEF InstallLoops
<1>9. CASE Mkdir
  <2>1. pc = "mkdir" /\ todo # <<>> /\ Installing /\ p \in MyDirs /\ p \in ToSet(todo)
    BY <1>1, <1>2, <1>9, LoopStep DEF Mkdir, Installing, InstallLoops
  <2>2. CASE RollbackDirectories /\ UNCHANGED fs
    <3>1. ToSet(todo') = MyDirs /\ ChildrenFirst(todo') /\ pc' = "rb_rmdir" /\ tree' = tree
      BY <1>2, <2>1, <2>2, RollbackStep
    <3> QED
      BY <1>1, <1>2, <2>1, <3>1 DEF InstallLoops
  <2>3. CASE tree[p] # "none" /\ UNCHANGED fs /\ Advance
    <3>1. tree[p] = "dir" /\ tree' = tree /\ pc' = "mkdir" /\ todo' = Tail(todo)
      BY <1>2, <1>3, <2>1, <2>3
    <3> HIDE DEF p
    <3> QED
      BY <1>1, <1>2, <2>1, <3>1, LoopStep DEF InstallLoops, p
  <2>4. CASE Put(p, "dir") /\ Advance
    <3>1. /\ \A q \in Paths : tree'[q] = IF q = p THEN "dir" ELSE tree[q]
          /\ pc' = "mkdir" /\ todo' = Tail(todo)
      BY <1>4, <1>5, <2>1, <2>4
    <3>2. ToSet(todo') \subseteq ToSet(todo) /\ \A x \in ToSet(todo) : x = p \/ x \in ToSet(todo')
      BY <2>1, <3>1, LoopStep
    <3> HIDE DEF p
    <3> QED
      BY <1>1, <1>2, <1>3, <2>1, <3>1, <3>2 DEF InstallLoops
  <2> QED
    BY <1>9, <2>2, <2>3, <2>4 DEF Mkdir
<1>10. CASE MkdirsDone
  <2>1. pc = "mkdir" /\ todo = <<>> /\ pc' = "link" /\ todo' = regular_file_list /\ tree' = tree
    BY <1>2, <1>10 DEF MkdirsDone
  <2>2. ToSet(todo) = {} /\ ToSet(todo') = MyFiles
    BY <1>1, <1>2, <1>6, <1>7, <2>1 DEF InstallFrame, Installing, MyFiles
  <2> QED
    BY <1>1, <1>2, <2>1, <2>2 DEF InstallLoops
<1>11. CASE Link
  <2>1. pc = "link" /\ todo # <<>> /\ Installing /\ p \in MyFiles /\ p \in ToSet(todo)
    BY <1>1, <1>2, <1>11, LoopStep DEF Link, Installing, InstallLoops
  <2>2. CASE Put(p, "file") /\ Advance
    <3>1. /\ \A q \in Paths : tree'[q] = IF q = p THEN "file" ELSE tree[q]
          /\ pc' = "link" /\ todo' = Tail(todo)
      BY <1>4, <1>5, <2>1, <2>2
    <3>2. ToSet(todo') \subseteq ToSet(todo) /\ \A x \in ToSet(todo) : x = p \/ x \in ToSet(todo')
      BY <2>1, <3>1, LoopStep
    <3> HIDE DEF p
    <3> QED
      BY <1>1, <1>2, <1>3, <2>1, <3>1, <3>2 DEF InstallLoops
  <2>3. CASE Loop("rb_unlink", regular_file_list) /\ UNCHANGED fs
    <3>1. pc' = "rb_unlink" /\ ToSet(todo') = MyFiles /\ tree' = tree
      BY <1>2, <2>1, <2>3 DEF InstallFrame, MyFiles
    <3> QED
      BY <1>1, <3>1 DEF InstallLoops
  <2> QED
    BY <1>11, <2>2, <2>3 DEF Link
<1>12. CASE LinksDone
  <2>1. pc = "link" /\ todo = <<>> /\ pc' = "add" /\ tree' = tree /\ table' = table
    BY <1>2, <1>12 DEF LinksDone, registerDBOperation
  <2>2. ToSet(todo) = {} /\ MyPaths' = {}
    BY <1>1, <1>2, <1>6, <1>7, <2>1 DEF InstallFrame, MyPaths, Mine
  <2> QED
    BY <1>1, <1>2, <2>1, <2>2 DEF InstallLoops
<1>13. CASE RbUnlink \/ Unlink
  <2>1. /\ pc \in {"rb_unlink", "unlink"} /\ pc' = pc /\ todo # <<>> /\ todo' = Tail(todo)
        /\ p \in MyFiles /\ p \in ToSet(todo)
    BY <1>1, <1>2, <1>13, LoopStep DEF RbUnlink, Unlink, InstallLoops
  <2>2. ToSet(todo') \subseteq ToSet(todo) /\ \A x \in ToSet(todo) : x = p \/ x \in ToSet(todo')
    BY <2>1, LoopStep
  <2>3. \A q \in MyFiles : tree'[q] = "file" => tree[q] = "file" /\ q # p
    <3>1. CASE Put(p, "none")
      BY <1>3, <1>5, <2>1, <3>1
    <3>2. CASE ~CanUnlink(p) /\ UNCHANGED fs
      BY <1>2, <3>2 DEF CanUnlink
    <3> QED
      BY <1>13, <3>1, <3>2, NoFaults DEF RbUnlink, Unlink
  <2> HIDE DEF p
  <2> QED
    BY <1>1, <1>2, <2>1, <2>2, <2>3 DEF InstallLoops
<1>14. CASE RbUnlinksDone \/ UnlinksDone
  <2>1. /\ pc \in {"rb_unlink", "unlink"} /\ todo = <<>> /\ tree' = tree /\ Installing
        /\ pc' = IF pc = "unlink" THEN "rmdir" ELSE "rb_rmdir"
    BY <1>1, <1>2, <1>14 DEF RbUnlinksDone, UnlinksDone, RollbackDirectories, Installing
  <2>2. ToSet(todo) = {}
    BY <1>6, <1>7, <2>1
  <2>3. \A q \in MyFiles : tree[q] = "none"
    BY <1>1, <1>2, <2>1, <2>2 DEF InstallLoops, InstallFrame
  <2>4. ToSet(todo') = MyDirs /\ (pc' = "rb_rmdir" => ChildrenFirst(todo'))
    <3>1. CASE RbUnlinksDone
      BY <2>1, <3>1, RollbackStep DEF RbUnlinksDone
    <3>2. CASE UnlinksDone
      BY <1>2, <2>1, <3>2 DEF UnlinksDone, InstallFrame, MyDirs
    <3> QED
      BY <1>14, <3>1, <3>2
  <2> QED
    BY <1>1, <2>1, <2>3, <2>4 DEF InstallLoops
<1>15. CASE RbRmdir \/ Rmdir
  <2>1. /\ pc \in {"rb_rmdir", "rmdir"} /\ pc' = pc /\ todo # <<>> /\ todo' = Tail(todo)
        /\ p \in MyDirs /\ p \in ToSet(todo)
        /\ pc = "rb_rmdir" => RbRmdir
    BY <1>1, <1>2, <1>15, LoopStep DEF RbRmdir, Rmdir, InstallLoops
  <2>2. /\ ToSet(todo') \subseteq ToSet(todo) /\ \A x \in ToSet(todo) : x = p \/ x \in ToSet(todo')
        /\ ChildrenFirst(todo) => ChildrenFirst(todo')
    BY <2>1, LoopStep
  <2>3. \A q \in Paths : tree'[q] = tree[q] \/ (q = p /\ tree'[q] = "none")
    <3>1. CASE Put(p, "none")
      BY <1>4, <1>5, <2>1, <3>1
    <3>2. CASE UNCHANGED fs
      BY <1>2, <3>2
    <3> QED
      BY <1>15, <3>1, <3>2 DEF RbRmdir, Rmdir
  <2>4. pc = "rb_rmdir" /\ tree'[p] = "dir" => start.tree[p] = "dir"
    BY <1>1, <2>1, RollbackLeaves
  <2> HIDE DEF p
  <2>5. pc = "rb_rmdir" =>
          \A q \in MyDirs : tree'[q] = "dir" /\ start.tree[q] # "dir" => q \in ToSet(todo')
    BY <1>1, <1>2, <1>3, <2>2, <2>3, <2>4 DEF InstallLoops
  <2>6. ToSet(todo') \subseteq MyDirs /\ \A q \in MyFiles : tree'[q] = "none"
    BY <1>1, <1>2, <1>3, <2>1, <2>2, <2>3 DEF InstallLoops
  <2> QED
    BY <1>1, <1>2, <2>1, <2>2, <2>5, <2>6 DEF InstallLoops
<1>16. CASE Add \/ AddsDone \/ AddUndo \/ AddFailed
  <2>1. /\ pc \in {"add", "add_undo", "add_failed"} /\ tree' = tree
        /\ pc' \in {"add", "add_undo", "add_failed", "after"}
    BY <1>2, <1>16 DEF Add, AddsDone, AddUndo, AddFailed
  <2>2. MyPaths' \subseteq MyDirs \cup MyFiles
    <3>1. CASE table' = table \/ Deletes
      <4>1. table' \subseteq table
        BY <3>1 DEF Deletes
      <4>2. MyPaths' \subseteq MyPaths
        BY <1>1, <4>1 DEF MyPaths, Mine
      <4> QED
        BY <1>1, <1>2, <2>1, <4>2 DEF InstallLoops
    <3>2. CASE Inserts
      <4>1. pc = "add" /\ todo # <<>>
        BY <3>2 DEF Inserts
      <4>2. p \in MyDirs \cup MyFiles
        BY <1>1, <4>1, LoopStep DEF Before, StoreInv, AddInv
      <4>3. MyPaths' \subseteq MyPaths \cup {p}
        BY <1>1, <3>2 DEF Inserts, MyPaths, Mine
      <4> QED
        BY <1>1, <1>2, <2>1, <4>2, <4>3 DEF InstallLoops
    <3> QED
      BY <3>1, <3>2, TableStep
  <2> QED
    BY <1>1, <1>2, <2>1, <2>2 DEF InstallLoops
<1>17. CASE After
  <2>1. pc = "after" /\ pc' = "unlink" /\ todo' = regular_file_list /\ tree' = tree
    BY <1>2, <1>17 DEF After, RoundFails, BeginUninstall
  <2>2. ToSet(todo') = MyFiles
    BY <1>1, <1>2, <2>1 DEF InstallFrame, Installing, MyFiles
  <2> QED
    BY <1>1, <2>1, <2>2 DEF InstallLoops
<1>18. CASE UNCHANGED vars
  BY <1>1, <1>2, <1>18 DEF vars, dbVars, InstallLoops, MyPaths, Mine
<1>19. CASE Request \/ Kill \/ Quit \/ Config \/ Answered
  BY <1>1, <1>19 DEF Request, Kill, Quit, Config, Answered, ToIdle
<1>20. CASE FetchName \/ FetchPath \/ StatRow \/ Traverse \/ RolledBack \/ BeginsUninstall
            \/ UninstallFails \/ Undone \/ FilesRemoved \/ Del \/ Installed
  BY <1>1, <1>2, <1>20
     DEF FetchName, FetchPath, StatRow, Traverse, RolledBack, BeginsUninstall, BeginUninstall,
         UninstallFails, Undone, FilesRemoved, Del, Installed, CalmInv
<1>21. CASE Asked
  BY <1>2, <1>21 DEF Asked, RoundFails, CalmInv
<1> QED
  BY <1>8, <1>9, <1>10, <1>11, <1>12, <1>13, <1>14, <1>15, <1>16, <1>17, <1>18, <1>19, <1>20,
     <1>21 DEF Next, Command

LEMMA AddInvStep ==
  ASSUME GoodMods, Before, [Next]_vars
  PROVE  AddInv'
<1> USE DEF Goto, Loop, Answer, Advance
<1> SUFFICES ASSUME cmd'.op = "INSTALL", pc' \in {"add", "add_undo", "after"}
             PROVE  AddInv'
  BY DEF AddInv
<1>1. /\ pc # "idle" /\ UNCHANGED <<cmd, start>> /\ cmd.op = "INSTALL" /\ cmd.dir \in Dirs
      /\ MyDirs' = MyDirs /\ MyFiles' = MyFiles
  BY Frame, TheCommand DEF MyDirs, MyFiles
<1>2. AddInv /\ InstallFrame /\ InstallLoops /\ CalmInv /\ TreeInv /\ IdsInv
  BY DEF Before, StoreInv, TypeInv
<1>3. /\ todo \in Seq(Paths \cup Names) /\ (todo = <<>> => ToSet(todo) = {})
  BY ListEmpty DEF Before, TypeInv, StoreTypes
<1>4. CASE LinksDone
  <2> DEFINE dirs == Listing[cmd.dir].dirs
             files == Listing[cmd.dir].files
  <2>1. /\ pc = "link" /\ todo = <<>> /\ pc' = "add" /\ todo' = dirs \o files /\ table' = table
    BY <1>1, <1>2, <1>4
       DEF LinksDone, registerDBOperation, EntriesToAdd, InstallFrame, Installing
  <2>2. Mine' = {} /\ MyPaths' = {}
    BY <1>1, <1>2, <2>1 DEF InstallFrame, MyPaths, Mine
  <2>3. dirs \in Seq(Paths) /\ files \in Seq(Paths) /\ MyDirs \cap MyFiles = {}
        /\ MyDirs = ToSet(dirs) /\ MyFiles = ToSet(files)
    BY <1>1, ModsAreListed, MyMod DEF MyDirs, MyFiles
  <2>4. IsInjective(dirs) /\ IsInjective(files) /\ ParentsFirst(dirs)
    BY <1>1, ModsAreTidy DEF GoodMods
  <2>5. \A q \in MyDirs \cup MyFiles : Parent[q] \notin MyFiles
    <3>1. /\ \A q \in MyDirs : tree[q] = "dir"
          /\ \A q \in MyFiles : tree[q] = "file"
      BY <1>1, <1>2, <1>3, <2>1 DEF InstallLoops
    <3>2. MyDirs \subseteq Paths /\ MyFiles \subseteq Paths
      BY <1>1, MyMod
    <3> QED
      BY <1>2, <3>1, <3>2, StoreAssumption DEF TreeInv, IsTreeOf
  <2> HIDE DEF dirs, files
  <2>6. ToSet(todo') = MyDirs \cup MyFiles /\ IsInjective(todo') /\ ParentsFirst(todo')
    BY <2>1, <2>3, <2>4, <2>5, ListConcat
  <2> QED
    BY <1>1, <2>1, <2>2, <2>6 DEF AddInv
<1>5. CASE Add
  <2>1. pc = "add" /\ todo # <<>>
    BY <1>5 DEF Add
  <2>2. CASE pc' = "add_undo"
    BY <1>1, <1>5, <2>2, AddStep DEF AddInv
  <2>3. CASE Inserts
    <3> DEFINE p == Head(todo)
               new == [id |-> NextId, name |-> cmd.name, path |-> p]
    <3>1. /\ MyPaths \cap ToSet(todo) = {}
          /\ MyPaths \cup ToSet(todo) = MyDirs \cup MyFiles
          /\ IsInjective(todo) /\ ParentsFirst(todo)
          /\ \A row \in Mine, q \in ToSet(todo) : Parent[row.path] # q
          /\ \A row \in Mine, other \in table : row.id < other.id => other \in Mine
      BY <1>1, <1>2, <2>1 DEF AddInv
    <3>2. /\ p \in ToSet(todo) /\ ToSet(Tail(todo)) \subseteq ToSet(todo)
          /\ \A x \in ToSet(todo) : x = p \/ x \in ToSet(Tail(todo))
          /\ IsInjective(Tail(todo)) /\ p \notin ToSet(Tail(todo))
          /\ ParentsFirst(Tail(todo)) /\ \A q \in ToSet(Tail(todo)) : Parent[p] # q
      BY <1>3, <2>1, <3>1, ListTail
    <3>3. pc' = "add" /\ todo' = Tail(todo) /\ table' = table \cup {new}
      BY <2>3 DEF Inserts
    <3>4. new.path = p /\ new.id = NextId /\ new.name = cmd.name
      OBVIOUS
    <3>5. Mine' = Mine \cup {new} /\ MyPaths' = MyPaths \cup {p}
      <4> HIDE DEF new, p
      <4>1. Mine' = Mine \cup {new}
        BY <1>1, <3>3, <3>4 DEF Mine
      <4> QED
        BY <3>4, <4>1 DEF MyPaths
    <3>6. NextId \in Nat /\ \A row \in table : row.id < NextId /\ row.id \in Nat
      BY <1>2, NextIdIsNew DEF IdsInv, Rows
    <3> HIDE DEF new, p
    <3>7. \A row \in Mine', q \in ToSet(todo') : Parent[row.path] # q
      BY <3>1, <3>2, <3>3, <3>5, <3>4
    <3>8. \A row \in Mine', other \in table' : row.id < other.id => other \in Mine'
      BY <3>1, <3>3, <3>4, <3>5, <3>6
    <3>9. MyPaths' \cap ToSet(todo') = {} /\ MyPaths' \cup ToSet(todo') = MyDirs' \cup MyFiles'
      BY <1>1, <3>1, <3>2, <3>3, <3>5
    <3> QED
      BY <1>1, <3>2, <3>3, <3>7, <3>8, <3>9 DEF AddInv
  <2> QED
    BY <1>5, <2>2, <2>3, AddStep
<1>6. CASE AddsDone
  <2>1. /\ pc = "add" /\ todo = <<>> /\ pc' = "after" /\ UNCHANGED dbVars
    BY <1>6 DEF AddsDone
  <2>2. MyPaths = MyDirs \cup MyFiles /\ current_status # "ERROR"
    BY <1>1, <1>2, <1>3, <2>1 DEF AddInv, CalmInv
  <2> QED
    BY <1>1, <2>1, <2>2 DEF AddInv, MyPaths, Mine, dbVars
<1>7. CASE AddFailed
  <2>1. pc = "add_failed" /\ pc' = "after" /\ current_status' = "ERROR" /\ table' = table
    BY <1>7 DEF AddFailed, chgDBStatus
  <2> QED
    BY <1>1, <1>2, <2>1 DEF AddInv, InstallFrame, Mine
<1>8. CASE UNCHANGED vars
  BY <1>1, <1>2, <1>8 DEF vars, dbVars, AddInv, MyPaths, Mine
<1>9. CASE Request \/ Kill \/ Quit \/ Config \/ Answered
  BY <1>1, <1>9 DEF Request, Kill, Quit, Config, Answered, ToIdle
<1>10. CASE Command /\ ~(LinksDone \/ Add \/ AddsDone \/ AddFailed \/ Answered)
  BY <1>1, <1>2, <1>10
     DEF Command, FetchName, FetchPath, StatRow, Asked, Traverse, Check, Mkdir, MkdirsDone,
         Link, RbUnlink, RbUnlinksDone, RollbackDirectories, RbRmdir, RolledBack, AddUndo,
         After, RoundFails, BeginsUninstall, BeginUninstall, Unlink, UnlinksDone, Rmdir,
         UninstallFails, Undone, FilesRemoved, Del, Installed, CalmInv
<1> QED
  BY <1>4, <1>5, <1>6, <1>7, <1>8, <1>9, <1>10 DEF Next

LEMMA AnswerInvStep ==
  ASSUME GoodMods, Before, [Next]_vars
  PROVE  AnswerInv'
<1> USE DEF Goto, Loop, Answer, Advance
<1> SUFFICES ASSUME pc' = "reply", cmd'.op = "INSTALL", reply' = "error"
             PROVE  \A p \in Paths : /\ tree'[p] = "file" <=> start'.tree[p] = "file"
                                     /\ tree'[p] = "dir" => undoing' \/ start'.tree[p] = "dir"
  BY DEF AnswerInv
<1>1. /\ pc # "idle" /\ UNCHANGED <<cmd, start>> /\ cmd.op = "INSTALL" /\ cmd.dir \in Dirs
      /\ mhwiroot' = mhwiroot /\ CalmInv
  BY Frame, TheCommand DEF Before, StoreInv
<1>2. CASE Installing
  <2>1. /\ UNCHANGED <<tree, undoing>> /\ pc \in {"rb_rmdir", "rmdir"} /\ todo = <<>>
        /\ pc = "rmdir" => undoing
    <3>1. ~Installing' /\ ~Kill
      BY DEF Installing, Kill, ToIdle
    <3> QED
      BY <1>2, <3>1, InstallEnds
  <2>2. /\ \A p \in Paths \ (MyDirs \cup MyFiles) : tree[p] = start.tree[p]
        /\ \A p \in MyFiles : start.tree[p] = "none" /\ tree[p] = "none"
    BY <1>1, <1>2, <2>1 DEF Before, StoreInv, InstallFrame, InstallLoops
  <2>3. \A p \in MyDirs : tree[p] # "file" /\ start.tree[p] # "file"
    BY <1>1, MyMod DEF Before, StoreInv, TreeInv, IsTreeOf
  <2>4. pc = "rb_rmdir" => \A p \in MyDirs : tree[p] = "dir" => start.tree[p] = "dir"
    <3>1. ToSet(todo) = {}
      BY <2>1, ListEmpty
    <3> QED
      BY <1>1, <3>1 DEF Before, StoreInv, InstallLoops
  <2> QED
    BY <1>1, <2>1, <2>2, <2>3, <2>4
<1>3. CASE pc = "reply"
  <2>1. UNCHANGED vars
    BY <1>1, <1>3
       DEF Next, Request, Kill, Quit, Config, ToIdle,
           Command, FetchName, FetchPath, StatRow, Asked, Traverse, Check, Mkdir, MkdirsDone,
           Link, LinksDone, RbUnlink, RbUnlinksDone, RbRmdir, RolledBack, Add, AddsDone,
           AddUndo, AddFailed, After, BeginsUninstall, Unlink, UnlinksDone, Rmdir,
           UninstallFails, Undone, FilesRemoved, Del, Installed, Answered
  <2>2. UNCHANGED <<fs, mhwiroot, start, cmd, pc, reply, undoing>>
    BY <2>1 DEF vars, request
  <2> QED
    BY <2>2 DEF Before, StoreInv, AnswerInv, tree
<1>4. CASE ~Installing /\ pc # "reply"
  <2>1. pc \in {"asked", "execute", "check"} /\ UNCHANGED fs
    BY <1>1, <1>4
       DEF Next, Request, Kill, Quit, Config, ToIdle, Installing, vars, CalmInv,
           Command, FetchName, FetchPath, StatRow, Asked, Traverse, Check, Mkdir, MkdirsDone,
           Link, LinksDone, RbUnlink, RbUnlinksDone, RollbackDirectories, RbRmdir, RolledBack,
           Add, AddsDone, AddUndo, AddFailed, After, RoundFails, BeginsUninstall,
           BeginUninstall, Unlink, UnlinksDone, Rmdir, UninstallFails, Undone, FilesRemoved,
           Del, Installed, Answered
  <2>2. tree' = tree /\ start.tree = tree
    BY <1>1, <2>1 DEF tree, CalmInv
  <2> QED
    BY <1>1, <2>2
<1> QED
  BY <1>2, <1>3, <1>4

-------------------------------------------------------------------------------
(* UNINSTALL, and the files of the game.                                   *)

\* What is on record for the mod is of the mod, and each a file or a directory.
LEMMA OnRecord ==
  ASSUME GoodMods, Before
  PROVE  /\ MyPaths \subseteq Paths
         /\ \A p \in MyPaths : p \in ModDirs \/ p \in ModFiles
         /\ \A p \in MyPaths : ~(p \in ModDirs /\ p \in ModFiles)
<1>1. MyPaths \subseteq Paths
  BY DEF Before, TypeInv, IdsInv, Rows, MyPaths, Mine
<1>2. \A p \in MyPaths : p \in ModDirs \/ p \in ModFiles
  BY DEF Before, StoreInv, RowsInv, MyPaths, Mine
<1> QED
  BY <1>1, <1>2 DEF GoodMods, ModsAgree

LEMMA UninstallInvStep ==
  ASSUME GoodMods, Before, [Next]_vars
  PROVE  UninstallInv'
<1> USE DEF Goto, Loop, Answer, Advance
<1> SUFFICES ASSUME cmd'.op = "UNINSTALL",
                    pc' \in {"unlink", "rmdir", "del", "after"} \/ (pc' = "reply" /\ reply' = "done")
             PROVE  UninstallInv'
  BY DEF UninstallInv
<1>1. /\ pc # "idle" /\ UNCHANGED <<cmd, start>> /\ cmd.op = "UNINSTALL" /\ cmd.name \in Names
      /\ mhwiroot' = mhwiroot /\ mhwiroot \in Roots /\ fs \in [Roots -> [Paths -> Kinds]]
      /\ ~failed /\ ~undoing
      /\ pc \in {"execute"} => start.table = table
  <2>1. pc # "idle" /\ UNCHANGED <<cmd, start>>
    BY Frame
  <2>2. CalmInv
    BY DEF Before, StoreInv
  <2>3. fs \in [Roots -> [Paths -> Kinds]]
    BY DEF Before, TypeInv, StoreTypes
  <2> QED
    BY <2>1, <2>2, <2>3, Frame DEF CalmInv
<1>2. UninstallInv /\ AskInv
  BY DEF Before, StoreInv
<1>3. todo # <<>> => todo \in Seq(Paths \cup Names)
  BY DEF Before, TypeInv, StoreTypes
<1>4. tree \in [Paths -> Kinds]
  BY Frame
<1>5. CASE BeginsUninstall
  <2>1. /\ pc = "execute" /\ pc' = "unlink" /\ todo' = regular_file_list /\ table' = table
        /\ tree' = tree
    BY <1>1, <1>5 DEF BeginsUninstall, BeginUninstall, dbVars, tree
  <2>2. /\ IsInjective(regular_file_list) /\ ToSet(regular_file_list) = MyPaths \cap ModFiles
    BY <1>1, <1>2, <2>1 DEF AskInv, AreListed, SeenPaths, Seen, MyPaths
  <2>3. \A p \in MyPaths : tree[p] = IF p \in ModFiles THEN "file" ELSE "dir"
    BY <1>1, <2>1, RowIsThere DEF Installing, Removing
  <2>4. MyPaths' = MyPaths /\ Mine' = Mine
    BY <1>1, <2>1 DEF MyPaths, Mine
  <2> QED
    BY <1>1, <2>1, <2>2, <2>3, <2>4, OnRecord DEF UninstallInv
<1>6. CASE Unlink
  <2> DEFINE p == Head(todo)
  <2>1. pc = "unlink" /\ pc' = "unlink" /\ todo # <<>> /\ todo' = Tail(todo) /\ table' = table
    BY <1>6 DEF Unlink, dbVars
  <2>2. /\ start.table = table /\ IsInjective(todo) /\ ToSet(todo) \subseteq MyPaths \cap ModFiles
        /\ \A q \in MyPaths \cap ModFiles : tree[q] = IF q \in ToSet(todo) THEN "file" ELSE "none"
        /\ \A q \in MyPaths \cap ModDirs : tree[q] = "dir"
    BY <1>1, <1>2, <2>1 DEF UninstallInv
  <2>3. /\ p \in ToSet(todo) /\ ToSet(Tail(todo)) \subseteq ToSet(todo)
        /\ \A x \in ToSet(todo) : x = p \/ x \in ToSet(Tail(todo))
        /\ IsInjective(Tail(todo)) /\ p \notin ToSet(Tail(todo))
    BY <2>1, <2>2, LoopStep
  <2>4. p \in MyPaths \cap ModFiles /\ tree[p] = "file" /\ p \in Paths /\ p \notin ModDirs
    BY <2>2, <2>3, OnRecord
  <2>5. tree' = [tree EXCEPT ![p] = "none"]
    <3>1. Put(p, "none")
      BY <1>6, <2>4, NoFaults DEF Unlink, CanUnlink
    <3> QED
      BY <1>1, <3>1 DEF Put, tree
  <2>6. \A q \in Paths : tree'[q] = IF q = p THEN "none" ELSE tree[q]
    BY <1>4, <2>5
  <2>7. MyPaths' = MyPaths /\ Mine' = Mine
    BY <1>1, <2>1 DEF MyPaths, Mine
  <2> HIDE DEF p
  <2>8. MyPaths \subseteq Paths
    BY OnRecord
  <2>9. \A q \in MyPaths \cap ModFiles :
          tree'[q] = IF q \in ToSet(Tail(todo)) THEN "file" ELSE "none"
    BY <2>2, <2>3, <2>6, <2>8
  <2>10. \A q \in MyPaths \cap ModDirs : tree'[q] = "dir"
    BY <2>2, <2>4, <2>6, <2>8
  <2> QED
    BY <1>1, <2>1, <2>2, <2>3, <2>7, <2>9, <2>10 DEF UninstallInv
<1>7. CASE UnlinksDone
  <2>1. /\ pc = "unlink" /\ pc' = "rmdir" /\ todo = <<>> /\ todo' = directory_list
        /\ table' = table /\ tree' = tree
    BY <1>1, <1>7 DEF UnlinksDone, dbVars, tree
  <2>2. /\ IsInjective(directory_list) /\ ToSet(directory_list) = MyPaths \cap ModDirs
        /\ ChildrenFirst(directory_list)
    BY <1>1, <1>2, <2>1 DEF AskInv, AreListed, SeenPaths, Seen, MyPaths
  <2>3. /\ start.table = table
        /\ \A q \in MyPaths \cap ModFiles : tree[q] = "none"
        /\ \A q \in MyPaths \cap ModDirs : tree[q] = "dir"
    BY <1>1, <1>2, <2>1, ListEmpty DEF UninstallInv
  <2>4. MyPaths' = MyPaths /\ Mine' = Mine
    BY <1>1, <2>1 DEF MyPaths, Mine
  <2> QED
    BY <1>1, <2>1, <2>2, <2>3, <2>4 DEF UninstallInv
<1>8. CASE Rmdir
  <2>0. PICK p : p = Head(todo)
    OBVIOUS
  <2>1. pc = "rmdir" /\ pc' = "rmdir" /\ todo # <<>> /\ todo' = Tail(todo) /\ table' = table
    BY <1>8 DEF Rmdir, dbVars
  <2>2. /\ start.table = table /\ IsInjective(todo) /\ ToSet(todo) \subseteq MyPaths \cap ModDirs
        /\ ChildrenFirst(todo)
        /\ \A q \in MyPaths \cap ModFiles : tree[q] = "none"
        /\ \A q \in MyPaths \cap ModDirs :
             IF q \in ToSet(todo) THEN tree[q] = "dir"
             ELSE GoneOrHeld(q) /\ \A r \in ToSet(todo) : Parent[r] # q
    BY <1>1, <1>2, <2>1 DEF UninstallInv
  <2>3. /\ p \in ToSet(todo) /\ ToSet(Tail(todo)) \subseteq ToSet(todo)
        /\ \A x \in ToSet(todo) : x = p \/ x \in ToSet(Tail(todo))
        /\ IsInjective(Tail(todo)) /\ p \notin ToSet(Tail(todo))
        /\ ChildrenFirst(Tail(todo)) /\ \A q \in ToSet(Tail(todo)) : Parent[q] # p
    BY <2>0, <2>1, <2>2, LoopStep
  <2>4. p \in MyPaths \cap ModDirs /\ tree[p] = "dir" /\ p \in Paths /\ MyPaths \subseteq Paths
    BY <2>2, <2>3, OnRecord
  <2>5. \/ tree' = [tree EXCEPT ![p] = "none"]
        \/ tree' = tree /\ NotEmpty(p)
    <3>1. Put(p, "none") \/ (NotEmpty(p) /\ UNCHANGED fs)
      BY <1>8, <2>0, <2>4, NoFaults DEF Rmdir, CanRmdir
    <3> QED
      BY <1>1, <3>1 DEF Put, tree
  <2>6. MyPaths' = MyPaths /\ Mine' = Mine
    BY <1>1, <2>1 DEF MyPaths, Mine
  <2>7. \A q \in Paths : tree'[q] = tree[q] \/ (q = p /\ tree'[q] = "none")
    BY <1>4, <2>5
  <2>8. GoneOrHeld(p)'
    <3>1. tree'[p] = "none" \/ (tree' = tree /\ NotEmpty(p))
      BY <1>4, <2>4, <2>5
    <3> QED
      BY <3>1 DEF GoneOrHeld, NotEmpty
  <2>9. ASSUME NEW q \in MyPaths \cap ModDirs, q \notin ToSet(todo)
        PROVE  GoneOrHeld(q)'
    <3>1. GoneOrHeld(q) /\ Parent[p] # q /\ q # p /\ q \in Paths
      BY <2>2, <2>3, <2>4, <2>9
    <3>2. tree'[q] = tree[q]
      BY <2>7, <3>1
    <3>3. \A r \in Paths : Parent[r] = q => tree'[r] = tree[r]
      BY <2>7, <3>1
    <3>4. CASE NotEmpty(q)
      <4>1. PICK r \in Paths : Parent[r] = q /\ tree[r] # "none"
        BY <3>4 DEF NotEmpty
      <4>2. tree'[r] # "none" /\ tree'[q] = "dir"
        BY <3>2, <3>3, <3>4, <4>1 DEF NotEmpty
      <4> QED
        BY <4>1, <4>2 DEF GoneOrHeld, NotEmpty
    <3> QED
      BY <3>1, <3>2, <3>4 DEF GoneOrHeld
  <2>10. \A q \in MyPaths \cap ModFiles : tree'[q] = "none"
    BY <2>2, <2>4, <2>7
  <2>11. \A q \in MyPaths \cap ModDirs :
           IF q \in ToSet(Tail(todo)) THEN tree'[q] = "dir"
           ELSE GoneOrHeld(q)' /\ \A r \in ToSet(Tail(todo)) : Parent[r] # q
    <3> TAKE q \in MyPaths \cap ModDirs
    <3>1. CASE q \in ToSet(Tail(todo))
      BY <2>2, <2>3, <2>4, <2>7, <3>1
    <3>2. CASE q = p
      BY <2>3, <2>8, <3>2
    <3>3. CASE q \notin ToSet(todo)
      BY <2>2, <2>3, <2>9, <3>3
    <3> QED
      BY <2>3, <3>1, <3>2, <3>3
  <2> QED
    BY <1>1, <2>1, <2>2, <2>3, <2>6, <2>10, <2>11 DEF UninstallInv
<1>9. CASE FilesRemoved
  <2>1. /\ pc = "rmdir" /\ pc' = "del" /\ todo = <<>> /\ table' = table /\ tree' = tree
        /\ record_buf' = NameOnly(cmd.name)
    BY <1>1, <1>9 DEF FilesRemoved, registerDBOperation, tree
  <2>2. start.table = table /\ \A p \in MyPaths : GoneOrHeld(p)
    <3>1. /\ start.table = table
          /\ \A q \in MyPaths \cap ModFiles : tree[q] = "none"
          /\ \A q \in MyPaths \cap ModDirs : GoneOrHeld(q)
      BY <1>1, <1>2, <2>1, ListEmpty DEF UninstallInv
    <3> QED
      BY <3>1, OnRecord DEF GoneOrHeld
  <2>3. MyPaths' = MyPaths /\ Mine' = Mine
    BY <1>1, <2>1 DEF MyPaths, Mine
  <2>4. \A p \in MyPaths : GoneOrHeld(p)'
    BY <2>1, <2>2 DEF GoneOrHeld, NotEmpty
  <2> QED
    BY <1>1, <2>1, <2>2, <2>3, <2>4 DEF UninstallInv, NameOnly
<1>10. CASE Del
  <2>1. /\ pc = "del" /\ pc' = "after" /\ tree' = tree
        /\ ~more_rows /\ current_op = "DEL" /\ record_buf = NameOnly(cmd.name)
    BY <1>1, <1>2, <1>10
       DEF Del, tree, Before, NoOpenSelect, TypeInv, ToRecord, UninstallInv
  <2>2. table' = table \ Mine /\ current_status' = "IDLE"
    <3>1. RegisterAndExecute("DEL", record_buf, FALSE)
      BY <1>10, <2>1, NoFaults DEF Del, executeDBOperation
    <3> QED
      BY <2>1, <3>1, DelStep DEF NameOnly
  <2>3. Mine' = {}
    BY <1>1, <2>2 DEF Mine
  <2>4. \A p \in PathsOf(cmd.name, start.table) : GoneOrHeld(p)'
    <3>1. PathsOf(cmd.name, start.table) = MyPaths
      BY <1>1, <1>2, <2>1 DEF PathsOf, MyPaths, Mine, UninstallInv
    <3>2. \A p \in MyPaths : GoneOrHeld(p)
      BY <1>1, <1>2, <2>1 DEF UninstallInv
    <3> QED
      BY <2>1, <3>1, <3>2 DEF GoneOrHeld, NotEmpty
  <2> QED
    BY <1>1, <2>1, <2>2, <2>3, <2>4 DEF UninstallInv
<1>11. CASE pc = "after"
  <2>1. pc' \in {"after", "reply"} /\ UNCHANGED <<table, fs>>
        /\ (pc' = "after" => current_status' = current_status)
    BY <1>1, <1>11
       DEF Next, vars, dbVars, Request, Kill, Quit, Config, ToIdle,
           Command, FetchName, FetchPath, StatRow, Asked, Traverse, Check, Mkdir, MkdirsDone,
           Link, LinksDone, RbUnlink, RbUnlinksDone, RbRmdir, RolledBack, Add, AddsDone,
           AddUndo, AddFailed, After, RoundFails, resetDB, registerDBOperation,
           BeginsUninstall, Unlink, UnlinksDone, Rmdir,
           UninstallFails, Undone, FilesRemoved, Del, Installed, Answered
  <2>2. /\ Mine = {} /\ current_status # "ERROR"
        /\ \A p \in PathsOf(cmd.name, start.table) : GoneOrHeld(p)
    BY <1>1, <1>2, <1>11 DEF UninstallInv
  <2>3. tree' = tree /\ Mine' = Mine
    BY <1>1, <2>1 DEF tree, Mine
  <2>4. \A p \in PathsOf(cmd.name, start.table) : GoneOrHeld(p)'
    BY <2>2, <2>3 DEF GoneOrHeld, NotEmpty
  <2> QED
    BY <1>1, <2>1, <2>2, <2>3, <2>4 DEF UninstallInv
<1>12. CASE UNCHANGED vars
  <2>1. UNCHANGED <<tree, table, pc, todo, record_buf, current_status, reply, cmd, start>>
    BY <1>1, <1>12 DEF vars, dbVars, request, tree
  <2> QED
    BY <1>2, <2>1 DEF UninstallInv, MyPaths, Mine, GoneOrHeld, NotEmpty
<1>13. CASE Request \/ Kill \/ Quit \/ Config \/ Answered
  BY <1>1, <1>13 DEF Request, Kill, Quit, Config, Answered, ToIdle
<1>14. CASE /\ Command /\ pc # "after"
            /\ ~(BeginsUninstall \/ Unlink \/ UnlinksDone \/ Rmdir \/ FilesRemoved \/ Del \/ Answered)
  <2>1. /\ pc \in {"rb_unlink", "rb_rmdir", "add_failed"} => cmd.op = "INSTALL"
        /\ pc \in {"check", "mkdir", "link", "add", "add_undo"} => cmd.op = "INSTALL"
    BY DEF Before, StoreInv, CalmInv, TypeInv, ToRecord
  <2> QED
    BY <1>1, <1>14, <2>1
       DEF Command, FetchName, FetchPath, StatRow, Asked, Traverse, Check, Mkdir, MkdirsDone,
           Link, LinksDone, RbUnlink, RbUnlinksDone, RbRmdir, RolledBack, Add, AddsDone,
           AddUndo, AddFailed, After, RoundFails, UninstallFails, Undone, Installed
<1> QED
  BY <1>5, <1>6, <1>7, <1>8, <1>9, <1>10, <1>11, <1>12, <1>13, <1>14 DEF Next

LEMMA FilesInvStep ==
  ASSUME GoodMods, Before, [Next]_vars
  PROVE  FilesInv'
<1>1. /\ env' = env /\ mhwiroot' = mhwiroot /\ FilesInv
      /\ Installing => pc # "idle" /\ cmd.op = "INSTALL" /\ cmd.dir \in Dirs
      /\ pc # "idle" /\ pc' # "idle" => cmd' = cmd
  BY Frame DEF Before, StoreInv, Installing
<1> SUFFICES ASSUME Undying', NEW p \in Paths, tree'[p] = "file"
             PROVE  \/ Game[mhwiroot][p] = "file"
                    \/ \E row \in table' : row.path = p
                    \/ Installing' /\ p \in MyFiles'
  BY <1>1 DEF FilesInv
<1>2. env.kill = {}
  BY <1>1 DEF Undying
<1>3. \/ Game[mhwiroot][p] = "file"
      \/ \E row \in table : row.path = p
      \/ Installing /\ p \in MyFiles
      \/ tree[p] # "file"
  BY <1>1, <1>2 DEF FilesInv, Undying, Before
<1>4. CASE tree[p] # "file"
  <2>1. tree \in [Paths -> Kinds]
    BY Frame
  <2>2. pc = "link" /\ pc' = "link" /\ todo # <<>> /\ p = Head(todo)
    BY <1>4, <2>1, TreeStep DEF Creates, Unlinks, Rmdirs, Puts
  <2>3. p \in ToSet(todo) /\ cmd.op = "INSTALL" /\ cmd' = cmd
    BY <1>1, <2>2, LoopStep DEF Before, TypeInv, ToRecord
  <2>4. p \in MyFiles
    BY <2>2, <2>3 DEF Before, StoreInv, InstallLoops
  <2> QED
    BY <2>2, <2>3, <2>4 DEF Installing, MyFiles
<1>5. ASSUME NEW row \in table, row.path = p, tree[p] = "file", row \notin table'
      PROVE  Installing' /\ p \in MyFiles'
  <2>1. Deletes /\ row \in Mine
    BY <1>5, TableStep DEF Inserts, Deletes
  <2>2. p \in MyPaths
    BY <1>5, <2>1 DEF MyPaths
  <2>3. CASE pc = "add_undo" /\ pc' = "add_failed"
    <3>1. cmd.op = "INSTALL" /\ cmd' = cmd
      BY <1>1, <2>3 DEF Before, TypeInv, ToRecord
    <3>2. MyPaths \subseteq MyDirs \cup MyFiles /\ \A q \in MyDirs : tree[q] = "dir"
      BY <2>3, <3>1 DEF Before, StoreInv, InstallLoops
    <3> QED
      BY <1>5, <2>2, <2>3, <3>1, <3>2 DEF Installing, MyFiles
  <2>4. CASE pc = "del"
    <3>1. cmd.op = "UNINSTALL"
      BY <2>4 DEF Before, StoreInv, CalmInv
    <3>2. GoneOrHeld(p)
      BY <2>2, <2>4, <3>1 DEF Before, StoreInv, UninstallInv
    <3> QED
      BY <1>5, <3>2 DEF GoneOrHeld, NotEmpty
  <2> QED
    BY <2>1, <2>3, <2>4 DEF Deletes
<1>6. ASSUME Installing, p \in MyFiles, tree[p] = "file", ~Installing'
      PROVE  \E row \in table' : row.path = p
  <2>1. /\ ~Kill /\ table' = table
        /\ \/ pc = "after" /\ current_status # "ERROR"
           \/ pc = "after" /\ NothingListed
           \/ pc \in {"rb_rmdir", "rmdir"}
    BY <1>2, <1>6, InstallEnds DEF Kill
  <2>2. CASE pc = "after" /\ current_status # "ERROR"
    <3>1. p \in MyPaths
      BY <1>1, <1>6, <2>2 DEF Before, StoreInv, AddInv
    <3> QED
      BY <2>1, <3>1 DEF MyPaths, Mine
  <2>3. CASE pc = "after" /\ NothingListed
    <3>1. Listing[cmd.dir].files = <<>>
      BY <1>6, <2>3 DEF Before, StoreInv, InstallFrame, NothingListed
    <3> QED
      BY <1>6, <3>1, ListEmpty DEF MyFiles
  <2>4. CASE pc \in {"rb_rmdir", "rmdir"}
    <3>1. tree[p] = "none"
      BY <1>1, <1>6, <2>4 DEF Before, StoreInv, InstallLoops
    <3> QED
      BY <1>6, <3>1
  <2> QED
    BY <2>1, <2>2, <2>3, <2>4
<1>7. Installing /\ Installing' => MyFiles' = MyFiles
  BY <1>1 DEF MyFiles, Installing
<1> QED
  BY <1>3, <1>4, <1>5, <1>6, <1>7

-------------------------------------------------------------------------------
(* The invariant holds.                                                    *)

LEMMA StoreInvInit ==
  ASSUME GoodMods, Init, Calm
  PROVE  StoreInv
<1>1. /\ pc = "idle" /\ table = {} /\ NothingListed /\ more_rows = FALSE /\ sql_stmt = NoStmt
      /\ ~failed /\ ~undoing /\ cmd = NoCmd /\ tree = Game[mhwiroot]
  BY DEF Init, DbInit, NothingListed, tree
<1>2. cmd.op = "none"
  BY <1>1 DEF NoCmd
<1>3. IsTreeOf(tree)
  <2>1. mhwiroot \in Roots
    BY StoreAssumption DEF Init
  <2>2. tree \in [Paths -> Kinds]
    BY <1>1, <2>1, StoreAssumption
  <2>3. \A p \in Paths : tree[p] # "none" => Parent[p] = Top \/ tree[Parent[p]] = "dir"
    BY <1>1, <2>1 DEF GoodMods, GameIsTree
  <2>4. ASSUME NEW p \in ModDirs PROVE tree[p] # "file"
    BY <1>1, <2>1, <2>4 DEF GoodMods, KindsAgree
  <2> QED
    BY <2>2, <2>3, <2>4 DEF IsTreeOf
<1>4. TreeInv
  BY <1>1, <1>3 DEF TreeInv
<1>5. RowsInv
  BY <1>1 DEF RowsInv
<1>6. HoldInv
  <2>1. \A n \in Names : Anchored(n, {})
    BY <1>1 DEF Anchored, Held
  <2> QED
    BY <2>1 DEF HoldInv
<1>7. CalmInv
  BY <1>1, <1>2 DEF CalmInv
<1>8. AskInv
  BY <1>1 DEF AskInv
<1>9. InstallFrame /\ InstallLoops /\ AddInv /\ AnswerInv /\ UninstallInv
  BY <1>1, <1>2 DEF InstallFrame, InstallLoops, AddInv, AnswerInv, UninstallInv, Installing
<1>10. FilesInv
  BY <1>1 DEF FilesInv
<1> QED
  BY <1>4, <1>5, <1>6, <1>7, <1>8, <1>9, <1>10 DEF StoreInv

\* With the types, and whether the environment is a calm one or not.
AllInv == TypeInv /\ NoOpenSelect /\ CalmStoreInv

LEMMA AllInvInit == ASSUME GoodMods, Init PROVE AllInv
<1>1. NoOpenSelect
  BY DEF Init, NoOpenSelect
<1> QED
  BY <1>1, TypeInvInit, StoreInvInit DEF AllInv, CalmStoreInv

\* The environment stays, and the root of an environment that has one.
LEMMA CalmStays ==
  ASSUME TypeInv, [Next]_vars, Calm'
  PROVE  Calm
<1>1. env' = env
  <2> USE DEF Goto, Loop, Answer, Advance, request
  <2>1. CASE Request \/ Config \/ UNCHANGED vars
    BY <2>1 DEF Request, Config, vars
  <2>2. CASE Answered \/ Quit \/ Kill
    BY <2>2 DEF Answered, Quit, Kill, ToIdle
  <2>3. CASE Command /\ ~Answered
    BY <2>3
       DEF Command, FetchName, FetchPath, StatRow, Asked, Traverse, Check, Mkdir, MkdirsDone,
           Link, LinksDone, RbUnlink, RbUnlinksDone, RbRmdir, RolledBack, Add, AddsDone,
           AddUndo, AddFailed, After, BeginsUninstall, Unlink, UnlinksDone, Rmdir,
           UninstallFails, Undone, FilesRemoved, Del, Installed
  <2> QED
    BY <2>1, <2>2, <2>3 DEF Next
<1>2. mhwiroot \in env.roots
  BY DEF TypeInv, StoreTypes
<1> QED
  BY <1>1, <1>2 DEF Calm

LEMMA AllInvStep ==
  ASSUME GoodMods, AllInv, [Next]_vars
  PROVE  AllInv'
<1>1. TypeInv' /\ NoOpenSelect'
  BY TypeInvStep, NoOpenSelectStep DEF AllInv
<1>2. ASSUME Calm' PROVE StoreInv'
  <2>1. Before
    BY <1>2, CalmStays DEF AllInv, CalmStoreInv, Before
  <2> QED
    BY <2>1, TreeInvStep, RowsInvStep, HoldInvStep, CalmInvStep, AskInvStep, InstallFrameStep,
       InstallLoopsStep, AddInvStep, AnswerInvStep, UninstallInvStep, FilesInvStep DEF StoreInv
<1> QED
  BY <1>1, <1>2 DEF AllInv, CalmStoreInv

LEMMA AllInvHolds == ASSUME GoodMods PROVE Spec => []AllInv
<1>1. Init => AllInv
  BY AllInvInit
<1>2. AllInv /\ [Next]_vars => AllInv'
  BY AllInvStep
<1> QED
  BY <1>1, <1>2, PTL DEF Spec

-------------------------------------------------------------------------------
(* What is promised.                                                       *)

\* Whatever mods and games there are (GoodMods), between the commands of a calm
\* environment every row of the table names a file or directory that is there, and
\* no file is on record twice: install links before do_DB_add inserts, and goes on
\* only if none of the files was there.
THEOREM RecordsArePresent == ASSUME GoodMods PROVE Spec => []RecordedIsPresent
<1>1. AllInv => RecordedIsPresent
  <2> SUFFICES ASSUME AllInv, Calm, pc = "idle", NEW row \in table
               PROVE  /\ tree[row.path] # "none"
                      /\ \A other \in table :
                           row # other /\ row.path = other.path => tree[row.path] = "dir"
    BY DEF RecordedIsPresent
  <2>1. HoldInv /\ RowsInv /\ row.name \in Names
    BY DEF AllInv, CalmStoreInv, StoreInv, TypeInv, IdsInv, Rows
  <2>2. PICK A \in SUBSET Paths : Anchored(row.name, A)
    BY <2>1 DEF HoldInv, Installing, Removing
  <2>3. tree[row.path] = IF row.path \in ModFiles THEN "file" ELSE "dir"
    BY <2>2 DEF Anchored, Held
  <2> QED
    BY <2>1, <2>3 DEF RowsInv
<1> QED
  BY <1>1, AllInvHolds, PTL

\* Whatever mods and games there are, if the process is not killed every file that
\* is there between two commands is the game's or on record: uninstall unlinks
\* before do_DB_del deletes, and a failed install leaves no file.
THEOREM FilesAreRecorded == ASSUME GoodMods PROVE Spec => []PresentIsRecorded
<1>1. AllInv => PresentIsRecorded
  BY DEF AllInv, CalmStoreInv, StoreInv, FilesInv, Undying, PresentIsRecorded, Installing
<1> QED
  BY <1>1, AllInvHolds, PTL

\* Whatever mods and games there are, an INSTALL that is answered with an error has
\* left the files as they were, and only as the undo of one that could not be
\* recorded a directory.
THEOREM FailureIsUndone == ASSUME GoodMods PROVE Spec => []FailedInstallUndone
<1>1. AllInv => FailedInstallUndone
  BY DEF AllInv, CalmStoreInv, StoreInv, AnswerInv, FailedInstallUndone
<1> QED
  BY <1>1, AllInvHolds, PTL

\* Whatever mods and games there are, no step removes a file that is neither of the
\* INSTALL that runs nor on record for the mod of the UNINSTALL that runs, and for
\* this mod alone.
THEOREM OthersFilesStay == ASSUME GoodMods PROVE Spec => OnlyOwnFilesRemoved
<1> DEFINE Own(p) ==
      \/ start.tree[p] = "none"
      \/ \A n \in Names : p \in PathsOf(n, start.table) <=> n = cmd.name
    Kept == Calm => \A p \in Paths : tree[p] = "file" /\ fs'[mhwiroot][p] # "file" => Own(p)
<1>1. AllInv /\ [Next]_vars => Kept
  <2> SUFFICES ASSUME AllInv, [Next]_vars, Calm,
                      NEW p \in Paths, tree[p] = "file", fs'[mhwiroot][p] # "file"
               PROVE  Own(p)
    OBVIOUS
  <2>1. Before
    BY DEF AllInv, CalmStoreInv, Before
  <2>2. /\ tree' = fs'[mhwiroot] /\ tree \in [Paths -> Kinds]
        /\ UninstallInv /\ InstallFrame /\ InstallLoops /\ RowsInv
    BY <2>1, Frame DEF tree, Before, StoreInv
  <2>3. p = Head(todo) /\ todo # <<>> /\ pc \in {"rb_unlink", "unlink"}
    <3>1. CASE Creates
      <4>1. CanCreate(Head(todo)) /\ \E kind : tree' = [tree EXCEPT ![Head(todo)] = kind]
        BY <3>1 DEF Creates, Puts
      <4> QED
        BY <2>2, <4>1 DEF CanCreate
    <3>2. CASE Unlinks
      BY <2>2, <3>2 DEF Unlinks, Puts
    <3>3. CASE Rmdirs
      <4>1. CanRmdir(Head(todo)) /\ tree' = [tree EXCEPT ![Head(todo)] = "none"]
        BY <3>3 DEF Rmdirs, Puts
      <4> QED
        BY <2>2, <4>1 DEF CanRmdir
    <3> QED
      BY <2>1, <2>2, <3>1, <3>2, <3>3, TreeStep
  <2>4. /\ p \in ToSet(todo) /\ pc \in {"rb_unlink", "unlink"}
        /\ cmd.op \in {"INSTALL", "UNINSTALL"} /\ cmd.name \in Names
    BY <2>1, <2>3, TodoIsMine, TheCommand
  <2>5. CASE cmd.op = "INSTALL"
    <3>1. Installing /\ p \in MyFiles
      BY <2>2, <2>4, <2>5 DEF Installing, InstallLoops
    <3> QED
      BY <2>2, <3>1 DEF InstallFrame
  <2>6. CASE cmd.op = "UNINSTALL"
    <3>1. pc = "unlink" /\ start.table = table /\ p \in MyPaths \cap ModFiles
      BY <2>1, <2>2, <2>4, <2>6 DEF UninstallInv, Before, StoreInv, CalmInv
    <3>2. PICK row \in table : row.name = cmd.name /\ row.path = p
      BY <3>1 DEF MyPaths, Mine
    <3>3. \A other \in table : other.path = p => other = row
      BY <2>2, <3>1, <3>2 DEF RowsInv
    <3> QED
      BY <3>1, <3>2, <3>3 DEF PathsOf
  <2> QED
    BY <2>4, <2>5, <2>6
<1>2. AllInv /\ [Next]_vars => [Kept]_vars
  BY <1>1
<1>3. [][Kept]_vars => OnlyOwnFilesRemoved
  BY DEF OnlyOwnFilesRemoved
<1> QED
  BY <1>2, <1>3, AllInvHolds, PTL DEF Spec

\* Whatever the environment does: the DELETE names the mod, and the answer tells of
\* one that was carried out.
DeletedInv ==
  /\ pc = "del" => record_buf = NameOnly(cmd.name)
  /\ pc = "after" /\ cmd.op = "UNINSTALL" /\ current_status # "ERROR" => Mine = {}
  /\ pc = "reply" /\ cmd.op = "UNINSTALL" /\ reply = "done" => Mine = {}

LEMMA DeletedInvStep ==
  ASSUME TypeInv, NoOpenSelect, DeletedInv, [Next]_vars
  PROVE  DeletedInv'
<1> USE DEF Goto, Loop, Answer, Advance
<1>1. CASE UNCHANGED vars
  BY <1>1 DEF DeletedInv, vars, dbVars, request, Mine
<1>2. CASE FilesRemoved
  BY <1>2 DEF FilesRemoved, DeletedInv, registerDBOperation, request
<1>3. CASE Del
  <2>1. /\ pc = "del" /\ ~more_rows /\ current_op = "DEL" /\ record_buf = NameOnly(cmd.name)
        /\ pc' = "after" /\ cmd' = cmd
    BY <1>3 DEF Del, NoOpenSelect, TypeInv, ToRecord, DeletedInv, request
  <2>2. PICK fails \in BOOLEAN : RegisterAndExecute("DEL", record_buf, fails)
    BY <1>3, <2>1 DEF Del, executeDBOperation, Fault
  <2>3. \/ current_status' = "ERROR"
        \/ table' = {row \in table : row.name # cmd.name}
    BY <2>1, <2>2
       DEF RegisterAndExecute, ResumeSelect, StartSelect, ExecuteNop, LacksValues, Insert,
           Delete, Complete, Matches, NameOnly
  <2> QED
    BY <2>1, <2>3 DEF DeletedInv, Mine
<1>4. CASE After
  <2>1. /\ pc = "after" /\ cmd' = cmd /\ table' = table
        /\ pc' \notin {"del", "after"}
        /\ pc' = "reply" /\ reply' = "done" => current_status # "ERROR"
    BY <1>4
       DEF After, RoundFails, BeginUninstall, resetDB, registerDBOperation, request
  <2> QED
    BY <2>1 DEF DeletedInv, Mine
<1>5. CASE AddsDone
  BY <1>5 DEF AddsDone, TypeInv, ToRecord, DeletedInv, request
<1>6. CASE AddFailed
  BY <1>6 DEF AddFailed, chgDBStatus, DeletedInv
<1>7. CASE Request \/ Kill \/ Quit \/ Config \/ Answered
  BY <1>7 DEF Request, Kill, Quit, Config, Answered, ToIdle, DeletedInv
<1>8. CASE Command /\ ~(FilesRemoved \/ Del \/ After \/ AddsDone \/ AddFailed \/ Answered)
  <2>1. pc' \notin {"del", "after"} /\ ~(pc' = "reply" /\ reply' = "done")
    BY <1>8
       DEF Command, FetchName, FetchPath, StatRow, Asked, Traverse, Check, Mkdir, MkdirsDone,
           Link, LinksDone, RbUnlink, RbUnlinksDone, RollbackDirectories, RbRmdir, RolledBack,
           Add, AddUndo, RoundFails, BeginsUninstall, BeginUninstall, Unlink, UnlinksDone,
           Rmdir, UninstallFails, Undone, Installed
  <2> QED
    BY <2>1 DEF DeletedInv
<1> QED
  BY <1>1, <1>2, <1>3, <1>4, <1>5, <1>6, <1>7, <1>8 DEF Next

\* Whatever fails, an UNINSTALL that succeeds has deleted all rows of the mod; and in
\* a calm environment, whatever mods and games there are, it has removed what they
\* named, but for directories that hold something else.
THEOREM UninstallsAreComplete == ASSUME GoodMods PROVE Spec => []UninstallIsComplete
<1>1. Init => DeletedInv
  BY DEF Init, DeletedInv
<1>2. AllInv /\ DeletedInv /\ [Next]_vars => DeletedInv'
  BY DeletedInvStep DEF AllInv
<1>3. AllInv /\ DeletedInv => UninstallIsComplete
  <2> SUFFICES ASSUME AllInv, DeletedInv, pc = "reply", cmd.op = "UNINSTALL", reply = "done"
               PROVE  /\ PathsOf(cmd.name, table) = {}
                      /\ Calm => \A p \in PathsOf(cmd.name, start.table) :
                                    tree[p] = "none" \/ NotEmpty(p)
    BY DEF UninstallIsComplete
  <2>1. PathsOf(cmd.name, table) = {}
    BY DEF DeletedInv, Mine, PathsOf
  <2>2. Calm => \A p \in PathsOf(cmd.name, start.table) : GoneOrHeld(p)
    BY DEF AllInv, CalmStoreInv, StoreInv, UninstallInv
  <2> QED
    BY <2>1, <2>2 DEF GoneOrHeld
<1> QED
  BY <1>1, <1>2, <1>3, AllInvHolds, PTL DEF Spec

-------------------------------------------------------------------------------
(* The registry.                                                           *)

Recs == {<<r.name, r.path>> : r \in FileRows}

\* While nothing of the mod is on record, it does not matter whether its rows count.
LEMMA SameRecs ==
  ASSUME UNCHANGED table, Undying' = Undying, cmd' = cmd,
         Pending' = Pending \/ Mine = {}
  PROVE  Recs' = Recs
<1>1. FileRows' = FileRows
  BY DEF FileRows, Mine
<1> QED
  BY <1>1 DEF Recs

LEMMA FileRowsAre ==
  /\ Undying => FileRows = {r \in table : r.path \in ModFiles /\ ~(Pending /\ r.name = cmd.name)}
  /\ Undying' =>
       FileRows' = {r \in table' : r.path \in ModFiles /\ ~(Pending' /\ r.name = cmd'.name)}
<1>1. \A r : (\E d \in Dirs : r.path \in ToSet(Listing[d].files)) <=> r.path \in ModFiles
  BY DEF ModFiles
<1> QED
  BY <1>1 DEF FileRows

\* The answer to an INSTALL is the step in which its files are recorded.
LEMMA InstallRecords ==
  ASSUME GoodMods, Before, Undying, Undying', pc = "after", cmd.op = "INSTALL",
         current_status # "ERROR", pc' = "reply", UNCHANGED <<table, cmd>>
  PROVE  Registry!Add(cmd.name, MyFiles)
<1>1. /\ Installing /\ Pending /\ ~Pending'
      /\ MyPaths = MyDirs \cup MyFiles
      /\ MyDirs \cap ModFiles = {} /\ MyFiles \subseteq ModFiles
      /\ \A row \in table : row.path \in MyFiles => row.name = cmd.name
  BY MyMod, OthersAnchored DEF Installing, Pending, Before, StoreInv, AddInv
<1>2. FileRows = {r \in table : r.path \in ModFiles /\ r.name # cmd.name}
  BY <1>1, FileRowsAre
<1>3. FileRows' = {r \in table : r.path \in ModFiles}
  <2>1. FileRows' = {r \in table' : r.path \in ModFiles /\ ~(Pending' /\ r.name = cmd'.name)}
    BY FileRowsAre
  <2> QED
    BY <1>1, <2>1
<1>4. \A q : q \in MyFiles <=> \E r \in table : r.name = cmd.name /\ r.path \in ModFiles /\ r.path = q
  BY <1>1 DEF MyPaths, Mine
<1>5. Recs' = Recs \cup ({cmd.name} \X MyFiles)
  <2>1. \A x \in Recs' : x \in Recs \/ x \in {cmd.name} \X MyFiles
    BY <1>2, <1>3, <1>4 DEF Recs
  <2>2. \A x \in Recs : x \in Recs'
    BY <1>2, <1>3 DEF Recs
  <2>3. \A x \in {cmd.name} \X MyFiles : x \in Recs'
    BY <1>3, <1>4 DEF Recs
  <2> QED
    BY <2>1, <2>2, <2>3
<1>6. \A x \in Recs : x[1] # cmd.name /\ x[2] \notin MyFiles
  BY <1>1, <1>2 DEF Recs
<1>7. Registry!FilesOn(cmd.name) = {}
  BY <1>6 DEF Registry!FilesOn, Recs
<1>8. \A m \in Names : Registry!FilesOn(m) \cap MyFiles = {}
  BY <1>6 DEF Registry!FilesOn, Recs
<1> QED
  BY <1>5, <1>7, <1>8 DEF Registry!Add, Recs

\* The DELETE of an UNINSTALL is the step in which the mod is forgotten.
LEMMA UninstallForgets ==
  ASSUME Undying, Undying', ~Pending, ~Pending', table' = table \ Mine
  PROVE  Registry!Remove(cmd.name)
<1>1. FileRows = {r \in table : r.path \in ModFiles}
  BY FileRowsAre
<1>2. FileRows' = {r \in table : r.path \in ModFiles /\ r.name # cmd.name}
  <2>1. FileRows' = {r \in table' : r.path \in ModFiles /\ ~(Pending' /\ r.name = cmd'.name)}
    BY FileRowsAre
  <2> QED
    BY <2>1 DEF Mine
<1>3. Recs' = {x \in Recs : x[1] # cmd.name}
  BY <1>1, <1>2 DEF Recs
<1> QED
  BY <1>3 DEF Registry!Remove, Recs

LEMMA NextIsRegistryNext ==
  ASSUME GoodMods, AllInv, [Next]_vars
  PROVE  [Registry!Next]_Recs
<1> USE DEF Goto, Loop, Answer, Advance
<1>1. CASE ~Calm
  <2>1. ~Undying /\ ~Undying'
    BY <1>1, CalmStays DEF AllInv, Undying
  <2>2. Recs' = Recs
    BY <2>1 DEF Recs, FileRows
  <2> QED
    BY <2>2
<1>2. CASE Calm
  <2>1. Before
    BY <1>2 DEF AllInv, CalmStoreInv, Before
  <2>2. /\ Undying' = Undying
        /\ pc # "idle" => cmd.name \in Names /\ cmd.dir \in Dirs
        /\ pc # "idle" /\ pc' # "idle" => cmd' = cmd
        /\ pc = "idle" => pc' \in {"idle", "ask"} /\ table' = table
    BY <1>2, <2>1, Frame DEF Undying
  <2>3. CASE ~Undying
    <3>1. Recs' = Recs
      BY <2>2, <2>3 DEF Recs, FileRows
    <3> QED
      BY <3>1
  <2>4. CASE Undying /\ Pending /\ Pending'
    <3>1. cmd' = cmd
      BY <2>2, <2>4 DEF Pending
    <3>2. \A r : r.name # cmd.name => (r \in table' <=> r \in table)
      <4>1. CASE Inserts
        BY <4>1 DEF Inserts
      <4>2. CASE Deletes
        BY <4>2 DEF Deletes, Mine
      <4> QED
        BY <2>1, <4>1, <4>2, TableStep
    <3>3. FileRows' = FileRows
      BY <2>2, <2>4, <3>1, <3>2 DEF FileRows
    <3>4. Recs' = Recs
      BY <3>3 DEF Recs
    <3> QED
      BY <3>4
  <2>5. CASE Undying /\ ~Pending /\ Pending'
    <3>1. /\ pc # "idle" /\ pc' # "idle" /\ cmd' = cmd /\ cmd.op = "INSTALL"
          /\ pc \notin {"add", "add_undo", "add_failed", "after"}
          /\ pc' \in {"add", "add_undo", "add_failed", "after"}
      BY <2>2, <2>5 DEF Pending
    <3>2. pc = "link" /\ table' = table
      <4>1. CASE Request \/ Config \/ Kill \/ Quit \/ Answered \/ UNCHANGED vars
        BY <3>1, <4>1 DEF Request, Config, Kill, Quit, Answered, ToIdle, vars
      <4>2. CASE Command /\ ~Answered
        <5>1. pc = "del" => cmd.op = "UNINSTALL"
          BY <2>1 DEF Before, StoreInv, CalmInv
        <5> QED
          BY <3>1, <4>2, <5>1
             DEF Command, FetchName, FetchPath, StatRow, Asked, Traverse, Check, Mkdir,
                 MkdirsDone, Link, LinksDone, RbUnlink, RbUnlinksDone, RollbackDirectories,
                 RbRmdir, RolledBack, Add, AddsDone, AddUndo, AddFailed, After, RoundFails,
                 BeginsUninstall, BeginUninstall, Unlink, UnlinksDone, Rmdir, UninstallFails,
                 Undone, FilesRemoved, Del, Installed, registerDBOperation
      <4> QED
        BY <4>1, <4>2 DEF Next
    <3>3. Mine = {}
      BY <2>1, <3>1, <3>2 DEF Before, StoreInv, InstallFrame
    <3>4. Recs' = Recs
      BY <2>2, <3>1, <3>2, <3>3, SameRecs
    <3> QED
      BY <3>4
  <2>6. CASE Undying /\ Pending /\ ~Pending'
    <3>1. /\ cmd.op = "INSTALL" /\ Installing /\ pc \in {"add", "add_undo", "add_failed", "after"}
          /\ env.kill = {} /\ pc # "idle"
      BY <2>6 DEF Pending, Installing, Undying
    <3>2. pc = "after" /\ table' = table /\ pc' # "idle"
          /\ (current_status = "ERROR" \/ pc' = "reply")
      <4>1. CASE Request \/ Config \/ Kill \/ Quit \/ Answered \/ UNCHANGED vars
        <5>1. UNCHANGED <<pc, cmd>>
          BY <3>1, <4>1 DEF Request, Config, Kill, Quit, Answered, vars, request
        <5> QED
          BY <2>6, <5>1 DEF Pending
      <4>2. CASE Command /\ ~Answered
        <5>1. pc' \notin {"add", "add_undo", "add_failed", "after"} \/ cmd'.op # "INSTALL"
          BY <2>6 DEF Pending
        <5> QED
          BY <3>1, <4>2, <5>1
             DEF Command, FetchName, FetchPath, StatRow, Asked, Traverse, Check, Mkdir,
                 MkdirsDone, Link, LinksDone, RbUnlink, RbUnlinksDone, RbRmdir, RolledBack,
                 Add, AddsDone, AddUndo, AddFailed, After, RoundFails, resetDB,
                 registerDBOperation, BeginsUninstall, BeginUninstall, Unlink, UnlinksDone,
                 Rmdir, UninstallFails, Undone, FilesRemoved, Del, Installed, request
      <4> QED
        BY <4>1, <4>2 DEF Next
    <3>3. cmd' = cmd
      BY <2>2, <3>1, <3>2
    <3>4. CASE current_status = "ERROR"
      <4>1. Mine = {}
        BY <2>1, <3>1, <3>2, <3>4 DEF Before, StoreInv, AddInv
      <4>2. Recs' = Recs
        BY <2>2, <3>2, <3>3, <4>1, SameRecs
      <4> QED
        BY <4>2
    <3>5. CASE current_status # "ERROR"
      <4>1. Registry!Add(cmd.name, MyFiles)
        BY <2>1, <2>2, <2>6, <3>1, <3>2, <3>3, <3>5, InstallRecords
      <4>2. cmd.name \in Names /\ MyFiles \in SUBSET Paths
        BY <2>1, <2>2, <3>1, MyMod
      <4> QED
        BY <4>1, <4>2 DEF Registry!Next, Registry!Add, Registry!FilesOn
    <3> QED
      BY <3>4, <3>5
  <2>7. CASE Undying /\ ~Pending /\ ~Pending'
    <3>1. CASE table' = table
      <4>1. FileRows' = FileRows
        BY <2>2, <2>7, <3>1 DEF FileRows
      <4>2. Recs' = Recs
        BY <4>1 DEF Recs
      <4> QED
        BY <4>2
    <3>2. CASE table' # table
      <4>1. Deletes /\ pc = "del"
        <5>1. pc \in {"add", "add_undo"} => Pending
          BY <2>1 DEF Before, TypeInv, ToRecord, Pending
        <5> QED
          BY <2>1, <2>7, <3>2, <5>1, TableStep DEF Inserts, Deletes
      <4>2. Registry!Remove(cmd.name)
        BY <2>2, <2>7, <4>1, UninstallForgets DEF Deletes
      <4>3. cmd.name \in Names
        BY <2>2, <4>1
      <4> QED
        BY <4>2, <4>3 DEF Registry!Next, Registry!Remove
    <3> QED
      BY <3>1, <3>2
  <2> QED
    BY <2>3, <2>4, <2>5, <2>6, <2>7
<1> QED
  BY <1>1, <1>2

\* Whatever mods and games there are, unless the process is killed or what reads or
\* undoes fails, the rows of the table, of which an INSTALL inserts one after the
\* other, implement the registry, which records a mod's files at once: nobody else
\* has one of them, and do_DB_add's undo and the DELETE of UNINSTALL take all.
THEOREM TableIsRegistry == ASSUME GoodMods PROVE Spec => ImplementsRegistry
<1>1. Init => Registry!Init
  <2> SUFFICES ASSUME Init PROVE Registry!Init
    OBVIOUS
  <2>1. FileRows = {}
    BY DEF Init, DbInit, FileRows
  <2> QED
    BY <2>1 DEF Registry!Init
<1>2. AllInv /\ [Next]_vars => [Registry!Next]_Recs
  BY NextIsRegistryNext
<1> QED
  BY <1>1, <1>2, AllInvHolds, PTL DEF Spec, ImplementsRegistry, Registry!Spec, Recs

-------------------------------------------------------------------------------
(* INSTALLED.                                                              *)

NamesOnRecord == {row.name : row \in table}

\* What an ASK for names has listed.  A SELECT that an ASK for paths has left open,
\* because a stat has failed, finds no row: the buffer it is bound to holds no name.
NamesInv ==
  /\ ~more_rows => sql_stmt = NoStmt
  /\ pc = "ask" /\ interest_field = "NAME" =>
       /\ record_buf.set = {}
       /\ \/ ~more_rows /\ directory_list = <<>>
          \/ /\ more_rows /\ sql_stmt.where = {}
             /\ ToSet(directory_list) = {row.name : row \in {r \in table : r.id <= sql_stmt.at}}
             /\ \E row \in table : row.id = sql_stmt.at /\ row.name = Head(directory_list)
          \/ /\ more_rows /\ sql_stmt.where = {"name"} /\ record_buf.name = Bug
             /\ directory_list = <<>>
  /\ ~(pc = "ask" /\ interest_field = "NAME") /\ more_rows => sql_stmt.where = {"name"}
  /\ pc \in {"ask", "stat"} /\ interest_field = "PATH" => record_buf.set = {"name"}
  /\ pc = "stat" => interest_field = "PATH"
  /\ pc # "idle" => interest_field = IF cmd.op = "INSTALLED" THEN "NAME" ELSE "PATH"
  /\ pc = "idle" => directory_list = <<>>
  /\ cmd.op = "INSTALLED" /\ (pc = "execute" \/ (pc = "asked" /\ current_status # "ERROR")) =>
       directory_list = <<>> \/ ToSet(directory_list) = NamesOnRecord
  /\ pc = "reply" /\ reply = "list" => ToSet(directory_list) = NamesOnRecord

\* What is equal is not kept apart by what is not.
InRuns(s) == \A i, j, k \in DOMAIN s : i < j /\ j < k /\ s[i] = s[k] => s[j] = s[i]

\* The rows of a mod are next to each other, and so are its names in the list, of
\* which unique() leaves one.
OnceInv ==
  /\ \A r, s, t \in table : r.id < s.id /\ s.id < t.id /\ r.name = t.name => s.name = r.name
  /\ pc = "ask" /\ interest_field = "NAME" => InRuns(directory_list)
  /\ \/ pc \in {"asked", "execute"} /\ cmd.op = "INSTALLED"
     \/ pc = "reply" /\ reply = "list"
     => IsInjective(directory_list)

\* unique() leaves one of each of what is there.
LEMMA UniqueKeepsEach ==
  ASSUME NEW S, NEW s \in Seq(S)
  PROVE  ToSet(Unique(s)) = ToSet(s)
<1>1. PICK at \in [DOMAIN Unique(s) -> RunStarts(s)] :
        /\ \A k \in DOMAIN Unique(s) : Unique(s)[k] = s[at[k]]
        /\ \A i \in RunStarts(s) : \E k \in DOMAIN Unique(s) : at[k] = i
  BY UniqueTakesStarts
<1>2. ToSet(Unique(s)) \subseteq ToSet(s)
  BY <1>1 DEF ToSet, RunStarts
<1>3. ASSUME NEW x \in ToSet(s) PROVE \E i \in RunStarts(s) : s[i] = x
  <2> DEFINE At == {i \in DOMAIN s : s[i] = x}
  <2>1. DOMAIN s = 1..Len(s) /\ Len(s) \in Nat
    OBVIOUS
  <2>2. At # {} /\ At \subseteq Nat
    BY <2>1 DEF ToSet
  <2>3. PICK i \in At : \A j \in At : ~(<<j, i>> \in OpToRel(<, Nat))
    BY <2>2, NatLessThanWellFounded, WFMin, Zenon
  <2>4. \A j \in At : ~(j < i)
    BY <2>2, <2>3 DEF OpToRel
  <2>5. i = 1 \/ s[i - 1] # s[i]
    BY <2>1, <2>4
  <2> QED
    BY <2>5 DEF RunStarts
<1>4. ToSet(s) \subseteq ToSet(Unique(s))
  <2> SUFFICES ASSUME NEW x \in ToSet(s) PROVE x \in ToSet(Unique(s))
    OBVIOUS
  <2>1. PICK i \in RunStarts(s) : s[i] = x
    BY <1>3
  <2>2. PICK k \in DOMAIN Unique(s) : at[k] = i
    BY <1>1
  <2> QED
    BY <1>1, <2>1, <2>2 DEF ToSet
<1> QED
  BY <1>2, <1>4

\* And only one of each, if the equal ones are neighbours.
LEMMA UniqueLeavesOne ==
  ASSUME NEW S, NEW s \in Seq(S), InRuns(s)
  PROVE  IsInjective(Unique(s))
<1>1. PICK at \in [DOMAIN Unique(s) -> RunStarts(s)] :
        /\ \A k \in DOMAIN Unique(s) : Unique(s)[k] = s[at[k]]
        /\ \A k, l \in DOMAIN Unique(s) : at[k] = at[l] => k = l
  BY UniqueTakesStarts
<1>2. DOMAIN s = 1..Len(s) /\ Len(s) \in Nat
  OBVIOUS
<1>3. ASSUME NEW i \in RunStarts(s), NEW j \in RunStarts(s), i < j
      PROVE  s[i] # s[j]
  <2>1. i \in DOMAIN s /\ j \in DOMAIN s /\ j - 1 \in DOMAIN s /\ s[j - 1] # s[j]
    BY <1>2, <1>3 DEF RunStarts
  <2>2. CASE i = j - 1
    BY <2>1, <2>2
  <2>3. CASE i < j - 1
    BY <1>2, <2>1, <2>3 DEF InRuns
  <2> QED
    BY <1>2, <1>3, <2>1, <2>2, <2>3
<1>4. \A i, j \in RunStarts(s) : i = j \/ i < j \/ j < i
  BY <1>2 DEF RunStarts
<1>5. \A k, l \in DOMAIN Unique(s) : Unique(s)[k] = Unique(s)[l] => at[k] = at[l]
  BY <1>1, <1>3, <1>4
<1> QED
  BY <1>1, <1>5 DEF IsInjective

LEMMA RunsFront ==
  ASSUME NEW S, NEW s \in Seq(S), InRuns(s), NEW n, n \in ToSet(s) => n = s[1]
  PROVE  InRuns(<<n>> \o s)
<1> DEFINE t == <<n>> \o s
<1>1. /\ Len(s) \in Nat /\ DOMAIN s = 1..Len(s) /\ DOMAIN t = 1..(Len(s) + 1)
      /\ t[1] = n /\ \A i \in DOMAIN s : t[i + 1] = s[i]
  OBVIOUS
<1>2. \A i \in DOMAIN t : i = 1 \/ (i - 1 \in DOMAIN s /\ t[i] = s[i - 1] /\ i > 1 /\ i \in Nat)
  BY <1>1
<1> HIDE DEF t
<1>3. ASSUME NEW i \in DOMAIN t, NEW j \in DOMAIN t, NEW k \in DOMAIN t,
             i < j, j < k, t[i] = t[k]
      PROVE  t[j] = t[i]
  <2>1. /\ j - 1 \in DOMAIN s /\ t[j] = s[j - 1]
        /\ k - 1 \in DOMAIN s /\ t[k] = s[k - 1] /\ j - 1 < k - 1
    BY <1>1, <1>2, <1>3
  <2>2. CASE i = 1
    <3>1. n \in ToSet(s) /\ s[k - 1] = n
      BY <1>1, <1>3, <2>1, <2>2 DEF ToSet
    <3>2. s[1] = n
      BY <3>1
    <3>3. CASE j - 1 = 1
      BY <1>1, <2>1, <2>2, <3>2, <3>3
    <3>4. CASE 1 < j - 1
      <4>1. s[j - 1] = s[1]
        BY <1>1, <2>1, <3>1, <3>2, <3>4 DEF InRuns
      <4> QED
        BY <1>1, <2>1, <2>2, <3>2, <4>1
    <3> QED
      BY <1>1, <2>1, <3>3, <3>4
  <2>3. CASE i # 1
    <3>1. i - 1 \in DOMAIN s /\ t[i] = s[i - 1] /\ i - 1 < j - 1
      BY <1>1, <1>2, <1>3, <2>3
    <3> QED
      BY <1>3, <2>1, <3>1 DEF InRuns
  <2> QED
    BY <2>2, <2>3
<1>4. InRuns(t)
  BY <1>3 DEF InRuns
<1> QED
  BY <1>4 DEF t

\* One more row is listed, or all of them are.
LEMMA NameFetched ==
  ASSUME TypeInv, NoOpenSelect, NamesInv, FetchName
  PROVE  /\ pc = "ask" /\ interest_field = "NAME" /\ UNCHANGED <<table, cmd, interest_field>>
         /\ ~more_rows' => sql_stmt' = NoStmt
         /\ \/ /\ pc' = "ask" /\ more_rows' /\ sql_stmt'.where = {} /\ record_buf'.set = {}
               /\ \E row \in table :
                    /\ sql_stmt'.at = row.id
                    /\ directory_list' = <<row.name>> \o directory_list
                    /\ ToSet(directory_list) \subseteq {r.name : r \in {q \in table : q.id < row.id}}
                    /\ directory_list # <<>> =>
                         \E last \in table :
                           /\ last.id < row.id /\ last.name = Head(directory_list)
                           /\ ToSet(directory_list) =
                                {r.name : r \in {q \in table : q.id <= last.id}}
                    /\ ToSet(directory_list') =
                         {r.name : r \in {q \in table : q.id <= row.id}}
            \/ /\ pc' = "asked" /\ ~more_rows' /\ directory_list' = Unique(directory_list)
               /\ directory_list = <<>> \/ ToSet(directory_list) = NamesOnRecord
            \/ /\ pc' = "asked" /\ ~more_rows' /\ current_status' = "ERROR"
               /\ directory_list' = directory_list
<1> USE DEF Goto
<1> DEFINE Upto(n) == {r.name : r \in {q \in table : q.id <= n}}
<1>1. /\ pc = "ask" /\ interest_field = "NAME" /\ UNCHANGED <<cmd, interest_field>>
      /\ ~more_rows => sql_stmt = NoStmt
      /\ record_buf.set = {} /\ record_buf \in Record
      /\ directory_list \in Seq(Paths \cup Names)
      /\ \A row \in table : row.id \in Nat /\ row.id > 0 /\ row.name \in Names
      /\ \A row, other \in table : row.id = other.id => row = other
      /\ \/ ~more_rows /\ directory_list = <<>>
         \/ /\ more_rows /\ sql_stmt.where = {} /\ ToSet(directory_list) = Upto(sql_stmt.at)
            /\ \E row \in table : row.id = sql_stmt.at /\ row.name = Head(directory_list)
         \/ /\ more_rows /\ sql_stmt.where = {"name"} /\ record_buf.name = Bug
            /\ directory_list = <<>>
  BY DEF FetchName, NamesInv, TypeInv, DbTypes, StoreTypes, IdsInv, Rows, request
<1>2. PICK fails : executeDBOperation(fails)
  BY DEF FetchName
<1>3. /\ current_op' = "ASK" /\ table' = table
      /\ \/ /\ current_status' = "WORKING" /\ more_rows'
            /\ \E row \in table :
                 /\ Wanted(row) /\ \A other \in table : Wanted(other) => row.id <= other.id
                 /\ sql_stmt' = [where |-> Where, at |-> row.id]
                 /\ record_buf' = [record_buf EXCEPT !.name = row.name, !.path = row.path]
         \/ /\ current_status' = "IDLE" /\ ~more_rows' /\ sql_stmt' = NoStmt
            /\ record_buf' = record_buf
            /\ \A row \in table : ~Wanted(row)
         \/ fails /\ current_status' = "ERROR" /\ ~more_rows' /\ sql_stmt' = NoStmt
  BY <1>1, <1>2, AnyFetchStep
<1>4. /\ more_rows /\ sql_stmt.where = {"name"} =>
           \A row \in table : ~Wanted(row)
      /\ ~(more_rows /\ sql_stmt.where = {"name"}) =>
           /\ Where = {} /\ \A row \in table : Wanted(row) <=> row.id > sql_stmt.at
  <2>1. ASSUME more_rows, sql_stmt.where = {"name"}, NEW row \in table
        PROVE  ~Wanted(row)
    <3>1. record_buf.name = Bug /\ row.name # Bug
      BY <1>1, <2>1, DbAssumption
    <3> QED
      BY <2>1, <3>1 DEF Wanted, Where, Matches
  <2>2. ASSUME ~(more_rows /\ sql_stmt.where = {"name"})
        PROVE  Where = {} /\ \A row \in table : Wanted(row) <=> row.id > sql_stmt.at
    <3>1. Where = {}
      BY <1>1, <2>2 DEF Where
    <3> QED
      BY <3>1 DEF Wanted, Matches
  <2> QED
    BY <2>1, <2>2
<1>5. CASE current_status' = "ERROR"
  BY <1>1, <1>3, <1>5 DEF FetchName
<1>6. CASE current_status' = "IDLE"
  <2>1. pc' = "asked" /\ directory_list' = Unique(directory_list)
    BY <1>6 DEF FetchName
  <2>2. ~more_rows' /\ sql_stmt' = NoStmt /\ \A row \in table : ~Wanted(row)
    BY <1>3, <1>6
  <2>3. directory_list = <<>> \/ ToSet(directory_list) = NamesOnRecord
    <3> SUFFICES ASSUME directory_list # <<>> PROVE ToSet(directory_list) = NamesOnRecord
      OBVIOUS
    <3>1. sql_stmt.where = {} /\ ToSet(directory_list) = Upto(sql_stmt.at)
          /\ \E row \in table : row.id = sql_stmt.at
      BY <1>1
    <3>2. \A row \in table : ~(row.id > sql_stmt.at)
      BY <1>4, <2>2, <3>1
    <3>3. \A row \in table : row.id <= sql_stmt.at
      BY <1>1, <3>1, <3>2
    <3> QED
      BY <3>1, <3>3 DEF NamesOnRecord
  <2> QED
    BY <1>1, <1>3, <2>1, <2>2, <2>3
<1>7. CASE current_status' = "WORKING"
  <2>1. pc' = "ask" /\ directory_list' = <<record_buf'.name>> \o directory_list
    BY <1>7 DEF FetchName
  <2>2. PICK row \in table :
          /\ Wanted(row) /\ \A other \in table : Wanted(other) => row.id <= other.id
          /\ sql_stmt' = [where |-> Where, at |-> row.id]
          /\ record_buf' = [record_buf EXCEPT !.name = row.name, !.path = row.path]
    BY <1>3, <1>7
  <2>3. /\ ~(more_rows /\ sql_stmt.where = {"name"}) /\ Where = {}
        /\ row.id > sql_stmt.at /\ \A other \in table : other.id > sql_stmt.at => row.id <= other.id
    BY <1>4, <2>2
  <2>4. /\ more_rows' /\ sql_stmt'.where = {} /\ sql_stmt'.at = row.id
        /\ record_buf'.set = {} /\ record_buf'.name = row.name
    BY <1>1, <1>3, <1>7, <2>2, <2>3 DEF Record
  <2>5. directory_list' = <<row.name>> \o directory_list
    BY <2>1, <2>4
  <2>6. /\ directory_list # <<>> =>
             \E last \in table :
               last.id < row.id /\ last.name = Head(directory_list)
               /\ ToSet(directory_list) = Upto(last.id)
        /\ ToSet(directory_list) = {r.name : r \in {q \in table : q.id < row.id}}
    <3>1. CASE ~more_rows
      <4>1. sql_stmt.at = 0 /\ directory_list = <<>>
        BY <1>1, <3>1 DEF NoStmt
      <4>2. \A q \in table : ~(q.id < row.id)
        BY <1>1, <2>3, <4>1
      <4> QED
        BY <4>1, <4>2, ListEmpty
    <3>2. CASE more_rows
      <4>1. PICK last \in table : last.id = sql_stmt.at /\ last.name = Head(directory_list)
        BY <1>1, <2>3, <3>2
      <4>2. ToSet(directory_list) = Upto(last.id)
        BY <1>1, <2>3, <3>2, <4>1
      <4>3. last.id < row.id /\ \A q \in table : q.id < row.id <=> q.id <= last.id
        BY <1>1, <2>3, <4>1
      <4> QED
        BY <4>1, <4>2, <4>3
    <3> QED
      BY <3>1, <3>2
  <2>7. ToSet(directory_list') = Upto(row.id)
    <3>1. ToSet(directory_list') = ToSet(directory_list) \cup {row.name}
      BY <1>1, <2>5, ListFront
    <3>2. \A q \in table : q.id <= row.id <=> q.id < row.id \/ q = row
      BY <1>1
    <3> QED
      BY <2>6, <3>1, <3>2
  <2> QED
    BY <1>1, <1>3, <2>1, <2>4, <2>5, <2>6, <2>7
<1> QED
  BY <1>3, <1>5, <1>6, <1>7

LEMMA CommandStays ==
  ASSUME [Next]_vars, pc # "idle", pc' # "idle"
  PROVE  UNCHANGED <<cmd, interest_field>>
<1> USE DEF request
<1>1. CASE Request \/ Config \/ Kill \/ Quit \/ Answered \/ UNCHANGED vars
  BY <1>1 DEF Request, Config, Kill, Quit, Answered, ToIdle, vars
<1>2. CASE Command /\ ~Answered
  BY <1>2
     DEF Command, FetchName, FetchPath, StatRow, Asked, Traverse, Check, Mkdir, MkdirsDone,
         Link, LinksDone, RbUnlink, RbUnlinksDone, RbRmdir, RolledBack, Add, AddsDone,
         AddUndo, AddFailed, After, BeginsUninstall, Unlink, UnlinksDone, Rmdir,
         UninstallFails, Undone, FilesRemoved, Del, Installed
<1> QED
  BY <1>1, <1>2 DEF Next

LEMMA NamesInvStep ==
  ASSUME TypeInv, NoOpenSelect, NamesInv, [Next]_vars
  PROVE  NamesInv'
<1> USE DEF Goto, Loop, Answer, Advance
<1>1. /\ ~more_rows => sql_stmt = NoStmt
      /\ ~(pc = "ask" /\ interest_field = "NAME") /\ more_rows => sql_stmt.where = {"name"}
      /\ pc = "stat" => interest_field = "PATH"
      /\ pc # "idle" => interest_field = IF cmd.op = "INSTALLED" THEN "NAME" ELSE "PATH"
      /\ pc = "idle" => directory_list = <<>>
      /\ directory_list \in Seq(Paths \cup Names)
  BY DEF NamesInv, TypeInv, StoreTypes
<1>2. CASE UNCHANGED vars
  BY <1>2 DEF NamesInv, vars, dbVars, request, lists, NamesOnRecord
<1>3. CASE Request
  <2>1. PICK c \in env.requests :
          /\ cmd' = c
          /\ registerDBOperation("ASK",
               IF c.op = "INSTALLED" THEN ZeroRecord ELSE NameOnly(c.name))
          /\ interest_field' = IF c.op = "INSTALLED" THEN "NAME" ELSE "PATH"
    BY <1>3 DEF Request
  <2>2. /\ pc = "idle" /\ pc' = "ask" /\ UNCHANGED <<more_rows, sql_stmt, directory_list>>
        /\ record_buf' = IF c.op = "INSTALLED" THEN ZeroRecord ELSE NameOnly(c.name)
    BY <1>3, <2>1 DEF Request, registerDBOperation, lists
  <2> QED
    BY <1>1, <2>1, <2>2 DEF NamesInv, ZeroRecord, NameOnly
<1>4. CASE FetchName
  <2>1. cmd.op = "INSTALLED"
    BY <1>1, <1>4 DEF FetchName
  <2>2. CASE pc' = "ask"
    <3>1. PICK row \in table :
            /\ sql_stmt'.at = row.id
            /\ directory_list' = <<row.name>> \o directory_list
            /\ ToSet(directory_list') = {r.name : r \in {q \in table : q.id <= row.id}}
      BY <1>4, <2>2, NameFetched
    <3>2. /\ interest_field' = "NAME" /\ UNCHANGED <<table, cmd, interest_field>>
          /\ more_rows' /\ sql_stmt'.where = {} /\ record_buf'.set = {}
      BY <1>4, <2>2, NameFetched
    <3>3. Head(directory_list') = row.name
      BY <1>1, <3>1
    <3> QED
      BY <2>1, <2>2, <3>1, <3>2, <3>3 DEF NamesInv
  <2>3. CASE pc' = "asked"
    <3>1. /\ UNCHANGED <<table, cmd, interest_field>> /\ interest_field' = "NAME"
          /\ ~more_rows' /\ sql_stmt' = NoStmt
          /\ \/ /\ directory_list' = Unique(directory_list)
                /\ directory_list = <<>> \/ ToSet(directory_list) = NamesOnRecord
             \/ current_status' = "ERROR"
      BY <1>4, <2>3, NameFetched
    <3>2. current_status' # "ERROR" =>
            directory_list' = <<>> \/ ToSet(directory_list') = NamesOnRecord
      <4>1. ToSet(Unique(directory_list)) = ToSet(directory_list)
            /\ Unique(directory_list) \in Seq(Paths \cup Names)
        BY <1>1, UniqueKeepsEach, UniqueIsSeq
      <4> QED
        BY <3>1, <4>1, ListEmpty
    <3> QED
      BY <2>1, <2>3, <3>1, <3>2 DEF NamesInv, NamesOnRecord
  <2> QED
    BY <1>4, <2>2, <2>3, NameFetched
<1>5. CASE FetchPath
  <2>1. /\ pc = "ask" /\ interest_field = "PATH" /\ UNCHANGED <<cmd, interest_field>>
        /\ record_buf.set = {"name"} /\ record_buf \in Record /\ Where = {"name"}
        /\ cmd.op # "INSTALLED"
        /\ pc' = IF current_status' = "WORKING" THEN "stat" ELSE "asked"
    BY <1>1, <1>5 DEF FetchPath, NamesInv, TypeInv, DbTypes, request, Where
  <2>2. PICK fails : executeDBOperation(fails)
    BY <1>5 DEF FetchPath
  <2>3. \/ /\ current_status' = "WORKING" /\ more_rows'
           /\ sql_stmt'.where = {"name"} /\ record_buf'.set = {"name"}
        \/ current_status' # "WORKING" /\ ~more_rows' /\ sql_stmt' = NoStmt
    <3>1. \/ /\ current_status' = "WORKING" /\ more_rows'
             /\ \E row \in table :
                  /\ sql_stmt' = [where |-> Where, at |-> row.id]
                  /\ record_buf' = [record_buf EXCEPT !.name = row.name, !.path = row.path]
          \/ current_status' # "WORKING" /\ ~more_rows' /\ sql_stmt' = NoStmt
      BY <1>1, <2>1, <2>2, AnyFetchStep
    <3>2. CASE current_status' = "WORKING"
      <4>1. PICK row \in table :
              /\ sql_stmt' = [where |-> Where, at |-> row.id]
              /\ record_buf' = [record_buf EXCEPT !.name = row.name, !.path = row.path]
        BY <3>1, <3>2
      <4>2. record_buf'.set = {"name"}
        BY <2>1, <4>1 DEF Record
      <4>3. sql_stmt'.where = {"name"}
        BY <2>1, <4>1
      <4> QED
        BY <3>1, <3>2, <4>2, <4>3
    <3> QED
      BY <3>1, <3>2
  <2> QED
    BY <2>1, <2>3 DEF NamesInv
<1>6. CASE StatRow
  <2>1. /\ pc = "stat" /\ interest_field = "PATH" /\ UNCHANGED <<cmd, interest_field>>
        /\ cmd.op # "INSTALLED" /\ pc' \in {"ask", "asked"}
        /\ UNCHANGED <<record_buf, more_rows, sql_stmt>>
    BY <1>1, <1>6 DEF StatRow, dbVars, chgDBStatus, request
  <2> QED
    BY <1>1, <2>1 DEF NamesInv
<1>7. CASE Asked
  <2>1. /\ pc = "asked" /\ UNCHANGED <<cmd, interest_field, table, more_rows, sql_stmt, directory_list>>
        /\ pc' \notin {"ask", "stat", "asked", "idle"}
        /\ pc' = "execute" => current_status # "ERROR"
        /\ ~(pc' = "reply" /\ reply' = "list")
    BY <1>7 DEF Asked, resetDB, registerDBOperation, request, lists, RoundFails, BeginUninstall
  <2> QED
    BY <1>1, <2>1 DEF NamesInv, NamesOnRecord
<1>8. CASE Installed
  <2>1. /\ pc = "execute" /\ cmd.op = "INSTALLED" /\ pc' = "reply"
        /\ UNCHANGED <<cmd, interest_field, table, more_rows, sql_stmt, directory_list>>
        /\ reply' = "list" => directory_list # <<>>
    BY <1>8 DEF Installed, dbVars, request, lists
  <2> QED
    BY <1>1, <2>1 DEF NamesInv, NamesOnRecord
<1>9. CASE Quit \/ Kill \/ Answered
  <2>1. /\ pc' = "idle" /\ directory_list' = <<>> /\ interest_field' = "NONE"
        /\ \/ ~more_rows' /\ sql_stmt' = NoStmt
           \/ pc = "reply" /\ UNCHANGED <<more_rows, sql_stmt>>
    BY <1>9 DEF Quit, Kill, Answered, ToIdle, Reopen, dbVars
  <2> QED
    BY <1>1, <2>1 DEF NamesInv
<1>10. CASE Config
  BY <1>1, <1>10 DEF Config, NamesInv, dbVars, lists
<1>11. CASE Command /\ ~(FetchName \/ FetchPath \/ StatRow \/ Asked \/ Installed \/ Answered)
  <2>1. /\ pc \notin {"idle", "ask"} /\ pc' \notin {"ask", "stat", "asked", "execute", "idle"}
        /\ ~(pc' = "reply" /\ reply' = "list")
        /\ UNCHANGED <<more_rows, sql_stmt>> \/ Add \/ AddUndo \/ Del
    BY <1>11
       DEF Command, Traverse, Check, Mkdir, MkdirsDone, Link, LinksDone, RbUnlink,
           RbUnlinksDone, RollbackDirectories, RbRmdir, RolledBack, Add, AddsDone, AddUndo,
           AddFailed, After, RoundFails, BeginsUninstall, BeginUninstall, Unlink, UnlinksDone,
           Rmdir, UninstallFails, Undone, FilesRemoved, Del,
           dbVars, registerDBOperation, chgDBStatus, resetDB
  <2>2. ASSUME Add \/ AddUndo \/ Del
        PROVE  ~more_rows' /\ sql_stmt' = NoStmt
    <3>1. ~more_rows /\ sql_stmt = NoStmt
      BY <1>1, <2>2 DEF Add, AddUndo, Del, NoOpenSelect
    <3>2. PICK op \in {"ADD", "DEL"} : \E buf, fails : RegisterAndExecute(op, buf, fails)
      <4>1. CASE Add
        BY <4>1 DEF Add
      <4>2. CASE AddUndo
        BY <4>2 DEF AddUndo
      <4>3. CASE Del
        BY <4>3 DEF Del, executeDBOperation, TypeInv, ToRecord
      <4> QED
        BY <2>2, <4>1, <4>2, <4>3
    <3> QED
      BY <3>1, <3>2
         DEF RegisterAndExecute, ResumeSelect, StartSelect, ExecuteNop, LacksValues, Insert,
             Delete, Complete
  <2>3. UNCHANGED <<cmd, interest_field>>
    BY <2>1, CommandStays
  <2> QED
    BY <1>1, <2>1, <2>2, <2>3 DEF NamesInv
<1> QED
  BY <1>2, <1>3, <1>4, <1>5, <1>6, <1>7, <1>8, <1>9, <1>10, <1>11 DEF Next, Command

LEMMA OnceInvStep ==
  ASSUME GoodMods, Before, NamesInv, OnceInv, [Next]_vars
  PROVE  OnceInv'
<1> USE DEF Goto, Loop, Answer, Advance
<1>1. /\ \A r, s, t \in table : r.id < s.id /\ s.id < t.id /\ r.name = t.name => s.name = r.name
      /\ directory_list \in Seq(Paths \cup Names)
      /\ \A row \in table : row.id \in Nat
      /\ \A row, other \in table : row.id = other.id => row = other
      /\ pc # "idle" => interest_field = IF cmd.op = "INSTALLED" THEN "NAME" ELSE "PATH"
  BY DEF OnceInv, Before, TypeInv, StoreTypes, IdsInv, Rows, NamesInv
<1>2. \A r, s, t \in table' : r.id < s.id /\ s.id < t.id /\ r.name = t.name => s.name = r.name
  <2>1. CASE table' \subseteq table
    BY <1>1, <2>1
  <2>2. CASE Inserts
    <3> DEFINE new == [id |-> NextId, name |-> cmd.name, path |-> Head(todo)]
    <3>1. table' = table \cup {new} /\ new.id = NextId /\ new.name = cmd.name
      BY <2>2 DEF Inserts
    <3> HIDE DEF new
    <3>2. \A row \in table : row.id < new.id /\ new.id \in Nat
      BY <3>1, NextIdIsNew DEF Before, TypeInv
    <3>3. \A r \in Mine, s \in table : r.id < s.id => s \in Mine
      BY <2>2 DEF Inserts, Before, TypeInv, ToRecord, StoreInv, AddInv
    <3>4. \A r, s \in table : r.id < s.id /\ r.name = new.name => s.name = r.name
      BY <3>1, <3>3 DEF Mine
    <3> QED
      BY <1>1, <3>1, <3>2, <3>4
  <2> QED
    BY <2>1, <2>2, TableStep DEF Deletes
<1>3. CASE FetchName
  <2>1. InRuns(directory_list) /\ UNCHANGED <<cmd, interest_field, table>>
    BY <1>3, NameFetched DEF OnceInv, Before
  <2>2. CASE pc' = "ask"
    <3>1. PICK row \in table :
            /\ directory_list' = <<row.name>> \o directory_list
            /\ directory_list # <<>> =>
                 \E last \in table :
                   /\ last.id < row.id /\ last.name = Head(directory_list)
                   /\ ToSet(directory_list) = {r.name : r \in {q \in table : q.id <= last.id}}
      BY <1>3, <2>2, NameFetched DEF Before
    <3>2. row.name \in ToSet(directory_list) => row.name = directory_list[1]
      <4> SUFFICES ASSUME row.name \in ToSet(directory_list)
                   PROVE  row.name = directory_list[1]
        OBVIOUS
      <4>1. directory_list # <<>> /\ Head(directory_list) = directory_list[1]
        BY <1>1, ListEmpty
      <4>2. PICK last \in table :
              /\ last.id < row.id /\ last.name = Head(directory_list)
              /\ ToSet(directory_list) = {r.name : r \in {q \in table : q.id <= last.id}}
        BY <3>1, <4>1
      <4>3. PICK q \in table : q.id <= last.id /\ q.name = row.name
        BY <4>2
      <4>4. last.name = row.name
        BY <1>1, <4>2, <4>3
      <4> QED
        BY <4>1, <4>2, <4>4
    <3>3. InRuns(directory_list')
      BY <1>1, <2>1, <3>1, <3>2, RunsFront
    <3> QED
      BY <1>2, <2>2, <3>3 DEF OnceInv
  <2>3. CASE pc' = "asked"
    <3>1. directory_list' = Unique(directory_list)
      <4>1. pc' = "asked" /\ current_status' = "ERROR" => FALSE
        <5>1. CalmInv'
          BY CalmInvStep
        <5> QED
          BY <5>1 DEF CalmInv
      <4> QED
        BY <1>3, <2>3, <4>1, NameFetched DEF Before
    <3>2. IsInjective(directory_list')
      BY <1>1, <2>1, <3>1, UniqueLeavesOne
    <3> QED
      BY <1>2, <2>3, <3>2 DEF OnceInv
  <2> QED
    BY <1>3, <2>2, <2>3, NameFetched DEF Before
<1>4. CASE Request
  <2>1. pc' = "ask" /\ directory_list' = <<>>
    BY <1>4 DEF Request, lists, NamesInv
  <2> QED
    BY <1>2, <2>1 DEF OnceInv, InRuns
<1>5. CASE Asked \/ Installed
  <2>1. /\ pc \in {"asked", "execute"} /\ UNCHANGED <<cmd, directory_list>>
        /\ pc' \notin {"ask", "asked"}
        /\ pc' = "reply" /\ reply' = "list" => cmd.op = "INSTALLED"
    BY <1>5 DEF Asked, Installed, request, lists, RoundFails, BeginUninstall
  <2> QED
    BY <1>2, <2>1 DEF OnceInv
<1>6. CASE UNCHANGED vars
  BY <1>6 DEF OnceInv, vars, dbVars, request, lists
<1>7. CASE Quit \/ Kill \/ Answered \/ Config
  BY <1>2, <1>7 DEF Quit, Kill, Answered, ToIdle, Config, OnceInv
<1>8. CASE FetchPath \/ StatRow
  <2>1. /\ UNCHANGED <<cmd, interest_field>> /\ interest_field = "PATH" /\ pc # "idle"
        /\ pc' \in {"ask", "stat", "asked"}
    BY <1>8 DEF FetchPath, StatRow, request, NamesInv
  <2> QED
    BY <1>1, <1>2, <2>1 DEF OnceInv
<1>9. CASE Command /\ ~(FetchName \/ FetchPath \/ StatRow \/ Asked \/ Installed \/ Answered)
  <2>1. pc' \notin {"ask", "asked", "execute"} /\ ~(pc' = "reply" /\ reply' = "list")
    BY <1>9
       DEF Command, Traverse, Check, Mkdir, MkdirsDone, Link, LinksDone, RbUnlink,
           RbUnlinksDone, RollbackDirectories, RbRmdir, RolledBack, Add, AddsDone, AddUndo,
           AddFailed, After, RoundFails, BeginsUninstall, BeginUninstall, Unlink, UnlinksDone,
           Rmdir, UninstallFails, Undone, FilesRemoved, Del
  <2> QED
    BY <1>2, <2>1 DEF OnceInv
<1> QED
  BY <1>3, <1>4, <1>5, <1>6, <1>7, <1>8, <1>9 DEF Next, Command

\* Whatever fails, an INSTALLED that prints a list prints all mods on record and
\* nothing else; and in a calm environment, whatever mods and games there are, each
\* of them once: the INSERTs of one mod are not interleaved with those of another.
THEOREM ListIsExact == ASSUME GoodMods PROVE Spec => []InstalledIsExact
<1> DEFINE Once == Calm => OnceInv
<1>1. Init => NamesInv /\ Once
  <2> SUFFICES ASSUME Init PROVE NamesInv /\ OnceInv
    OBVIOUS
  <2>1. /\ pc = "idle" /\ table = {} /\ ~more_rows /\ sql_stmt = NoStmt /\ directory_list = <<>>
    BY DEF Init, DbInit
  <2> QED
    BY <2>1 DEF NamesInv, OnceInv
<1>2. AllInv /\ NamesInv /\ Once /\ [Next]_vars => NamesInv' /\ Once'
  <2> SUFFICES ASSUME AllInv, NamesInv, Once, [Next]_vars PROVE NamesInv' /\ Once'
    OBVIOUS
  <2>1. NamesInv'
    BY NamesInvStep DEF AllInv
  <2>2. ASSUME Calm' PROVE OnceInv'
    <3>1. Calm /\ Before
      BY <2>2, CalmStays DEF AllInv, CalmStoreInv, Before
    <3> QED
      BY <3>1, OnceInvStep
  <2> QED
    BY <2>1, <2>2
<1>3. NamesInv /\ Once => InstalledIsExact
  BY DEF NamesInv, OnceInv, InstalledIsExact, NamesOnRecord
<1> HIDE DEF Once
<1> QED
  BY <1>1, <1>2, <1>3, AllInvHolds, PTL DEF Spec
===============================================================================
