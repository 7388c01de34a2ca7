# mhwimm in TLA+

mhwimm is a command line tool that installs mods into the game directory of
Monster Hunter World: Iceborne by hard links and records them in an SQLite
table. This directory holds TLA+ models of the program, the TLC runs that check
them and the proofs that TLAPS checks. Paths like `src/src/main.cc` are relative
to the directory that holds this one.

## The system

| component | state | operations |
|---|---|---|
| `conditionv` (`inc/mhwimm_sync_mechanism.h`) | mutex, condition variable, sequence counter | `wait_cond_odd`, `wait_cond_even`, `unlock`, `update_and_notify` |
| UI thread (`mhwimm_ui_thread.cc`, `mhwimm_ui.cc`) | last line typed, `std::cin` | read, send a command, receive and print messages |
| Executor thread (`mhwimm_executor_thread.cc`) | which round of which command it is in | parse, ask the database, execute, add or delete records, undo, output |
| Executor commands (`mhwimm_executor.cc/.h`) | current command, parameters, output messages | `install`, `uninstall`, `installed`, `exit`, `cd`, `ls`, `pwd`, `config`, ... |
| Database thread (`mhwimm_database_thread.cc`, `mhwimm_db_reg_routines.cc`) | the registered operation, `interest_field`, `is_db_op_succeed` | one ASK, ADD or DEL per round; `resetDB` between rounds |
| Database handler (`mhwimm_database.cc/.h`) | `sql_stmt_`, `more_rows_indicator_`, `record_buf_` | `openDB`, `tryCreateTable`, `executeDBOperation`, `closeDB` |
| main thread, configuration (`main.cc`, `mhwimm_config.h`) | `config_t`, the config file | first start, start and join of the workers, rewrite of the config file |

The parts interact in three ways.

* **Turns.** UI and Executor share `ctrlmsg.condv_sync`, Executor and Database
  share `exedb_condv_sync`. The first of each pair waits for an even counter,
  the second for an odd one; `update_and_notify` passes the turn on, `unlock`
  alone keeps it. The Executor holds the first object for as long as it
  processes a command, and takes the second inside.
* **Shared data.** `ctrlmsg.status` and `io_buf`; the lists of
  `mod_files_list` (its `mod_name_list` is a *reference* to its
  `directory_list`); the fields of the database object that the `regDBop`
  helpers write; `is_db_op_succeed`; `program_exit`, written without a lock.
* **Persistent data.** Rows `(mod_name, file_path)` and the files below
  `mhwiroot`. They are updated in separate rounds of one command.

What is hard here: `resetDB` runs outside the mutex, between the end of a round
and the next wait; one `conditionv` notifies after it has unlocked; the failure
paths of a command leave by different combinations of `unlock` and
`update_and_notify`; a SELECT can be left open across rounds; install and
uninstall are sequences of system calls and SQL statements that can stop at any
point. `PROJECT.json` lists every hazard at its line.

What makes each part correct:

* `conditionv`: turns exclude one another, no wake-up is lost, a waiter whose
  parity is up is served, also when the counter has wrapped.
* UI and Executor: each side finds the status it asserts; every command is
  answered with all of its lines; exit ends everybody.
* Executor and Database: a round runs only for an Executor that waits; it
  carries out what was registered; a reported success is one.
* Commands and records: what is on record is what is in the game; a mod is
  recorded once and forgotten whole; no command removes a file of the game
  unless a mod, a failing `stat` or a second copy of the game exposes it, nor a
  file of another mod; an INSTALL that fails leaves nothing behind.
* Database handler: a write is carried out and never taken for the rest of a
  SELECT.
* Executor commands: every documented word is its command; the UI gets all the
  messages of a command and no other's.
* main: a run begins with the options that were last written, less the lines a
  write has lost, and has its table unless creating it went wrong.

## The modules

| module | models | composes |
|---|---|---|
| `TurnTaking` | what a `conditionv` promises: a turn, a holder, take, pass on, release | - |
| `ConditionV` | `struct conditionv`: lock, test, sleep, wake, update, notify as steps of their own | refines `TurnTaking` |
| `ModRegistry` | what the user is promised of the records: add a mod whole, remove it whole | - |
| `MhwimmThreads` | the three workers, the registration helpers and the commands that touch table or game | two instances of `TurnTaking`; refines `ModRegistry` when nothing fails |
| `ModDb` | class `mhwimm_db`: register, reset, execute, one statement or one row a step | - |
| `ModStore` | INSTALL, UNINSTALL and INSTALLED, one system call or statement a step, with failures, death of the process and another root | extends `ModDb`; refines `ModRegistry` |
| `ModTree` | `lf_traverse_dir` over a tree with links and cycles of links | what `ModStore` calls `Traverse` |
| `MhwimmExecutor` | class `mhwimm_executor`: parsing, dispatch, each command's output and its way to the UI | - |
| `Startup` | `main`, the config file and the start of the Database thread, over many runs of the program | - |
| `MCConditionV`, `MCMhwimmThreads`, `MCModStore`, `MCMhwimmExecutor`, `MCStartup` | the constants of the TLC runs | |
| `ConditionVProofs`, `MhwimmExecutorProofs`, `StartupProofs`, `ModTreeProofs` | invariants and theorems | |
| `MhwimmThreadsProofs`, `MhwimmRecordsProofs` | of `MhwimmThreads`: the hand-over; table and game | the second extends the first |
| `ModStoreProofs`, `ModStoreRecordsProofs` | of `ModStore`: what holds whatever fails; what a calm environment is promised | the second extends the first |

The same commands are modelled twice on purpose. `MhwimmThreads` has the
interleavings of the threads and a command as one step; `StrictHandover`, proved
there, says that a database round runs only while the Executor waits for it.
That is why `ModStore` needs one program counter, and can afford every call of
a command as a step of its own.

### ConditionV

`pc[t]` says where thread `t` is: before the `unique_lock` is made (`ctor`), has
made it locked (`made`), outside (`out`), before `lock()` (`lock`), about to test
the predicate (`test`), blocked in `condv.wait` (`asleep`), woken and before the
relock (`woken`), let through (`turn`), after the unlock of `update_and_notify`
and before `notify_one` (`notify`). `Sleep` unlocks and joins the waiters in one
step, as `condition_variable::wait` does; `SpuriousWake` is always possible. The
counter is an int with C's remainder and wraps from `IntMax` to the smallest
number, which is what the Makefile's unoptimised build does.
`wait_cond_v` has no caller and is left out.

### MhwimmThreads

Each thread has a program counter whose labels follow the worker's code; the
lock and wait of a `conditionv` is one `Take` step, enabled when the turn is the
thread's own, which `ConditionV` and its refinement justify.

* **UI**: `loop`, `read`, `await_idle`, `send`, `await_output`, `recv`, and after
  the loop `await_exit`, `send_nop`, `done`.
* **Executor**: `top` (lists and status are cleared), `await_cmd`, `parse`; the
  database round `await_db`, `reg_op`, `reg_name`, `reg_set`, `await_result`,
  `check`, used for the ASK before and the ADD or DEL after the command
  (variable `stage`); `execute`; `failed` (the label
  `failed_db_interact_checking`), `reply` (every way to answer with one message),
  `output` and `await_more` (the output loop); `await_bye`, `bye`, `done`.
* **Database**: `open`; `reset_op`, `reset_name`, `reset_set` (`resetDB`, field by
  field); `await_req`, `begin`, `round`, `close`, `done`.
* **main**: the joins in their order, then the config file.

`open_stmt` stands for `sql_stmt_` and `more_rows_indicator_`: `named` or `all` is
a SELECT, with or without a WHERE, that an ASK has left open. Resuming it gives
any part of the rows of the name *now* in `record_buf_`: the statement is bound
to that buffer with `SQLITE_STATIC`, and its cursor has passed some of them.

The constant `Faults` says what may go wrong: `sql` (a statement fails), `stat`
(a `stat` fails although the path is there: of a recorded path, or in install's
conflict check, which then takes the path for free), `io` (link, unlink or
the traversal fails), `alloc` (parseCMD's buffer), `stdin` (end of input or a
line too long), `late` (the Database is descheduled before the end of `resetDB`
while the Executor goes on to register the next operation). A recorded path
that is missing fails the ASK under any `Faults`. Without `late` the Executor's
registration finds the Database at its wait: an assumption about scheduling
that the code does not enforce, which is why it is a fault like the others.

Abstractions: a mod directory is a set of regular files, directories are not
modelled; game, table and lists are sets; a database statement is one step; the
commands `cd`, `pwd`, `ls`, `get_config`, `config`, `commands` are one command
`OTHER`; the text of messages is left out, a message is its number. The
`Variation` operators are single faults put into a definition; no specification
uses them, they show that a property can tell the difference.

### ModDb and ModStore

`ModDb` has the fields of `mhwimm_db`: `current_op`, `record_buf` (the operand
and the result), `current_status`, `more_rows` (`more_rows_indicator_`),
`sql_stmt` (the filter and the rowid the SELECT has reached), and the table. A
call of `executeDBOperation` is one step: `ResumeSelect` whenever `more_rows`,
whatever the operation is; else `StartSelect`, `Insert`, `LacksValues`,
`Delete` or `ExecuteNop`. An INSERT takes the largest rowid plus one and a
SELECT scans in that order, which is what SQLite does with this table. The
names are taken to be of one length: the length bound with a name is the one it
had when the SELECT was prepared.

`ModStore` has a tree of paths below each root, `none`, `dir` or `file`. `pc`
goes through the round before the command (`ask`, `stat`, `asked`), the command
(`execute`; `check`, `mkdir`, `link`, `rb_unlink`, `rb_rmdir` for install;
`unlink`, `rmdir` for uninstall), the round after it (`add`, `add_undo`,
`add_failed`, `del`, `after`) and `reply`, or `exit` where the Executor ends the
program. The conflict check (`Check`) takes every `stat` that fails, for whatever
reason, for a free path; the `link` then meets the file, and the rollback unlinks
the path whose link has failed, as the code does. `todo` is what the running loop has left, `undoing` says that uninstall
runs as the undo of an INSTALL. The variable `env` never changes; it says which
commands may be typed, which calls may fail, in which commands the process may
die, and what MHWIROOT may be set to: one run so covers environments of
different kinds, and a property can say which of them it is about. `Quit` and
`Kill` start the program anew with the table and the trees that are there.

### ModTree

A recursion of `lf_traverse_dir` is a frame of `stack`: its path and what
`readdir` has yet to return. The tree is any assignment of parents and kinds to
`Entries`, a link may lead anywhere, and a path with more than `MaxLinks` links
fails `stat` (ELOOP). A `readdir` may fail, which the code takes for the end of
the directory; `missed` is a history variable, the entries it has not returned.
`open_dirs` counts what is not closed.

### MhwimmExecutor

A word is the codes of its characters, and `calculate_key` their sum in a
`char`'s width, as in the code: which words are the same command is computed,
not assumed. `current_cmd`, `current_status`, `nparams`, the vector's `size`,
`noutput_msgs`, `is_cmd_has_output` and `output_info_index` are the members of
the class; the loops of `ls` and `installed` store one line a step (`Fill`).
Database rounds succeed or fail, and the directory the process is in is left out.

### Startup

`pc` goes through `main` up to the threads (`begin`, `ask`, `mkdir`,
`first_trunc`, `first_flush` or `read`, `mask`), the start of the Database thread
(`stat`, `open`, `create`), the run, and the rewrite of the config file (`trunc`,
`flush`). The file is a number of whole lines: `ofstream` has all of it in its
buffer until `close`, and a part without a newline at its end is dropped by
`read_from_config`. `env` is what may fail and where the process may die; a
SIGINT or SIGTERM before `mask` is such a death, and none after it, since both
are blocked from there on. A `stat` may fail for another reason than that there
is no file: at `begin` any failure means a first start, which writes the config
file anew; at the Database thread's `stat` only ENOENT means that the table is to be
made. Two variables are history: `saved`, the options `makeup_config_file` last
began to write (it has none to write if it cannot open the file), and `spoilt`,
the directories in which something has happened that leaves a database without
its table.

## The runs

| run | instance | states | shows |
|---|---|---|---|
| `conditionv` | a three-bit counter | 309 | types, exclusive turns, no lost wake-up, every waiter served, refinement of `TurnTaking` |
| `control` | one mod, one file, six command lines, all faults | 854 837 | both assertions, strict hand-over, all lines shown; every command answered, every exit ends |
| `records` | two mod names, three directories (`{p,q}`, `{q}`, `{p}`), ten command lines, all faults but `late` | 5.7 million | a success is a success; no command touches another mod's rows |
| `registry` | the same and a name installed from a second directory, faults `alloc` and `stdin` | 532 357 | records match the game between commands, `installed` is given and prints them, refinement of `ModRegistry` |
| `store` | seven paths, five mods, two names, two copies of the game that differ, six environments | 541 343 | `GameKept`, `WritesNeverResume`, every command ends; table and game agree, refinement of `ModRegistry` |
| `tree` | all trees of three entries, one link in a path, failing `opendir`, `readdir` and `stat` | 45 711 | lists complete but for what `readdir` hides, parents first, descriptors, end of the traversal |
| `executor` | eleven documented words (not `command` and `unintall`) and no word, none to two parameters, seven options; 2, 8 or 17 entries | 17 162 | the output vector, the output of a command, the words, every command returns |
| `startup` | three directories for the database, two environments | 92 986 | options and table over many runs, end of a start |
| `lost_request` | as `control` | violation | `RequestIsServed` |
| `wrong_undo` | as `control`, no `late` | violation | `UndoOnlyAfterAdd` |
| `forgotten` | as `records`, eleven command lines | violation | `ForgetsOnlyRemoved` |
| `last_command` | as `control`, faults `alloc` and `stdin` | violation | `LastCommandParsed` |

**Bounds.** `IntMax = 3`: each behaviour wraps many times, and the parity is all
the threads read of the counter (the proofs hold for every width). Commands go
on without end; nothing counts them. `MaxOut = 2` is the least number of lines
with a first, a last and a next one. One file is enough for the control flow,
because control depends on whether lists are empty and whether an operation
succeeded, not on their contents; two files and three directories, with either
of them or both, give two mods that go together, a conflict, a partial traversal, a partial rollback and a partial list.
The command lines include an `install` without its directory (it asks the
database before its syntax is checked, and finds a stale parameter) and one
whose directory is none.

`store`: `da` has a directory in a directory, `db` shares a directory with it, `dc` a
file; `dg` has one of the game's two files, and `dk` has the other as a
directory; the second copy of the game lacks `dg`'s. Two environments have the mods that go
together (`da` to `dg`) and let mkdir, link and INSERT fail, without and with death
during INSTALL and INSTALLED, with rowids enough (`max_id`) for them to be
installed over and over. In the other four the process may die anywhere, with
fewer mods and rowids: everything fails, with one root (`da`, `dc`) and with two (`db`,
`dg`); everything but `stat`, with one root and with two (`dg`, `dk`). Each of the
causes of `Exposed`, a mod's directory, a failing `stat` and a differing copy,
loses a file of the game in one of them or more. `tree`: three entries give a directory in
a directory, a link to a parent and a link to itself. `executor`: 8 is the size
of the vector at first, 17 makes it grow twice. `startup`: runs go on without
end; a directory for the database is the default one, one that is there and one
that is not; one value makes a line that is too long. In one environment everything may fail
and the process may die at every step; in the other, everything but the writing
of the config file, so that a whole file is seen after every other failure.

**Fairness.** `ConditionV`: each thread that can run does (weak fairness) and a
thread that locks the mutex gets it eventually (strong fairness on `Lock` and
`MakeLock`: the mutex is released over and over); no fairness for calling in,
ending a turn or waking spuriously. `MhwimmThreads`: weak fairness for each of
the four threads, none for `UiRead` and `UiReadFails`: nobody promises that the
user types. Weak fairness is enough for `Take`, because only its taker can end
a turn; that the underlying object then serves it is `WaiterIsServed`.
`ModStore`, `ModTree`, `MhwimmExecutor` and `Startup`: weak fairness for what the
program does by itself, none for the user, for the end of a run, for a read of the
config file that fails or for death.

### What the violations say

* `lost_request`: the Executor registers an operation, then the Database's
  `resetDB`, left over from the previous round or from its start, erases it.
  The round does nothing and reports success; or the operation stays and its
  filter goes, and a DEL deletes every row.
* `wrong_undo`: `install a ...` for an installed `a`, and the ASK fails after it
  has read some rows. The code jumps to the undo meant for a failed ADD and
  uninstalls those files of the installed mod. If it had read none, the undo
  fails and the program stops.
* `forgotten`: an ASK fails on a `stat`, the SELECT stays open; the next ASK
  for the mod gets the rest of its rows. `uninstall` then removes these files and
  the records of all.
* `last_command`: the UI's comment says the Executor will parse the final line;
  it has left its loop by then. Nothing depends on it.

### Where the conditions come from

Some properties of `store` and `startup` hold in a part of the environments only,
and say so (`Calm`, `Undying`, `WritesAreWhole`); others name what they exempt
(`Exposed`, `LeftOut`, `spoilt`), or hold for the mods, words or trees of the run.
Without the condition TLC finds:

* `UninstallIsComplete`, `OnlyOwnFilesRemoved`, `InstalledIsExact` (death in an
  UNINSTALL, or a failed `stat`): the records of files that are gone stay. The
  next ASK fails on them and leaves its SELECT open, and an UNINSTALL that works
  on the rest of it removes part of the files and all the records; another mod
  may take the free path, and loses its file to the first one's UNINSTALL; rows
  of a mod that are not neighbours make `installed` print its name twice.
* `FailedInstallUndone`: the undo of an INSTALL that could not be recorded goes
  through the directories parents first, so that parents stay behind, on no
  record; install's own rollback reverses the list. And a rollback removes an
  empty directory that was there before: the property is about files, and about
  directories that were not there.
* `GameKept`: a mod with a directory where the game has a file is installed
  (mkdir's EEXIST is accepted), and its UNINSTALL unlinks the file. A `stat` of the
  conflict check that fails although the file is there (executor.cc:496) lets the
  `link` meet it, and the rollback (l. 541) unlinks the game's file. With two
  copies of the game that differ, an UNINSTALL after `config MHWIROOT=...` removes
  what has the mod's paths below the new root; a `cd` does the same to a root
  that was given as a relative path at the first start. These paths are
  `Exposed`; no other file of the game is ever removed.
* `ListsAreTheMod`: a `readdir` that fails is taken for the end, so that the traversal
  succeeds with a part of the mod.
* `RecordedIsPresent`: of two mods whose only content is the same directory the
  first UNINSTALL removes it, and the second mod can no longer be uninstalled.
* `ConfigRestored`: the file is truncated and rewritten in place, and `bad()` is
  asked before the buffer is written, so that a full disk is not noticed. That,
  or death before `close`, loses lines from the end; for those the program goes
  on with its own values.
* `TableExists`: death between opening the database and creating the table, a
  creation that fails, or a `stat` of the absent file that fails with another errno than
  ENOENT (database_thread.cc:53) leaves a file without a table; with the
  last the run goes on at once, and every later run takes the file for one
  with its table.
* `StartEnds`: a line of more than 255 characters, which the program itself may
  have written, sets `failbit`; `read_from_config` does not look at it and never
  ends.
* `SupportedWordsWork`: `command` (in a comment) and `unintall` (printed by
  `commands`) are no commands. And a word that is none may be one: an anagram of
  a command has its key.

`ModStore` has one program counter: `resetDB` is done when a round is, as when the
Database gets to its wait before the Executor registers anew. Its properties are
about such schedules only. What a late `resetDB` does is in `MhwimmThreads` (fault
`late`) and in `lost_request`.

Other differences between the code and its texts that the models have: a ninth
parameter is stored past the end of `parameters_`; links are followed where a
comment says that symlinks are skipped; MHWIMMROOT moves the database and not the
config file; SIGINT and SIGTERM are blocked and nobody waits for them, as README
says and a comment in `main.cc` does not; a filter without a name is never bound
(no caller has one).

## The proofs

`ConditionVProofs`, from `ConditionVAssumption` (`IntMax` is odd, the two threads
and "none" are distinct). `TurnIsExclusive` and `NoLostWakeup` are made inductive
by saying who owns the mutex (`OwnerInv`) and who is asleep (`WaitingInv`). The
arithmetic is in `IncrementFlips`, an increment turns the parity, at the wrap
too, and `OddRemainder`, the predicates' test for a non-zero remainder is the
test for an odd number, negative ones included. `Refinement` maps the turn to
the parity and the holder to the thread let through, and shows that `Proceed`
takes, `UpdateUnlock` passes, `Unlock` releases and every other step stutters.

`MhwimmThreadsProofs`, from `ThreadsAssumption` (what the constants are; words
and paths are finite sets of any size). The invariant `IInv` follows the turns: for each
object, at which labels a thread holds it and at which it merely waits
(`UiExeInv`, `ExeDbInv`); that `program_exit` closes the way into a command
(`ExitInv`); what the status means to the side whose turn it is (`StatusInv`,
`BufferInv`); how many lines the UI is behind (`LinesInv`); and that the
operation found is the one registered or none (`RegisterInv`, which the types of
the table need). There is one step lemma per part, each with a case per
action, so that all of them together are inductive although `StatusInv` and
`ControlStep` need each other. From `IInv` follow `TypeOK`, `HandshakeAsserts`,
`StrictHandover` and `EveryLineShown`, for all constants and all faults.

`MhwimmRecordsProofs` goes on from `IInv`, in two parts.

* Under `NotOvertaken` (`Faults` without `late`; `lost_request` shows why):
  `SuccessIsTold` and `RowsAreOfTheCommand`, whatever else fails. `RoundInv` says
  that what the Executor has registered, field by field, is what the Database
  finds (`RequestInv`); that an ASK which succeeded leaves no SELECT for the write
  to resume (`StatementInv`); and that an INSTALL's files are in game and lists
  when they are recorded (`SuccessInv`).
* Under `NothingFails` (at most `alloc` and `stdin`; `wrong_undo` and `forgotten` show
  why): `RecordsAreTheGame`, `InstalledIsRecorded` and `RegistryIsImplemented`.
  `RecordsInv` says that table and game agree but between a command's work and
  the round that records it, and by what they differ then (`AgreeInv`); that no file
  is on record twice; and which rows an ASK has listed. In the refinement the
  round after the command is the registry's add or remove, every other step
  stutters.

`ModStoreProofs`, from `StoreAssumption` and `DbAssumption`. `TypeCorrect`: nothing
but paths is linked or recorded, although `directory_list` holds names while
`installed` runs. `NoWriteResumes`: no
INSERT or DELETE is taken for the rest of an ASK, for all mods, roots, failures
and deaths. The invariant `NoOpenSelect` says where an ASK has been read to its
end, and that what runs with a SELECT still open, the undo of a failed ASK, does
not lead to a write. `GameIsKept`: no file of the game is removed but an exposed
one, for all mods, copies of the game, failures and deaths. The invariant `Safe`
says that a path on record, in a list or up for an unlink is exposed or not a
file of the game: install's conflict check, where it cannot fail, makes the first
ones so, do_DB_ask's lists come from the records (`RowsExposed`, `ListsExposed`). A
call to the file system then keeps what is not exposed (`PutKeepsGame`), and
what is exposed does not change (`ExposedStays`).

`ModStoreRecordsProofs` proves the other invariants of `ModStore` and its refinement of
`ModRegistry`, for all commands, failures and deaths that a property allows, and
for all mods and games that are `GoodMods`:

* `Tidy`: an entry is listed once and a directory after its parent. That is what
  `ModTreeProofs` shows of `lf_traverse_dir`.
* `NoEmptyDirs`: without it two mods may share an empty directory (see
  `RecordedIsPresent` above).
* `ModsAgree`, `KindsAgree`: what a mod has as a directory is a file neither of
  another mod nor of the game; mkdir's EEXIST does not tell them apart.
* `GameIsTree`: the game's directory is a tree.

They are definitions of `ModStore`, not assumptions of it: the runs do not depend on
them, and TLC evaluates `GoodMods` for the mods of `store`'s calm environments
(`Good` in `MCModStore`). The properties are about calm environments, so is the invariant
(`CalmStoreInv`, `Calm => StoreInv`). `StoreInv` says

* of the table, that a file has one row, that rows are of known entries, and that a
  directory's row comes before the rows of what is in it (`RowsInv`); of the tree,
  that it is one (`TreeInv`);
* of every mod but the one a command works on, that it is *held* (`HoldInv`): its
  entries are there, its files are nobody else's, each of its directories has one of
  its own entries in it. This is what keeps a shared directory from `rmdir`, and
  the reason for `NoEmptyDirs`;
* of the lists, that do_DB_ask has put into them what it has read so far, children
  before parents (`AskInv`), and install's are the traversal's (`InstallFrame`);
* of each loop, what it has done and what it has left (`InstallLoops`, `AddInv`,
  `UninstallInv`), and what a command has achieved when it answers (`AnswerInv`).

From it follow `RecordsArePresent`, `FilesAreRecorded`, `FailureIsUndone` and
`OthersFilesStay`; a second one, for what an UNINSTALL has deleted whatever failed
(`DeletedInv`), gives `UninstallsAreComplete`; two more, for the names
`installed` has collected (`NamesInv`) and for a mod's rows being neighbours
(`OnceInv`), give `ListIsExact`. In `TableIsRegistry` the rows of an INSTALL are
hidden until it is answered; the answer is the registry's add, the DELETE its
remove, the removal of rows by do_DB_add's undo a stutter.

`ModTreeProofs`, from `TreeAssumption` (entries are finitely many, numbered below their
parents). The invariants say which frames the stack has, each in the
directory of the one before (`StackInv`), how many streams they have open
(`OpenInv`), that what is listed can be reached by `stat` and what is being read is
listed (`ListInv`), that nothing listed is still to be read (`OnceInv`), and that a
listed directory is about to be read, being read, or has all its entries listed or
missed (`CompleteInv`). `TraversalIsExact` then takes a shortest path that is not listed, nor hidden by a
failing `readdir`: the directory it is in has been read, so it is. `PathsAreShort` bounds the length of
a path by entries and links, which is why cycles of links end.

`MhwimmExecutorProofs`, from `ExecutorAssumption`. `OutputIsBounded`: no message is
stored or fetched outside the vector, for any number of entries. It takes that
the vector never has fewer places than it had, and that a loop checks before each
line it stores. `OutputIsOfTheCommand`: the UI has been sent what the command has
stored, for which the invariant relates the flag, the count and the index at each
label. `DocumentedWordsWork`: a documented word is taken for its command whatever
was typed before, if its sum is the command's key (`SumsAreKeys`): a computation
over the words, which TLC does in `MCMhwimmExecutor`. Here and in `StartupProofs`
`TypeCorrect` is the type invariant, on which the others rest.

`StartupProofs`. `ConfigIsRestored`: a run begins with the options last written, but
for lines that the file has lost, and it has lost none if no write was cut
short. The invariant says how many lines the file has and that the lines read so
far are restored and the others as at first (`Taken`). `TableIsThere`: a program that
runs has its table, or is in a directory that is `spoilt`: the invariant says that
a file without a table is in such a directory or its table is being made.
Both for all values of the options and in every environment.

Every invariant, action property and refinement of the runs that pass is proved, under
the conditions named above. Only model-checked are the liveness properties (TLAPS
has no fairness reasoning here): that a waiter is served, a command answered, an
exit, a traversal or a start comes to its end.

## Not modelled

* SQLite (`src/src/sqlite3.c`), vendored and 98.7% of the lines of the repository:
  a statement succeeds or fails, a SELECT scans by rowid. So the models can stand
  for a small part of all lines only; of the program's own code they stand for
  most.
* Prompts, texts, layout, debug output, the dates of records; the Makefile and
  the binary.
* Allocations that fail other than in `parseCMD`; failures of `sigprocmask`,
  `getenv` and the start of a thread: each ends the program.
* Other programs that change the game's directory or the table meanwhile.
