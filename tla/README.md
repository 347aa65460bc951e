# A verification of dmake

This directory holds TLA+ models of the `make`/`dmake` in
`src/src/make_src/Make/`, what TLC checks of them and what TLAPS proves. Paths
below are relative to `src/src/make_src/Make/`; most of the code is in
`bin/make/common/` (`doname.cc`, `parallel.cc`, `main.cc`, `state.cc`, ...),
`lib/mksh/src/`, `lib/vroot/src/` and `lib/makestate/src/`.

What is modelled is the program as the makefiles build it: with
`TEAMWARE_MAKE_CMN` and without `DISTRIBUTED`, `NSE`, `PARALLEL`, `MAKETOOL`,
`SGE_SUPPORT` and `_CHECK_UPDATE_H`. So there is one scheduler, the "parallel
mode" of dmake, and `dist.cc`, `pmake.cc` and the NSE files are not part of the
program.

## The system

| component | state | operations |
|---|---|---|
| building targets (`doname.cc`) | `state`, `stat.time`, dependency list of each target; the recursion of `doname()` | `doname_check`, `doname`, `check_dependencies`, `run_command`, `check_auto_dependencies` |
| running list (`parallel.cc`) | `running_list`, `parallel_process_cnt` | `execute_parallel`, `await_parallel`, `finish_children`, `finish_doname`, `process_next`, `finish_running`, `add_pending/running/serial/subtree` |
| job slots (`parallel.cc` 440-823) | `job_adjust_mode`; M2: a semaphore in shared memory, a file in /tmp, two environment variables | `job_adjust_init/error/fini`, `m2_init/acquire_job/release_job/fini`, `distribute_process`, `adjust_pmake_max_jobs` |
| state file (`state.cc`, `read.cc`, `lib/mksh/src/read.c`, `lib/vroot/src/lock.c`) | `.make.state`, `.make.state.tmp`, `.make.state.lock`; `make_state_locked`, `make_state_lockfile`, `rewrite_statefile`, `command_changed` | `file_lock`, `read_simple_file`, `get_next_block_fn`, `write_state_file`, `check_state` |
| start, goals, end (`main.cc`, `misc.cc`) | the goals, `exit_status`, `fatal_in_progress` | `main`, `make_targets`, `cleanup_after_exit`, `handle_interrupt`, `fatal` |
| running commands (`dosys.c`, `dosys.cc`) | `childPid` | `doexec`, `doshell`, `await`, `dosys` |
| what is recorded (`doname.cc`, `state.cc`, `read2.cc`, `dosys.cc`) | the commands and hidden dependencies of each target, in memory and on file | `build_command_strings`, `check_state`, `read_dependency_file`, `enter_dependencies`, `write_state_file`, `dosys` |
| the parser (`read.cc`, `read2.cc`) | its label, `on_eoln_state`, the names and the command it has read | `read_simple_file`, `parse_makefile`, `enter_dependencies`, ... |
| macros (`macro.c`, `macro.cc`, `main.cc`) | macro properties, the environment, conditional macros | `expand_macro`, `getvar`, `setvar`, `set_locals`, `reset_locals`, `enter_argv_values` |
| options (`main.cc`) | the flags, MAKEFLAGS | `read_command_options`, `parse_command_option`, `setup_makeflags_argv` |
| implicit rules (`implicit.cc`) | suffix and pattern rules, dynamic targets | `find_suffix_rule`, `find_percent_rule`, `sccs_get`, `target_can_be_built` |
| files (`files.cc`, `ar.cc`, `lib/vroot`) | cached directories and times | `exists`, `read_dir`, `read_archive`, `vpath_translation` |
| dependency report lock (`lib/makestate`) | the report file, a symbolic link as lock | `file_lock`, `report_dep` |

How they interact. `main` reads makefiles and `.make.state`, then
`make_targets()` calls `doname_check()` for each goal. `doname()` calls itself
for the dependencies; when a recipe must run it calls `run_command()` and, for a
recipe that may be a job, `execute_parallel()`, which forks, and the target goes
to the running list as `build_running`. A target that waits for dependencies goes
there as `build_pending`, one that must be built alone as `build_serial`. From
then on the control is turned around: `finish_running()` alternates between
`process_next()`, which calls `doname_check()` again for a target of the list
whose dependencies are over, and `await_parallel()` with `finish_children()`,
which conclude the targets whose job has ended. `distribute_process()` and
`fatal()` wait for jobs too, in the middle of the recursion. Makes in one
directory share `.make.state`; a dmake that a recipe runs shares the job slots
with its parent.

What is hard:

* the same target is reached through several dependents, while it runs, waits
  or has failed, and `doname()` is restarted for it any number of times;
* the waiting for jobs is nested inside the walk of the graph and changes the
  list the walk has just looked at;
* recipes tell hidden dependencies after it was decided what to build;
* a failure with and without `-k` while other jobs run, and a fatal error inside
  the handling of another one;
* the time of a target is cached, invented for targets without a file and
  forgotten in several places;
* the state file is replaced by `unlink()` and `rename()`, under a lock that is a
  file of its own, from the exit handler, with retries through `longjmp()`, and an
  interrupt may come between any two steps;
* permits are shared by processes that do not know of each other and may die;
* what is compared in the next make was recorded in this one, which may have been
  interrupted, have failed, been a `-n` or a `-t`, or have called other makes that
  write the same file;
* macros are set from five places that are read in an order that is not that of their
  precedence, and conditional values are set and put back around targets that may be put
  aside half-way;
* the search for an implicit rule builds files and leaves marks while it searches;
* the parser is one machine of labels; what make writes for itself goes through it, too.

What makes each component correct: commands run only after what they need, at
most `-j` at a time, no target twice at a time and none forgotten; the build ends,
up to date if nothing failed, and with everything done that does not depend on a
failure under `-k`; make never leaves jobs behind; a reader of `.make.state` sees
a whole file, the lock is exclusive and does not outlive its owner; permits are
neither lost nor made up. A make that succeeds leaves what a build from nothing would
leave, and a second one has nothing to do; what is recorded is what ran last; every recipe
sees the macros of its own chain of targets; the first rule that fits is used; a text means
what was meant, however it is laid out, quoted or handed on.

## Modules

| module | what it is |
|---|---|
| `JobScheduler`, `MCJobScheduler` | one dmake in parallel mode: `doname()` and the running list |
| `BuildOrder` | the abstract specification of a parallel build |
| `Builds`, `MCBuilds` | one make after another: what is compared, built, recorded, forgotten |
| `StateFile`, `MCStateFile` | several makes and one `.make.state`: lock, replacement |
| `StateEntries` | makes that call each other: what they learn from `.make.state` |
| `JobSlots`, `MCJobSlots` | a family of dmakes and the M2 semaphore |
| `Macros`, `MCMacros` | who sets a macro, and the conditional values around `doname()` |
| `Rules`, `MCRules` | the search for a recipe: pattern and suffix rules, SCCS, `.DEFAULT`, dynamic targets |
| `Options` | options and definitions handed down through MAKEFLAGS |
| `Expansion` | references to macros, translations, quoting |
| `Scanner` | the reader of makefiles and `.make.state` |
| `MCText` | the last three and `StateEntries` for TLC, each in steps of its own |
| `JobSchedulerProofs` | type correctness of `JobScheduler`, the number of jobs, the running list, no deadlock, no job left |
| `RefinementProofs` | `JobScheduler` implements `BuildOrder` |
| `UpToDateProofs` | a build without errors leaves nothing out of date |
| `BuildOrderProofs` | what follows from `BuildOrder` |
| `StateFileProofs` | the lock of `.make.state` and what it protects |
| `JobSlotsProofs` | the permits of the M2 semaphores |
| `BuildsProofs` | what a make leaves behind for the next one, and what it foretells |
| `MacrosProofs` | who sets a macro, what recipes and the makes they start see of it, and that conditional values are put back |

How they fit together. `JobScheduler` takes the graph, the commands and the times as given and
has all interleavings of jobs; `Builds` takes the order as given (a target is looked at when what
it depends on is concluded, which `BuildOrder` promises) and has the contents: which files are new,
what the recipes did and what is remembered. `StateFile` has the processes that replace the file,
`StateEntries` what is in it when makes call each other, `Scanner` the text of it.
`Macros` walks the same targets as `JobScheduler` for the sake of what the recipes see.
`Rules` finds the recipe that the others start from.

The operators whose comment begins with "Wrong:" are plausible mistakes in the
definition that follows them or precedes them; with one of them in its place the property named in
`PROJECT.json` is refuted. They show that the property depends on the code.

### JobScheduler

make is one process. `stack` holds the activations of `doname()` with the locals
that matter, `pc` says which function goes on, and the only step of other
processes is `JobExit`. The names of the variables are those of the code.

| code | action |
|---|---|
| `doname()` up to the dependencies, with its early returns for a target that is done, runs or is in progress, the target group and `file_no_time` | `EnterEarly`, `EnterFull` |
| `doname_check()`: second try, "Don't know how to make", `-k` | `DonameCheck` |
| one turn of the loop of `check_dependencies()`; `.WAIT`, hidden dependencies only when rechecking | `ScanDependency`, `DependencyDone` |
| waiting for dependencies | `AddPending` |
| no command, or none to run; `file_max_time` ("extremely new") | `NoCommand`, `CommandNotRun` |
| `run_command()`: a job, or alone, now or later | `RunCommand`, `BuildAlone` |
| `execute_serial()`, and the rest of `doname()` with `check_auto_dependencies()` and the recheck | `SerialExit`, `Conclude` |
| `distribute_process()`: M1, M2, NONE | `DistributeProcess` |
| `await_parallel()` | `AwaitParallel` |
| `finish_children()`, `finish_doname()`, one entry at a time | `FinishChild`, `FinishChildrenReturns` |
| `finish_running()`, the loops of `process_next()` | `FinishRunning`, `NextSerial`, `NextPending` |
| `make_targets()`, `fatal()` | `MakeTargets`, `LookAgain`, `Drain`, `Fatal` |

Abstractions. Times are small numbers; `clock` makes a file that is written newer
than all others. A target has a recipe (`Rule`), is only mentioned (`Listed`) or
neither: the search for implicit rules has happened. Whether `parallel_ok()`
refuses a target is a constant (`NoParallel`). The load of the machine may allow
any number of jobs from 1 to `-j` at each look (M1); the semaphore may grant,
refuse or fail (M2). A recipe reports hidden dependencies that exist or have a
rule (`Reports`), in any order. An empty recipe, `-q`, `-t`, `.INIT`, `.DONE`,
double colon rules, archive members, conditional macros and the serial mode of
`make_targets()` are not in the model; serial mode is the case
`NoParallel = Target`, but for the goals. The code for subtrees (`doname_subtree`,
the third loop of `process_next()`, `dependency_conflict()`) can not be reached at run
time: `recursion_level` never allows it. After `waitpid()` returned without a
process `errno` may be an old value and `await_parallel()` loops without sleeping;
this costs time only and is not modelled.

The model keeps what the code does even where it is odd: a target without a recipe is
declared made though a dependency failed (`doname.cc` 876), and the time of a goal
that is made is forgotten (`main.cc` 3365).

### BuildOrder and the refinement

`BuildOrder` knows the dependencies, what is being built and what is made. It
begins a target only when all it needs is made, ends it, or finds it up to date.
`JobScheduler!Order` maps to it: what is being built are the entries that have a job,
also one that has ended but is not finished, and the target whose recipe runs
serially; what is made are the targets in state `build_ok`. The hidden
dependencies are not in `needs`, as nobody knows them beforehand: for these
`EndsUpToDate` says what holds in the end.

### Builds

The state is the directory (`disk`, the times of the files, of which only the order counts, so
that they are kept as ranks 1, 2, ... and 0 for no file; `whole`, the files no recipe left half-written; `right`, those that are what a build from nothing would make), the rules the
user has at present, `saved` (the entries of `.make.state`) and `make`, a running make with what it
remembers. Between two makes the user edits sources, headers, rules or removes targets.

| code | definition |
|---|---|
| reading the file at the start | `Start` |
| out-of-date decision of `check_dependencies()`, vanished and stale hidden dependencies | `OutOfDate`, `Vanished`, `Stale`, `NeedsBuild`, `Ready` |
| the goals and what they depend on | `Wanted` |
| `build_command_strings()`: is the command the one that ran last? It is compared line by line; lines marked `?` are not looked at | `Compared`, `Differ`, `Replaces`, `CommandDiffers`, `Checked` |
| run, print (`-n`), touch (`-t`) | `RunCommand`, `PrintCommand`, `TouchCommand` |
| a target that must be built alone while jobs run: `build_serial`, `dont_rebuild_command_used` | `MustWait`, `PutAside` |
| what the recipe read, by `check_state()` | `Reported` |
| end of a recipe, serial and as a job, with its failure | `Finish`, `Finished` |
| `handle_interrupt()`: removed targets, forgotten commands | `Interrupt` |
| `write_state_file()` when something changed | `StateWritten`, `End` |

`vouched` are the targets that `make -t` has touched: it says they are fine whatever they
are. A recipe that fails leaves half a file. `.PRECIOUS`, recipes that fail and
report nothing, and a target in `Alone` whose recipe changes can be given as constants; see
"Disagreements" for what happens then. A make inside a recipe and `-q` are left out.

### StateFile

Each make reads the file when it starts, may read or write it around recursive makes
(`Visit`), and writes it from the exit handler. Each step is one system call on
the directory: `symlink`, `stat`, `open`, `read`, `unlink`, `fopen`, the writes up to
`fclose`, `unlink`, `rename`. The files are i-nodes, so that a make may read one that
has been replaced. `sized` is the file `exists()` saw, whose size says how much is read: when the file that is opened
is another one, `read()` gets the beginning of it, or less than it asked for, which is fatal. `content` is "part" until all is written, and "torn" after two makes
wrote to the same one. `Families` says which makes there are and which `faults` may happen to
them. `interrupt` runs `handle_interrupt()` at any point once, inside the exit handler too (then
`exit()` ends the process at once). `register` is about `attempts` in `write_state_file()`, a
local that is changed between `setjmp()` and `longjmp()`: C leaves its value open, and
a build that keeps it in a register restores 0. `slow` lets a lock time out
though its owner is alive, `symlink` lets the lock fail although there is none. An interrupt, a kill, a slow owner
or a failing `symlink()` spoil the lock by design (the exit handler writes without it), and so does a /tmp that cannot be written, as make then exits with the
lock held: of families with these (not `Calm`) only `Terminates` is claimed.

### StateEntries

The entries are the lines of the file, in the order of the name table, with the mark
`.BUILT_LAST_MAKE_RUN`; each make has a copy in memory. A recipe of a target in `Calls` starts
another make; `Mentioned` are the recipes with `$(MAKE)` in them, around which `dosys()` writes
the file and reads all of it. After any recipe `check_state()` reads what it reported and, when the
file has changed, the marked entries of it. `truth` is what ran last and what it
reported, whichever make ran it. With `Parallel` a make has several recipes at once, and what
`dosys()` does happens in a forked process from which nothing comes back. TLC checks it as one of the parts of
`MCText`, as it has no processes or files in common with the others.

### Macros

Start-up is four steps (`ReadDefaults`, `ReadArguments`, `ReadMakefile` and the environment inside
the first), each of which enters its assignments one by one with `setvar_daemon`,
`setvar_append`, `enter_argv_value`, `read_environment`. Then the goals are built: `Call`,
`Consider`, `Considered`, `Return` are `doname()` with `set_locals()` and `reset_locals()`
around the dependencies and the recipe; `AddPending`, `AddSerial`, `Resume` put a target on the running
list and take it back with `set_conditionals()`. `seen` is what each recipe saw. A value is the list of
its words. All of `MAKEFLAGS` that is about macros is here, its text is in `Options`.

### Rules

One step is a whole make (`MakeTargets`) or an edit. A C function that changes the memory of make
is an operator that takes the memory `w` and returns the result with the new memory: `doname`,
`check_dependencies`, `find_percent_rule` with `TryRules`, `TryNeeds`, `BuildFrom`,
`find_suffix_rule` with `TrySuffixes`, `sccs_get`, `target_can_be_built`,
`find_dyntarget`. The order of the tries, the marks they leave (`being_expanded`, cached times,
`is_file`, dependencies entered for a rule that was then rejected) are those of the code. The make is serial,
with `-k`, without `.KEEP_STATE`; no double colon, no VPATH, no archives.

### Options, Expansion, Scanner

Texts are sequences of characters, taken apart as the code does it. `Options`: a chain of makes,
each with a command line and the MAKEFLAGS the one above wrote (`KeepFlags`, `Level`, `Letter`,
`quote_str`, `unquote_str`, `setup_makeflags_argv`). `Expansion`: `expand_value`, `expand_macro`,
`_process_macro_name`, `_get_macro_value`; the string is typed character by character.
A definition is taken apart at its "=" with the white space around it, as `enter_argv_values()` and
`append_or_replace_macro_in_dyn_array()` do; white space is blank, TAB and newline.
`Scanner`: `parse_makefile()` as a machine whose `mode` is the label the code is at; a writer types
statements in any layout. `write_state_file()` is what is printed for a rule.
These are functions: what is checked is that they agree with a definition of what is meant. `Options`,
`Expansion` and `Rules` use recursive operators, `Scanner` a fold over the text.

### JobSlots

A dmake is what it starts and reaps. `env` is its environment, which a command
inherits, `sem` the semaphore it has attached, named after the dmake that made it.
A command is any process or another dmake. A recipe runs as a job with a permit
(`Acquire`), or serially when it has to or when there is no permit and no job to
wait for (`NoSlot`, `Serially`). `Stat` and `Fini` are the two steps of `m2_fini()`; `Attached`
counts all processes that have the memory attached, the ones forked for jobs
included. All dmakes have the same `-j`. `Crash` is a kill with SIGKILL; a signal to a
part of the family is not modelled, nor a semaphore that fails after it was
attached (JobScheduler has this for one dmake).

## What TLC checks

All constants are given in the `.cfg` files. Deadlock is checked where the model says
explicitly when it is over (`Over`): in the runs of `JobScheduler`, `StateFile`, `JobSlots` and
`Macros`. In the others the makes, edits or characters are bounded and the end of the bound is a deadlock
for TLC, so it is switched off.

| run | instance | what it shows |
|---|---|---|
| `acyclic` | all makefiles with a -> b, c, d, b -> c, d, c -> d in any selection and order, and one with `.WAIT`; five sets of existing files; b may fail, d leaves no file; `-j 2`, M1 | `JobsCounted`, `JobLimit`, `NoJobLeft`, and the refinement `ImplementsBuildOrder` |
| `hidden` | `-k` and `.KEEP_STATE`, makefiles with old hidden dependencies; recipes report new ones, b and c may fail, c is built alone, d has no recipe | `EndsUpToDate`, `NoDeadlock`, `KeepsGoing`, `Terminates` |
| `anygraph` | all makefiles of a, b and c, cycles included, and acyclic ones with the group b + c; goals `a .WAIT c`; M2 with errors; a is built alone, d has too many lines, c may lose its output file | `TypeOK`, `OneEntryPerTarget`, `SerialAlone`, `GroupBuiltOnce` |
| `builds` | a program of an object and a library from one source; the object includes a header; the rules of two of them change, one only in a line that is not compared; three makes (any of `-n`, `-t`, `-k`, `-j 1`, `-j 2`), failures, and two edits or interrupts | `Settled`, `NothingToDo`, `DryRunForetells`, `NoTrustedHalf` |
| `statefile` | three makes, one with `-n`, when writes fail; two with a /tmp or a directory that cannot be written; two with kills; two with slow owners and interrupts, or with slow owners, kills and a lock that cannot be made; `GiveUp = 1` for the 5 of the code | `Exclusive`, `ReadsWhole`, `StateComesBack`, `OwnLockOnly`, `Terminates` |
| `slots` | three dmakes, two permits, two recipes each; any nesting; `m2_init()` may fail, any of them may be killed | `SlotsConserved`, `GroupLimit`, `StaysWhileUsed`, `Terminates` |
| `macros` | three macros, two goals, seven targets with two that share dependencies, one that must be alone below another one with conditional values and one that reports a new dependency; eight statements, three environments, two MAKEFLAGS and four command lines with and without `+=`, `-e`, posix mode, serial and `-j 2` | `Precedence`, `SubMakeSees`, `RecipeSees`, `Restored` |
| `rules` | up to two of six pattern rules (a group and one that matches anything among them), three sets of suffix rules, explicit rules, `.DEFAULT`, a dynamic target, ten sets of files with SCCS histories, two makes, an edit | `FirstRule`, `Foretold`, `Newer`, `Satisfied` |
| `text` | command lines of two arguments for two makes that start each other, with levels up to 6, white space around `=`, TAB in a value and `+=`; strings of five of seven characters; makefiles of two statements in three layouts; a make in a make in a make, five targets, two headers, two runs, an edit, whose recipes that call make mention `$(MAKE)`, with one name on a line of the file | `OptionsComeDown`, `DefinitionsComeDown`, `QuotedComesOut`, `TranslationMeant`, `LayoutForgotten`, `WrittenComesBack`, `Recorded` |
| `mentioned` | the instance of `rules` | `MentionedIsNew` is violated |
| `reread` | the makes of `text`, with recipes that call make otherwise | `Remembered` is violated |
| `references` | the strings of `text` | `ReferenceEnds` is violated |

The bounds. Four targets allow two dependents that share a dependency and a third job to
compete for two slots; the diamond is the smallest graph in which a target is
reached again while it runs, waits or has failed. With three makes one can hold the
lock while another times out and a third comes; nine i-nodes are never used up (two names, and two for each make: what it has open and what it saw). A retry
more than `GiveUp` repeats the loop. Three dmakes are the smallest family with two
that compete below a third, and with a chain of three. Three makes with two edits are a build, one
that goes wrong and the one that has to repair it, with something edited before and after; an
interrupt counts as one of the two. Three nested
makes and two runs are the smallest case in which what the innermost wrote has to survive the two
above it and be read again. In `macros` a chain of three targets is the smallest in
which one is resumed with two sets of values around it. Two pattern rules give a chain of two and a
choice between two. Strings of five characters hold a reference with a translation of one character on either side.

Fairness. `JobScheduler`: make takes its next step when there is one, and every
command ends. `JobSlots`: the same for each dmake. `StateFile`: each make goes on until it
is gone, but is not obliged to run commands, visit the file again or be interrupted.
No fairness is put on the environment except the end of commands; `.WAIT`, slots and
locks are waited for without fairness of their own, and the alarm of
`await_parallel()` needs none. The other modules state no liveness: a whole make, or a whole
function, is a step there.

### Disagreements

Three runs expect a violation: what the code does contradicts what it says of itself.

* `mentioned`: `doname.cc` 871-873 says that a target without a recipe and without a file is taken as
  extremely new and made if "it is mentioned as a target in the makefile". The test asks for
  `colons`, which the search for pattern rules also sets, of files it only
  tried: what nothing can make is then made.
* `reread`: `read2.cc` 772-773 says that rereading the state file enters only "thing that changed since
  the previous time we read it". The mark the first reading saw is still set, so the first
  entry of the file is entered, too, and replaces what was built in the meantime.
* `references`: `expand_macro()` allows "nested pairs of () in the macro name" (`macro.c` 598-600) and ends the name
  at the closer that makes their number 0 (613-617). `closer_level` is unsigned and starts at 0 (479), and the first
  parenthesis has been taken before the count begins: `$(X:a=b)` as such is not closed by its own parenthesis, and make says
  "Unmatched `('". `TranslationMeant` is therefore about the name as `_process_macro_name()` gets it.

What else the models showed while they were written. With the constants named, TLC finds the behaviour;
these are no runs, as no text of the repository promises the opposite so plainly, or as another run
already asks the question.

In the scheduler and the state file:

* a cycle a -> b -> a, c with c a job: `process_next()` calls `fatal("Internal error: deadlock
  detected in process_next")` (`parallel.cc` 1191); `build_in_progress`, which `doname.cc` 507 checks to
  avoid infinite loops, was replaced when the first of them was put on the list;
* a dependency of the makefile that cannot be made is marked stale under `-k` and dropped
  (`doname.cc` 1128, though 1115-1120 says this happens for hidden ones only), and when the
  target is scanned again after a wait it is built without it;
* an output file of a job that is lost makes `finish_children()` call `fatal()` inside `fatal()`,
  which exits while jobs run (`parallel.cc` 1502, `misc.cc` 166; `acyclic` with `MayLose = {c}`);
* a make with `-n` takes no lock (`read.cc` 265-267). The size of `.make.state` is that of `exists()` (338-341), the file
  is opened later (354), and `get_next_block_fn()`, which is to "Read the whole makefile", reads as many bytes as the size
  says (`mksh/read.c` 102-125): when another make replaces the file in between, the end of a longer one is not read, and a
  shorter one is fatal. TLC refutes `ReadsWhole` without `p \notin NoExec`;
* an interrupt between the removal of the lock file and the reset of `make_state_locked` removes
  the lock of another make (`state.cc` 401-404, against `main.cc` 404-410);
* when the lock times out in the exit handler, `write_state_file()` announces a file in
  /tmp and then replaces `.make.state` without the lock (`state.cc` 173-205);
* a target of a group that is made is un-made when it is asked for again while another target of the group
  runs (`doname.cc` 370-385), and with a group a cycle a -> b, c; c -> a (b + c) brings a target in
  progress on the running list twice (`doname.cc` 373, then 1141): `ImplementsBuildOrder` holds
  without groups, `OneEntryPerTarget` without cycles or without groups;
* under `-k` a target without a recipe is declared made though a dependency failed (`doname.cc` 876) or
  cannot be made (1128): `ImplementsBuildOrder` then needs a recipe for every target;
* `fatal()` is called in the exit handler with the lock held when /tmp cannot be written
  (`state.cc` 231): two others that time out in their exit handlers then both write without it, so that
  `Exclusive` and `ReadsWhole` fail with three makes; with `attempts` in a register a write that always fails is retried for
  ever; a make that is killed between `unlink()` and `rename()` leaves no `.make.state`;
* with `Goals = <<b, a>>`, b without recipe and file, a is not rebuilt as `make a` would
  (`main.cc` 3365).

In what is recorded (`Builds`, `StateEntries`):

* a target that must be built alone and is out of date only because its command changed is put aside with
  `dont_rebuild_command_used` (`doname.cc` 1825); when it is resumed it is not built, and the new command is
  recorded as if it had been (`Alone = {"main.o"}`);
* a recipe that fails, reports nothing and has not changed, in a serial make with `-k` or in any parallel one: its
  command is forgotten in memory, but `.make.state` is not written as no command changed, and the half-made file is
  trusted (`doname.cc` 1998-2046, `parallel.cc` 1549-1553, `state.cc` 150; `Reporters = {}`);
* an interrupt of a parallel make keeps the commands of targets that are `.PRECIOUS`
  (`main.cc` 990-1014), so that half a file is trusted (`Precious = {"main.o"}`);
* the comparison strips the prefix `?` from the new line and does not know whether the old one had it, so that `?cc` and
  `cc` are the same command (`doname.cc` 2690-2765): what failed half-way under the first is trusted under the second;
* two makes that run at once, or a parallel make whose recipes call another, lose what the other one
  recorded (`text` with `Parallel = TRUE` or `Mentioned = {}`);
* `temp_file_number` is a short that wraps around.

In macros and options:

* `append_or_replace_macro_in_dyn_array()` looks for quotes that are never written, and takes `X=` at the start of a word
  of another value for a definition of X, so that `Y="a X=" X=1` hands down no X; an argument attached to its
  option (`-j4`, `-fMakefile`) is lost on the way down; `-DDD`, a debug level above 2 and `-P` more than four times pass
  nothing; of `-T` only `-n` is passed, of `-r` and of `-S` alone nothing; `quote_str()` does not quote
  TAB and newline, but MAKEFLAGS is split at all that `isspace()` says is one (`main.cc` 1661-1696): such a value is cut
  short, and with `W='a<TAB>-k'` the sub-make gets the option `-k`. `OptionsComeDown` and
  `DefinitionsComeDown` leave such definitions out (`Carried`);
* `parallel.cc` 1712-1713 says that the conditional targets of a target that is put on the running list again
  "must be copied" to its new entry. `set_conditionals()` appends them to the chain that is active and
  `store_conditionals()` takes all of it. When the job ended while another target with conditional
  values was waiting for a slot, that one and those above it are in the new entry, too, and the recipe is run again with
  values of targets it is not built for (`RecipeSees` for all of `Target`, which leaves out `redone`);
* of a macro that is set twice, in MAKEFLAGS and as an argument or twice among the arguments, the last value counts and the
  first one is passed on, as `append_or_replace_macro_in_dyn_array()` never replaces; what `+=` on the command line adds is
  not passed on;
* a target with conditional macros that must be built alone is resumed without them (`parallel.cc` 1048-1067 does
  not call `set_conditionals()` as the loop for pending ones does);
* `reset_locals()` restores the value of a macro, but not what the command line appends to it, nor the environment
  of an exported one;
* of a chain of translations, `$(X:.c=.o:.o=.a)`, the last one remains;
* `init_mach_macros()` always returns at once, `init_arch_macros()` ends in `abort()`.

In rules and the parser:

* a failure of a source of a suffix rule is not noticed, and `make -k` exits with 0; the rule that is used
  takes its percent sign from the last rule that was looked at (`implicit.cc` 806-818); dependencies of a
  rule that is rejected afterwards have been built; the recipe of a failing source may run twice;
* dependency names are written to `.make.state` unescaped, a target that begins with `\$` is
  not read back; empty commands are dropped when the file is read again; a value that begins with `\#` gets the
  length -1, the rest of the buffer is copied; `+ \` before a newline enters an empty name.

## What is proved

For every finite set of targets, every makefile, any `-j` and all options, from the
assumptions `GraphAssumption` and `OptionAssumption` on the constants (types, finitely many targets,
and only targets have recipes):

* `TypeCorrect` (`JobSchedulerProofs`): `Spec => []TypeOK`. `TypeOK` is not inductive: the
  top of the stack is used whenever `pc` is inside `doname()`. `TypeInv` adds
  `Activated`, which says when the stack is not empty, and where `back` and
  `caller` lead. There is one lemma for each action, and lemmas on the types of the
  helpers (`Unlink`, `Append`, `Reported`, `Conclude`, ...).
* `JobsAreCounted`, `JobsAreLimited`, `SerialIsAlone` (`JobSchedulerProofs`): `JobsCounted`,
  `JobLimit` and `SerialAlone`. The invariant `IInv` is `TypeInv` with
  `CountInv`: the count is the number of running entries, it is 0 while a
  recipe runs serially, and without the semaphore it is at most `-j`. The lemmas
  `AppendCount` and `UnlinkCount` say what the operations on the list do to
  the cardinality of its running entries (removal by a bijection between the
  positions); each action then either changes no running entry, adds one
  and counts it, or takes one from both. `AwaitParallel` reaps several at once: the
  count goes down by the number of entries that leave the set.
* `ListIsOfRunning`, `NoneIsStuck`, `AllJobsAreAwaited` (`JobSchedulerProofs`): `OneEntryPerTarget` of
  makefiles without cycles or without groups, `NoDeadlock` of makefiles without cycles, `NoJobLeft` when
  no output file is lost (`MayLose = {}`). The hypotheses are needed: TLC refutes each property without
  its own (see "Disagreements"). `RunningInv` adds to `IInv`: `FatalInv`, where make is after
  `fatal()`; `ListInv`, the targets in state `build_running` are those on the list, once each;
  `MakingInv`, an activation of `doname()` that waits for others or runs commands has its target in
  `build_in_progress`, and no other activation has the same one, so that the target it puts on the list
  is not there yet; `PendingInv`, who is in `build_pending`; `QuietInv`, when `quiescent` may be set;
  `OrderInv` and `EndInv`. `Acyclic` is that some rank falls along all dependencies, those the recipes
  report included; `OrderInv` says that `deps` keep to it and that the ranks fall along the
  stack. Of the pending entries the one of least rank has no dependency that is on the list,
  therefore it is startable.
* `Implements` (`RefinementProofs`): `ImplementsBuildOrder`, for makefiles that are `Orderly` (no cycle, no
  group, and under `-k` a recipe for every target) and without the shared semaphore, which does not know
  `-j`. The invariant adds `ReadyInv` to `RunningInv` until a fatal error: what the scan of
  `check_dependencies()` has behind it is made, runs or failed (`Scan`); what is marked as built is made, failed
  or on its way (`BuiltInv`), since the scan trusts the mark without asking again; the answer `doname_check()`
  looks at is the state of the target (`AnswerInv`); commands run and ran only for targets whose
  dependencies are made (`JobsInv`), also when the recheck skips the scan (`TargetInv`). Every action then
  keeps the dependencies of the makefile and what is made (`Forward`), and is one step of `BuildOrder` or
  none (`MovesStep`); after a fatal error targets only end (`FatalMoves`).
* `UpToDate` (`UpToDateProofs`): `EndsUpToDate`, for makefiles that are `Orderly` and `Dutiful` and as long as
  the time is before `file_max_time`, the time of what leaves no file. `Dutiful` is that recipes report only files
  make can make or find (else the dependency is marked stale and dropped, `doname.cc` 1128, and comes back with the
  next report), and that a recipe that does not touch its target has no dependencies (its target keeps the old time).
  The invariant adds `FreshInv` to that of `Implements`. The target need not be newer when the commands
  start but when they end, and between the two make forgets and asks again. `TargetGood`: what is made is not older
  than what it depends on, and when hidden dependencies were reported after the commands ran (`rechecking`) not
  older than what the makefile names; `FrameGood`: what the scan has behind it is not newer than its
  `dependency_time`, or a job or a failure was seen that sends it back; `EntryGood`: a job was started when all was
  made, and its output is as new as that; `WorkInv`: the same of a target whose commands are about to run; `VisitInv`
  and `AnswerSure`: a hidden dependency that can be made is not given up, as `doname_check()` answers
  "don't know" only of what it cannot make. A report of hidden dependencies sends make back to the scan only when they are new
  (`NewAutos`); when they are not, the target has them already, which is why `FrameGood` and `EntryGood`
  keep what was known when the activation began (`Known`).
* `OrderIsKept`, `BuildingIsLimited` (`BuildOrderProofs`): in `BuildOrder`, and so in
  everything that implements it, what is built or made has all it needs, and the
  limit is kept.

For any number of makes, i-nodes and families, from `FilesAssumption` (`StateFileProofs`):

* `LockIsExclusive`, `WholeFilesAreRead`, `OwnersRemoveLocks`: `Exclusive`, `ReadsWhole`, `OwnLockOnly`. The
  properties are about calm families and so is `IInv`: `LockInv` says which steps a make takes only with the
  lock and that the lock file, `Owns` and the flag of the owner agree, also between `symlink()` and the setting of
  the flag and between `unlink()` and its reset; `FileInv` says that the file under its name is whole,
  that the one half-written is the temporary file of the owner, and that the two are different; and that, as nobody
  replaces the file while the owner of the lock reads it, what it opens is what `exists()` saw (`Replaces`). A make
  with `-n` reads a file that was finished, but possibly not all of it.

For any set of dmakes and any number of permits, from the assumption of `JobSlots` (`JobSlotsProofs`):

* `PermitsAreConserved`, `SemaphoreStays`, `LimitIsForAll`: `SlotsConserved`, `StaysWhileUsed`,
  `GroupLimit`, each under the condition it states (no dmake was killed, none is without a semaphore). The
  sum of free permits and jobs is inductive with `Shape`, who may hold what. The others are about the tree
  of dmakes: while none is killed each has a boss that waits for it and inherited the name of its semaphore
  from it (`TreeInv`), so that the one that made a semaphore is the last to use it, and only it destroys
  it (`UseInv`). A dmake that waits for a serial recipe stands aside for the dmake that recipe started, so
  those that go on are as many as those that were started as jobs, plus the first (`GroupInv`): each job is a
  permit, and no more than one dmake at a time goes on without.

For any makefile, any number of makes, edits and interrupts, from `MakefileAssumption` (types; the sources and the
targets are disjoint, and a rule that was changed does not come back) and `InvocationAssumption` (`BuildsProofs`):

* `NothingToDoAgain`: `NothingToDo`, without any hypothesis. `BuildInv` has the types; `RunInv`, what make
  knows in each state of a target: one that runs was looked at and has the command of the rule (`StateInv`), what
  make remembers is what `.make.state` has, or the file will be written, or it makes no difference (`MemoryInv`), what
  a recipe of this make wrote is newer than what none wrote (`NewerInv`), and nothing that is known of a target that is
  made asks for it to be made (`MadeInv`); and `IdleInv`: while nothing is edited after a make that made everything,
  nothing that is recorded asks for a target to be made. Times are ranks; lemmas on `Written` and `Without` say how
  the order of the files changes when one is written or removed.
* `NoHalfIsTrusted`: `NoTrustedHalf`. A half-written file whose recipe does not run is known to make as one whose
  command is forgotten, in `.make.state` or in memory with the flag set that makes the file be written (`HalfInv`).
  Hypotheses: `FailuresShow`, `AloneIsPlain` and `CommandsCount` (end of `Builds`).
* `DryRunIsRight`: `DryRunForetells`. What `-n` prints is the one set that satisfies `Plan`: a
  target is in it when its record says so or something it depends on is in it. The next make decides with the times of
  the files it has written so far and must come to the same set (`Following`), though it runs recipes where the other one
  made up times. Hypotheses: `AloneIsPlain`, and nothing that is made alone is `.PRECIOUS`.
* `NothingWrongIsLeft`: `Settled`. The invariant says of each target whose file is not what a build from nothing makes that
  the next make finds out: it is older than something, a hidden dependency is missing, or the command
  differs, unless `make -t` vouched for something below it (`WrongInv`); of one that is right, that what is recorded includes what its recipe reads
  (`RightInv`); and of one that is made, that it is right when all below it are (`OkInv`). Hypotheses: `FailuresShow`,
  `AloneIsPlain`, `CommandsCount`, `CommandsShow`, `HeadersShow`.

For any makefile, any graph, any environments and arguments and any `-j`, from `StatementAssumption` (types of
what is read) (`MacrosProofs`):

* `ValuesAreRestored`: `Restored`, without any hypothesis. The invariant `RestoredInv` says what the
  returns of all calls on the stack will do: there is a chain of macros, the first those of the beginning of the build,
  the last those of now, and from anything like the k-th the return of the k-th call leads to something like the
  one before it (`Chain`, `Opens`). "Like" are macros with the same bodies, the same `conditional_targets` and the
  same `dont_activate_cond_values`; what is to be appended and the environment are not put back, and nothing that is put
  back depends on them. `LocalsRestored` and `ConditionalsRestored` say that taking back the last value first restores
  all, also when one macro has several values or a target comes twice, and that a target with
  `dont_activate_cond_values` is passed over both times. The operators are recursive functions over lists;
  that such a function exists, and has what its definition says, is proved by induction (`LeastNumber`,
  `Upwards` and the lemmas named `...Is`) for each of them.
* `RuleOfPrecedence`: `Precedence`. The files are read in another order than that of the rule, and what decides is
  `read_only`. `PrecedenceInv` says for each `phase` what the macros are: after the default rules `Assigned`, after the
  environment and the arguments the last value set, read-only exactly if it is from the command line,
  MAKEFLAGS or the environment under `-e`, and followed by all that was appended; a makefile then
  changes the others only, each as `Assigned` says. The build leaves `base` as it is.
* `SubMakesSee`: `SubMakeSees`, from the same invariant, which also says that `makeflags` are what
  `append_or_replace_macro_in_dyn_array()` lets through, and that the exported values are in the environment. A macro set
  once is in the array with its value, and the start of the other make enters it last.
* `RecipesSeeTheirValues`: `RecipeSees`. `SeesInv` is `RestoredInv` and `PrecedenceInv` with more about each
  call on the stack: the macros at its place in the chain have the values that `Expected` gives for its path, changed
  by the conditionals of those targets and no others (`FrameFine`), and the conditional targets of each entry of
  the running list make the same of the values as its path does (`EntryFine`; the entries of targets that are redone or must be
  alone are spared, as the property spares them). `add_pattern_conditionals()` merges two lists by sequence number: the result is
  the statements for the target in the order of the makefile. A chain that is set again one target after the other, with the
  target itself passed over by `dont_activate_cond_values`, gives the same values as the calls that set it first.

Without the hypotheses the properties fail: TLC refutes `NoTrustedHalf` with `Reporters = {}`, with
`Precious = {"main.o"}`, with `Alone = {"main.o"}` and with the rules `?cc` and `cc` of one target;
`DryRunForetells` with `Alone = {"main.o"}` or `Precious = {"lib"}`; `Settled`
with `Alone = {"main.o"}`, with the rules `x; ?cc` and `x; cc`, or when a recipe does not report its headers. The instance of the run `builds` satisfies
all of them, which TLC checks (`Hypotheses` in `MCBuilds`).

TLC also refutes `EndsUpToDate` when the recipe of b in the run `hidden` reports d, which nothing makes, and when b is
one that does not touch its target (`Phony = {"b"}`). The run itself is with `-k` and a target without a recipe, which
`Orderly` leaves out, so that it checks more there than the theorem says; without `-k` it is an
instance of the theorem.

Only model-checked: `ImplementsBuildOrder` with the semaphore, `EndsUpToDate` under `-k` when a target
has no recipe, `KeepsGoing` and `GroupBuiltOnce` of the scheduler (they follow failures along the whole
graph, or are about groups, for which a target has no entry of its own); `StateEntries`; and `StateComesBack`. Liveness (`Terminates`, `StateComesBack`) stays with TLC, as TLAPS has
no rules for fairness here. `Rules`, `Options`, `Expansion`, `Scanner` are computations over data, whose
results for every input are out of reach of the prover.

## Not modelled

* Archive members, VPATH, libvroot: file formats and paths.
* `-q`, `.INIT`, `.DONE`, double colon rules, `include`, the special targets, `&` rules; subtrees, which cannot be reached.
* In `Builds`: a make in a recipe. In `Rules`: parallel mode, `.KEEP_STATE`, `$$@` dependencies. In `Options`: svr4 mode,
  `--`, `-K`, `-O`, `-x`. In `Scanner`: `$`, parentheses, reading in blocks, names with `/`. In `Expansion`: `$(X:sh)`,
  architecture macros, `$(@D)`.
* `gather_recursive_deps()` (`rep.cc`): targets of makes in other directories.
* The lock of the dependency report: `lib/makestate/src/lock.c` 137 breaks a lock that is
  too old, and two processes that see the same old lock may both get it. It is called by the linker.
* Messages, catalogues, formatting, shells and redirection.
* Distributed make, NSE, maketool, the old pmake code: not compiled.

## Plan

What is left is to prove more: `KeepsGoing` on top of `ReadyInv`, which has to follow failures along the graph, and `Recorded`
of `StateEntries`.
