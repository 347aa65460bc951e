---------------------------- MODULE JobScheduler ----------------------------
(***************************************************************************)
(* How dmake builds targets in parallel: doname() walks the dependency     *)
(* graph, check_dependencies() decides what is out of date, run_command()  *)
(* and execute_parallel() start jobs, and the running list of parallel.cc  *)
(* keeps every target whose build is not over: a job that runs, a target   *)
(* that waits for its dependencies, a target that must be built alone.     *)
(* make is one process: `stack' holds its activations of doname(), `pc'    *)
(* says where it is.  Only JobExit is a step of other processes.           *)
(***************************************************************************)
EXTENDS Integers, Sequences, FiniteSets

CONSTANTS
    Target,         \* the Name objects of the makefile
    Wait,           \* the special dependency .WAIT
    Makefiles,      \* what may have been read from makefile and .make.state:
                    \*   functions [Target -> Seq(Dependency)]
    Times,          \* the times the files may have when make starts:
                    \*   functions [Target -> 0..StartTime], 0 = file_doesnt_exist
    Reports,        \* [Target -> SUBSET Target]: the hidden dependencies a recipe reports
    Rule,           \* targets a command was found for
    Listed,         \* targets the makefile mentions (colons /= no_colon)
    Group,          \* [Target -> SUBSET Target]: its "+" target group
    NoParallel,     \* targets parallel_ok() refuses
    ManyRules,      \* recipes of MAXRULES lines or more
    Phony,          \* recipes that do not touch the file of their target
    MayFail,        \* recipes that may exit with an error
    MayLose,        \* jobs whose output file may be gone when they end
    Goals,          \* Seq(Target \cup {Wait}): the command line
    KeepState,      \* .KEEP_STATE
    KeepGoing,      \* -k
    PmakeMaxJobs,   \* -j
    AdjustMode,     \* DMAKE_ADJUST_MAX_JOBS: "M1", "M2" or "NONE"
    AdjustFails,    \* may the M2 semaphore fail?
    StartTime,      \* when make starts: no file is newer
    file_max_time   \* newer than every file

\* The element of line->body.line.dependencies.
Dependency == [name : Target \cup {Wait}, auto : BOOLEAN, stale : BOOLEAN,
               built : BOOLEAN]

ASSUME GraphAssumption ==
    /\ Wait \notin Target
    /\ \A m \in Makefiles : m \in [Target -> Seq(Dependency)]
    /\ IsFiniteSet(Target)
    /\ Reports \in [Target -> SUBSET Target]
    /\ Goals \in Seq(Target \cup {Wait})
    /\ StartTime \in Nat
    /\ \A times \in Times : times \in [Target -> 0..StartTime]
    /\ Group \in [Target -> SUBSET Target]
    /\ Rule \subseteq Target

ASSUME OptionAssumption ==
    /\ KeepState \in BOOLEAN /\ KeepGoing \in BOOLEAN /\ AdjustFails \in BOOLEAN
    /\ PmakeMaxJobs \in Nat \ {0}
    /\ AdjustMode \in {"M1", "M2", "NONE"}
    /\ file_max_time \in Nat \ {0}

VARIABLES
    state,              \* target->state
    deps,               \* line->dependencies: [name, auto, stale, built]
    mtime,              \* target->stat.time
    rechecking,         \* target->rechecking_target
    running_list,       \* entries of the running list, head first
    process_cnt,        \* parallel_process_cnt
    job_adjust_mode,
    stack,              \* activations of doname(), the latest last
    pc,                 \* what the process does next
    back,               \* who called await_parallel(): where to go after it
    caller,             \* who called the bottom doname()
    quiescent,          \* process_next(): nothing found to do yet
    gi,                 \* the goal make_targets() is at
    fatal_in_progress,
    build_failed_seen,
    clock               \* time of the last file written

targetVars == <<state, deps, mtime, rechecking>>
listVars   == <<running_list, process_cnt, job_adjust_mode>>
errorVars  == <<fatal_in_progress, build_failed_seen>>
vars == <<targetVars, listVars, stack, pc, back, caller, quiescent, gi,
          errorVars, clock>>

Doname == {"dont_know", "ok", "failed", "running", "pending", "in_progress"}

\* A Running structure. exit, out and time belong to the child process: its
\* exit status, whether its output file is there, and the time of its target.
Entry == [target : Target,
          st     : {"running", "pending", "serial", "ok", "failed"},
          redo   : BOOLEAN,
          autos  : SUBSET (Target \cup {Wait}),
          exit   : {"none", "ok", "failed"},
          out    : BOOLEAN,
          time   : Nat]

\* The locals of doname(), of its check_dependencies() and its doname_check().
Frame == [target  : Target,
          auto    : BOOLEAN,      \* doname_check(.., automatic)
          second  : BOOLEAN,      \* doname_check(): not first_time
          restart : BOOLEAN,
          recheck : BOOLEAN,      \* rechecking_target, the local
          autos   : SUBSET (Target \cup {Wait}),
          i       : Nat \ {0},    \* the dependency the loop is at
          running : BOOLEAN,      \* dependencies_running
          ood     : BOOLEAN,      \* line->is_out_of_date
          dtime   : Nat,          \* line->dependency_time
          result  : Doname]
-----------------------------------------------------------------------------
(* Dependencies, times and the running list *)

Unbuilt(ds)    == [j \in DOMAIN ds |-> [ds[j] EXCEPT !.built = FALSE]]
Depend(n, a)   == [name |-> n, auto |-> a, stale |-> FALSE, built |-> FALSE]
LiveAuto(d)    == d.auto /\ ~d.stale
AutosOf(ds)    == {ds[i].name : i \in {j \in DOMAIN ds : LiveAuto(ds[j])}}
Later(a, b)    == IF a < b THEN b ELSE a
OutOfDate(a, b) == a < b \/ (a = 0 /\ b = 0)

Orders(S) == {q \in [1..Cardinality(S) -> S] :
                \A i, j \in DOMAIN q : q[i] = q[j] => i = j}

\* read_dependency_file(): the recipe of t reported its hidden dependencies, in
\* any order; those it did not report again are stale, new ones go to the end.
Reported(t, ds) ==
    LET R == Reports[t]
        Mark(d) == IF d.auto
                     THEN [d EXCEPT !.stale = d.name \notin R,
                                    !.built = d.built /\ d.name \notin R]
                     ELSE d
        new == R \ {ds[j].name : j \in DOMAIN ds}
    IN IF KeepState /\ R /= {}
         THEN {[j \in DOMAIN ds |-> Mark(ds[j])]
               \o [j \in DOMAIN q |-> Depend(q[j], TRUE)] : q \in Orders(new)}
         ELSE {ds}

\* Wrong: no hidden dependency ever counts as new.
NewAutosNever(ds, snapshot) == FALSE

\* check_auto_dependencies(): are there hidden dependencies not in snapshot?
NewAutos(ds, snapshot) == KeepState /\ AutosOf(ds) \ snapshot /= {}

\* Wrong: the entry stays on the list.
UnlinkNothing(i) == running_list

Unlink(i) == SubSeq(running_list, 1, i - 1)
             \o SubSeq(running_list, i + 1, Len(running_list))

Waiting(t, kind, again) ==
    [target |-> t, st |-> kind, redo |-> again, autos |-> {}, exit |-> "none",
     out |-> TRUE, time |-> 0]

Job(f) == [Waiting(f.target, "running", FALSE) EXCEPT !.autos = f.autos]

\* is_running(): only the first entry of the target counts.
IsRunning(t) ==
    /\ state[t] = "running"
    /\ \E i \in DOMAIN running_list :
         /\ running_list[i].target = t /\ running_list[i].st = "running"
         /\ \A j \in 1..(i - 1) : running_list[j].target /= t

GroupRunning(t) == \E g \in Group[t] : IsRunning(g)

parallel_ok(t) == t \notin NoParallel

\* Wrong: the other targets of the group keep their time.
TimeForOne(t, time) == [mtime EXCEPT ![t] = time]

\* update_target(): the group gets the time of the target its recipe built.
TimeFor(t, time) == [u \in Target |-> IF u = t \/ u \in Group[t] THEN time
                                                               ELSE mtime[u]]
\* A target that was built and is not there is "extremely new".
Nice(times, t) == IF times[t] = 0 THEN [times EXCEPT ![t] = file_max_time]
                                  ELSE times

\* The time of the file t after its recipe ended well.
RecipeTime(t) == IF t \notin Phony THEN clock + 1
                 ELSE IF mtime[t] = file_max_time THEN 0 ELSE mtime[t]
-----------------------------------------------------------------------------
(* The stack of doname() activations *)

Top   == stack[Len(stack)]
Below == SubSeq(stack, 1, Len(stack) - 1)
AsTop(f) == Append(Below, f)

\* Wrong: the loop starts before the first dependency.
ActivationAtZero(t, automatic) ==
    [target |-> t, auto |-> automatic, second |-> FALSE, restart |-> FALSE,
     recheck |-> FALSE, autos |-> {}, i |-> 0, running |-> FALSE,
     ood |-> FALSE, dtime |-> 0, result |-> "dont_know"]

Activation(t, automatic) ==
    [target |-> t, auto |-> automatic, second |-> FALSE, restart |-> FALSE,
     recheck |-> FALSE, autos |-> {}, i |-> 1, running |-> FALSE,
     ood |-> FALSE, dtime |-> 0, result |-> "dont_know"]

\* doname() of the top activation returns r to doname_check().
Returns(r) == stack' = AsTop([Top EXCEPT !.result = r]) /\ pc' = "check"

\* Wrong: fatal() does not wait for the jobs.
FatalAtOnce == fatal_in_progress' = TRUE /\ pc' = "exit"

\* fatal(): a fatal error while one is handled exits at once.
Fatal == /\ fatal_in_progress' = TRUE
         /\ pc' = IF fatal_in_progress THEN "exit" ELSE "drain"

\* Wrong: only the last dependency tells whether dependencies run; or whether
\* one failed.
DependencyDoneLastRuns(f, d, r) ==
    [f EXCEPT !.i = @ + 1, !.running = r = "running",
              !.result = IF r = "failed" THEN r ELSE @,
              !.ood = @ \/ r = "dont_know",
              !.dtime = IF r = "running" THEN @ ELSE Later(@, mtime[d])]
DependencyDoneLastFails(f, d, r) ==
    [f EXCEPT !.i = @ + 1, !.running = @ \/ r = "running",
              !.result = IF r = "failed" THEN r ELSE "dont_know",
              !.ood = @ \/ r = "dont_know",
              !.dtime = IF r = "running" THEN @ ELSE Later(@, mtime[d])]

\* What check_dependencies() of f does with the result r for its dependency d.
DependencyDone(f, d, r) ==
    [f EXCEPT !.i       = @ + 1,
              !.running = @ \/ r = "running",
              !.result  = IF r = "failed" THEN r ELSE @,
              !.ood     = @ \/ r = "dont_know",
              !.dtime   = IF r = "running" THEN @ ELSE Later(@, mtime[d])]

MarkBuilt(f, r) ==
    LET ds == deps[f.target]
        Mark(d) == [d EXCEPT !.built = TRUE, !.stale = d.stale \/ r = "dont_know"]
    IN [deps EXCEPT ![f.target] =
           [j \in DOMAIN ds |-> IF j = f.i THEN Mark(ds[j]) ELSE ds[j]]]

Init ==
    /\ state = [t \in Target |-> "dont_know"]
    /\ deps \in Makefiles
    /\ mtime \in Times
    /\ rechecking = [t \in Target |-> FALSE]
    /\ running_list = <<>> /\ process_cnt = 0 /\ job_adjust_mode = AdjustMode
    /\ stack = <<>> /\ pc = "goals" /\ back = "goals" /\ caller = "goals"
    /\ quiescent = TRUE /\ gi = 1
    /\ fatal_in_progress = FALSE /\ build_failed_seen = FALSE
    /\ clock = StartTime
-----------------------------------------------------------------------------
(* doname() and doname_check() *)

\* doname() is over before it starts: the target runs, or a member of its
\* group does, or it has been made.
EnterEarly ==
    LET t == Top.target IN
    /\ pc = "enter"
    /\ \/ /\ state[t] = "running"
          /\ Returns("running")
          /\ UNCHANGED <<state, running_list>>
       \/ /\ state[t] /= "running" /\ GroupRunning(t)
          /\ state' = [state EXCEPT ![t] = "running"]
          /\ running_list' = Append(running_list, Waiting(t, "pending", FALSE))
          /\ Returns("running")
       \/ /\ state[t] = "ok" /\ ~GroupRunning(t)
          /\ Returns("ok")
          /\ UNCHANGED <<state, running_list>>
    /\ UNCHANGED <<deps, mtime, rechecking, process_cnt, job_adjust_mode, back,
                   caller, quiescent, gi, errorVars, clock>>

\* doname() up to the call of check_dependencies().  A target in progress
\* depends on itself: it is declared made, after its flags were reset.
EnterFull ==
    LET t == Top.target
        restart == state[t] = "pending"
    IN
    /\ pc = "enter"
    /\ state[t] \notin {"running", "ok"} /\ ~GroupRunning(t)
    /\ deps' = IF restart THEN deps
               ELSE [deps EXCEPT ![t] = Unbuilt(deps[t])]
    /\ IF state[t] = "in_progress"
         THEN Returns("ok") /\ UNCHANGED state
         ELSE /\ state' = [state EXCEPT ![t] = "in_progress"]
              /\ stack' = AsTop([Activation(t, Top.auto) EXCEPT
                                   !.second = Top.second, !.restart = restart,
                                   !.autos = IF KeepState THEN AutosOf(deps[t])
                                                          ELSE {}])
              /\ pc' = "deps"
    /\ UNCHANGED <<mtime, rechecking, listVars, back, caller, quiescent, gi,
                   errorVars, clock>>

\* make_targets() forgets the time of a goal that is made and asks for it again:
\* a goal without a file is no longer extremely new.
LookAgain(t, r) ==
    IF caller = "goals" /\ r = "ok" /\ mtime[t] = file_max_time
      THEN [mtime EXCEPT ![t] = 0] ELSE mtime

\* doname_check() has an answer of doname() it passes on, to the
\* check_dependencies() of the activation below or to its caller.
PassOn(r, failedSeen) ==
    /\ IF Len(stack) = 1
         THEN /\ stack' = <<>> /\ pc' = caller
              /\ mtime' = LookAgain(Top.target, r)
              /\ UNCHANGED deps
         ELSE LET f == Below[Len(Below)] IN
              /\ stack' = [Below EXCEPT ![Len(Below)] =
                                            DependencyDone(f, Top.target, r)]
              /\ deps' = MarkBuilt(f, r)
              /\ pc' = "deps"
              /\ UNCHANGED mtime
    /\ build_failed_seen' = (build_failed_seen \/ failedSeen)
    /\ UNCHANGED fatal_in_progress

DonameCheck ==
    LET r == Top.result IN
    /\ pc = "check"
    /\ \/ /\ r \in {"ok", "running"} \/ (r = "dont_know" /\ Top.auto)
          /\ PassOn(r, FALSE)
       \/ /\ r = "failed" /\ KeepGoing
          /\ PassOn(r, TRUE)
       \/ /\ r = "failed" /\ ~KeepGoing
          /\ Fatal
          /\ UNCHANGED <<stack, deps, mtime, build_failed_seen>>
       \/ /\ r = "dont_know" /\ ~Top.auto /\ ~Top.second
          /\ stack' = AsTop([Top EXCEPT !.second = TRUE])
          /\ pc' = "enter"
          /\ UNCHANGED <<deps, mtime, errorVars>>
       \/ /\ r = "dont_know" /\ ~Top.auto /\ Top.second
          /\ IF KeepGoing THEN PassOn("failed", TRUE)
                          ELSE /\ Fatal
                               /\ UNCHANGED <<stack, deps, mtime, build_failed_seen>>
    /\ UNCHANGED <<state, rechecking, listVars, back, caller, quiescent,
                   gi, clock>>
-----------------------------------------------------------------------------
(* check_dependencies() *)

ScanDependency ==
    LET f == Top
        dep == deps[f.target][f.i]
        made == dep.built \/ state[dep.name] = "failed"
    IN
    /\ pc = "deps" /\ f.i \in DOMAIN deps[f.target]
    /\ \/ \* rechecking is for the hidden dependencies only
          /\ ~dep.auto /\ (f.recheck \/ rechecking[f.target])
          /\ stack' = AsTop([f EXCEPT !.i = @ + 1])
          /\ UNCHANGED <<deps, pc>>
       \/ /\ dep.auto \/ ~(f.recheck \/ rechecking[f.target])
          /\ \/ \* .WAIT: first finish what is running
                /\ dep.name = Wait
                /\ stack' = AsTop([f EXCEPT !.i = IF f.running
                                     THEN Len(deps[f.target]) + 1 ELSE @ + 1])
                /\ UNCHANGED <<deps, pc>>
             \/ /\ dep.name /= Wait /\ made
                /\ stack' = AsTop(DependencyDone(f, dep.name, state[dep.name]))
                /\ deps' = MarkBuilt(f, state[dep.name])
                /\ UNCHANGED pc
             \/ /\ dep.name /= Wait /\ ~made
                /\ stack' = Append(stack, Activation(dep.name, dep.auto))
                /\ pc' = "enter"
                /\ UNCHANGED deps
    /\ UNCHANGED <<state, mtime, rechecking, listVars, back, caller, quiescent,
                   gi, errorVars, clock>>

Scanned == pc = "deps" /\ Top.i \notin DOMAIN deps[Top.target]

\* Dependencies are running: the target waits for them on the running list.
AddPending ==
    LET t == Top.target IN
    /\ Scanned /\ Top.running
    /\ state' = [state EXCEPT ![t] = "running"]
    /\ running_list' = Append(running_list, Waiting(t, "pending", FALSE))
    /\ Returns("running")
    /\ UNCHANGED <<deps, mtime, rechecking, process_cnt, job_adjust_mode, back,
                   caller, quiescent, gi, errorVars, clock>>
-----------------------------------------------------------------------------
(* The second half of doname(), and run_command() *)

\* doname() knows its result r: it keeps it, or starts again when the build
\* of the target brought new hidden dependencies.
Conclude(r, times, ds) ==
    LET t == Top.target IN
    /\ mtime' = times
    /\ IF r = "ok" /\ NewAutos(ds[t], Top.autos)
         THEN /\ state' = [state EXCEPT ![t] = "in_progress"]
              /\ deps' = IF Top.restart THEN ds
                         ELSE [ds EXCEPT ![t] = Unbuilt(ds[t])]
              /\ stack' = AsTop([Activation(t, Top.auto) EXCEPT
                                   !.second = Top.second, !.restart = Top.restart,
                                   !.recheck = TRUE, !.autos = AutosOf(ds[t])])
              /\ pc' = "deps"
         ELSE /\ state' = [state EXCEPT ![t] = r]
              /\ deps' = ds
              /\ Returns(r)

\* A target without a command.
NoCommand ==
    LET t == Top.target
        r == IF t \in Listed THEN "ok"
             ELSE IF Top.result = "dont_know" /\ mtime[t] /= 0 THEN "ok"
             ELSE Top.result
    IN
    /\ Scanned /\ ~Top.running /\ t \notin Rule
    /\ Conclude(r, IF t \in Listed THEN Nice(mtime, t) ELSE mtime, deps)
    /\ UNCHANGED <<rechecking, listVars, back, caller, quiescent, gi, errorVars,
                   clock>>

OutOfDateTop == Top.ood \/ OutOfDate(mtime[Top.target], Top.dtime)

\* The command does not run: a dependency failed, or nothing is out of date.
CommandNotRun ==
    LET t == Top.target IN
    /\ Scanned /\ ~Top.running /\ t \in Rule
    /\ \/ /\ Top.result = "failed"
          /\ Conclude("failed", mtime, deps)
          /\ UNCHANGED rechecking
       \/ /\ Top.result /= "failed" /\ ~OutOfDateTop
          /\ rechecking' = [rechecking EXCEPT ![t] = FALSE]
          /\ Conclude("ok", Nice(mtime, t), deps)
    /\ UNCHANGED <<listVars, back, caller, quiescent, gi, errorVars, clock>>

\* Wrong: one running job is not seen.
BuildAloneWithOne ==
    IF process_cnt <= 1
      THEN pc' = "serial" /\ UNCHANGED <<state, running_list, stack>>
      ELSE /\ state' = [state EXCEPT ![Top.target] = "running"]
           /\ running_list' = Append(running_list,
                                     Waiting(Top.target, "serial", FALSE))
           /\ Returns("running")

\* The target must be built alone: now, or when nothing else runs.
BuildAlone ==
    LET t == Top.target IN
    IF process_cnt = 0
      THEN pc' = "serial" /\ UNCHANGED <<state, running_list, stack>>
      ELSE /\ state' = [state EXCEPT ![t] = "running"]
           /\ running_list' = Append(running_list, Waiting(t, "serial", FALSE))
           /\ Returns("running")

RunCommand ==
    LET t == Top.target IN
    /\ Scanned /\ ~Top.running /\ t \in Rule
    /\ Top.result /= "failed" /\ OutOfDateTop
    /\ \/ /\ ~parallel_ok(t) \/ t \in ManyRules
          /\ BuildAlone
       \/ /\ parallel_ok(t) /\ t \notin ManyRules
          /\ pc' = "slots"
          /\ UNCHANGED <<state, running_list, stack>>
    /\ UNCHANGED <<deps, mtime, rechecking, process_cnt, job_adjust_mode, back,
                   caller, quiescent, gi, errorVars, clock>>

\* execute_serial(): make waits for the commands and judges them itself.
SerialExit ==
    LET t == Top.target
        time == RecipeTime(t)
    IN
    /\ pc = "serial"
    /\ \E list \in Reported(t, deps[t]) :
       LET ds == [deps EXCEPT ![t] = list] IN
       \/ /\ Conclude("ok", Nice(TimeFor(t, time), t), ds)
          /\ clock' = Later(clock, time)
          /\ UNCHANGED errorVars
       \/ /\ t \in MayFail /\ KeepGoing
          /\ Conclude("failed", mtime, ds)
          /\ UNCHANGED <<errorVars, clock>>
       \/ /\ t \in MayFail /\ ~KeepGoing
          /\ Fatal
          /\ deps' = ds
          /\ UNCHANGED <<state, mtime, stack, build_failed_seen, clock>>
    /\ UNCHANGED <<rechecking, listVars, back, caller, quiescent, gi>>
-----------------------------------------------------------------------------
(* execute_parallel(): a slot, then a job *)

\* Wrong: the process is not counted.
StartJobUncounted ==
    /\ running_list' = Append(running_list, Job(Top))
    /\ state' = [state EXCEPT ![Top.target] = "running"]
    /\ Returns("running")
    /\ UNCHANGED <<process_cnt, job_adjust_mode, back>>

\* The process is forked, counted, and put on the running list.
StartJob ==
    /\ running_list' = Append(running_list, Job(Top))
    /\ process_cnt' = process_cnt + 1
    /\ state' = [state EXCEPT ![Top.target] = "running"]
    /\ Returns("running")
    /\ UNCHANGED <<job_adjust_mode, back>>

AwaitFor(where) ==
    /\ pc' = "await" /\ back' = where
    /\ UNCHANGED <<state, running_list, process_cnt, job_adjust_mode, stack>>

\* No slot of the semaphore: run_command() builds the target alone.
NoSlot == BuildAlone /\ UNCHANGED <<process_cnt, job_adjust_mode, back>>

\* Wrong: an idle system may lend a slot.
AdjustedLimitsPlusOne == IF job_adjust_mode = "M1" THEN 1..(PmakeMaxJobs + 1)
                                                   ELSE {PmakeMaxJobs}

\* adjust_pmake_max_jobs(): any limit, the load decides.
AdjustedLimits == IF job_adjust_mode = "M1" THEN 1..PmakeMaxJobs
                                            ELSE {PmakeMaxJobs}

AdjustError == /\ AdjustFails
               /\ job_adjust_mode' = "NONE"
               /\ pc' = "slots"
               /\ UNCHANGED <<state, running_list, process_cnt, stack, back>>

DistributeProcess ==
    /\ \/ /\ pc = "slots" /\ job_adjust_mode /= "M2"
          /\ \E limit \in AdjustedLimits :
                IF process_cnt >= limit THEN AwaitFor("slots") ELSE StartJob
       \/ \* sem_trywait() gets a slot, finds none, or fails
          /\ pc = "slots" /\ job_adjust_mode = "M2"
          /\ \/ StartJob
             \/ IF process_cnt > 0 THEN AwaitFor("retry") ELSE NoSlot
             \/ AdjustError
       \/ \* and once more after one wait
          /\ pc = "retry"
          /\ \/ job_adjust_mode = "M2" /\ (StartJob \/ NoSlot \/ AdjustError)
             \/ job_adjust_mode /= "M2" /\ pc' = "slots"
                /\ UNCHANGED <<state, running_list, process_cnt,
                               job_adjust_mode, stack, back>>
    /\ UNCHANGED <<deps, mtime, rechecking, caller, quiescent, gi, errorVars,
                   clock>>

\* The environment: a job ends.  When all went well its target is written.
JobExit(t) ==
    \E i \in DOMAIN running_list :
      LET e == running_list[i] IN
      /\ e.target = t /\ e.st = "running" /\ e.exit = "none"
      /\ \E exit \in {"ok"} \cup (IF t \in MayFail THEN {"failed"} ELSE {}),
            out \in {TRUE} \cup (IF t \in MayLose THEN {FALSE} ELSE {}) :
           /\ running_list' = [running_list EXCEPT
                  ![i] = [e EXCEPT !.exit = exit, !.out = out,
                                   !.time = RecipeTime(t)]]
           /\ clock' = IF exit = "ok" THEN Later(clock, RecipeTime(t)) ELSE clock
      /\ UNCHANGED <<targetVars, process_cnt, job_adjust_mode, stack, pc, back,
                     caller, quiescent, gi, errorVars>>
-----------------------------------------------------------------------------
(* await_parallel() and finish_children() *)

Exited == {i \in DOMAIN running_list :
             running_list[i].st = "running" /\ running_list[i].exit /= "none"}

\* All processes that have ended are reaped.  fatal() waits for one at least,
\* the others go on without any when the alarm rings.
AwaitParallel ==
    /\ pc = "await"
    /\ back = "drain" => Exited /= {}
    /\ running_list' = [i \in DOMAIN running_list |->
                          IF i \in Exited
                            THEN [running_list[i] EXCEPT !.st = running_list[i].exit]
                            ELSE running_list[i]]
    /\ process_cnt' = process_cnt - Cardinality(Exited)
    /\ \/ UNCHANGED job_adjust_mode
       \/ /\ job_adjust_mode = "M2" /\ AdjustFails /\ Exited /= {}
          /\ job_adjust_mode' = "NONE"
    /\ pc' = "finish"
    /\ UNCHANGED <<targetVars, stack, back, caller, quiescent, gi, errorVars,
                   clock>>

Finished == {i \in DOMAIN running_list : running_list[i].st \in {"ok", "failed"}}

\* update_target() and finish_doname() of a finished entry whose target has
\* the dependencies ds and which leaves the list rest.
FinishDoname(e, ds, rest) ==
    LET t == e.target IN
    IF e.st = "failed"
      THEN /\ state' = [state EXCEPT ![t] = "failed"]
           /\ running_list' = rest
           /\ UNCHANGED <<mtime, rechecking>>
      ELSE /\ mtime' = Nice(TimeFor(t, e.time), t)
           /\ IF NewAutos(ds, e.autos)
                THEN /\ rechecking' = [rechecking EXCEPT ![t] = TRUE]
                     /\ state' = [state EXCEPT ![t] = "running"]
                     /\ running_list' = Append(rest, Waiting(t, "pending", TRUE))
                ELSE /\ state' = [state EXCEPT ![t] = "ok"]
                     /\ running_list' = rest
                     /\ UNCHANGED rechecking

\* One turn of the loop of finish_children(): the first finished entry.
FinishChild ==
    \E i \in Finished :
      LET e == running_list[i]
          t == e.target
          docheck == back /= "drain"
      IN
      /\ pc = "finish" /\ \A j \in Finished : i <= j
      /\ \/ \* stat() of the output file fails
            /\ ~e.out
            /\ Fatal
            /\ running_list' = Unlink(i)
            /\ UNCHANGED <<state, deps, mtime, rechecking, build_failed_seen>>
         \/ /\ e.out /\ e.st = "failed" /\ docheck /\ ~KeepGoing
                     /\ ~fatal_in_progress
            /\ Fatal
            /\ \E ds \in Reported(t, deps[t]) : deps' = [deps EXCEPT ![t] = ds]
            /\ running_list' = Unlink(i)
            /\ UNCHANGED <<state, mtime, rechecking, build_failed_seen>>
         \/ /\ e.out /\ (e.st = "failed" => ~docheck \/ KeepGoing
                                                     \/ fatal_in_progress)
            /\ \E ds \in Reported(t, deps[t]) :
                 /\ deps' = [deps EXCEPT ![t] = ds]
                 /\ IF docheck
                      THEN FinishDoname(e, ds, Unlink(i))
                      ELSE /\ running_list' = Unlink(i)
                           /\ UNCHANGED <<state, mtime, rechecking>>
            /\ build_failed_seen' = (build_failed_seen \/ e.st = "failed")
            /\ UNCHANGED <<pc, fatal_in_progress>>
      /\ UNCHANGED <<process_cnt, job_adjust_mode, stack, back, caller,
                     quiescent, gi, clock>>

FinishChildrenReturns ==
    /\ pc = "finish" /\ Finished = {}
    /\ IF back = "finish_running" /\ running_list /= <<>>
         THEN pc' = "next1" /\ quiescent' = TRUE
         ELSE pc' = back /\ UNCHANGED quiescent
    /\ UNCHANGED <<targetVars, listVars, stack, back, caller, gi, errorVars,
                   clock>>
-----------------------------------------------------------------------------
(* finish_running() and process_next() *)

FinishRunning ==
    /\ pc = "finish_running"
    /\ IF running_list = <<>>
         THEN pc' = "goals" /\ UNCHANGED back
         ELSE pc' = "await" /\ back' = "finish_running"
    /\ UNCHANGED <<targetVars, listVars, stack, caller, quiescent, gi,
                   errorVars, clock>>

\* The entry i leaves the list and its target is built again, in state s.
Resume(i, s, where) ==
    LET t == running_list[i].target IN
    /\ running_list' = Unlink(i)
    /\ state' = [state EXCEPT ![t] = s]
    /\ stack' = <<Activation(t, FALSE)>>
    /\ pc' = "enter" /\ caller' = where
    /\ quiescent' = FALSE

\* Loop 1: nothing runs, a target that must be built alone is built.
Serials == {i \in DOMAIN running_list :
              process_cnt = 0 /\ running_list[i].st = "serial"}

NextSerial ==
    /\ pc = "next1"
    /\ \/ \E i \in Serials : (\A j \in Serials : i <= j) /\ Resume(i, "pending", "next1")
       \/ /\ Serials = {} /\ pc' = "next2"
          /\ UNCHANGED <<state, running_list, stack, caller, quiescent>>
    /\ UNCHANGED <<deps, mtime, rechecking, process_cnt, job_adjust_mode, back,
                   gi, errorVars, clock>>

\* Wrong: a pending target is taken whatever its dependencies do; or only when
\* all of them were made.
StartableAtOnce == {i \in DOMAIN running_list :
    running_list[i].st = "pending" /\ ~GroupRunning(running_list[i].target)}
StartableAllMade == {i \in DOMAIN running_list :
    LET t == running_list[i].target IN
    /\ running_list[i].st = "pending"
    /\ \A j \in DOMAIN deps[t] :
         deps[t][j].name /= Wait => state[deps[t][j].name] = "ok"
    /\ ~GroupRunning(t)}

\* Loop 2: a pending target none of whose dependencies is being built and
\* which is not in a group with a running target.
Startable == {i \in DOMAIN running_list :
    LET t == running_list[i].target IN
    /\ running_list[i].st = "pending"
    /\ \A j \in DOMAIN deps[t] :
         deps[t][j].name /= Wait =>
           state[deps[t][j].name] \notin {"running", "pending", "serial"}
    /\ ~GroupRunning(t)}

Deadlock == /\ quiescent /\ Startable = {}
            /\ \A i \in DOMAIN running_list : running_list[i].st = "pending"

NextPending ==
    /\ pc = "next2"
    /\ \/ /\ \E i \in Startable :
               /\ \A j \in Startable : i <= j
               /\ Resume(i, IF running_list[i].redo THEN "dont_know" ELSE "pending",
                         "next2")
          /\ UNCHANGED errorVars
       \/ /\ Startable = {}
          /\ IF Deadlock THEN Fatal
                         ELSE pc' = "finish_running" /\ UNCHANGED fatal_in_progress
          /\ UNCHANGED <<state, running_list, stack, caller, quiescent,
                         build_failed_seen>>
    /\ UNCHANGED <<deps, mtime, rechecking, process_cnt, job_adjust_mode, back,
                   gi, clock>>
-----------------------------------------------------------------------------
(* make_targets() and fatal() *)

\* The next goal; first what runs is finished when it cannot run beside it.
MakeTargets ==
    /\ pc = "goals"
    /\ LET alone == gi <= Len(Goals) /\ process_cnt > 0
                    /\ (Goals[gi] = Wait \/ ~parallel_ok(Goals[gi]))
       IN
       \/ /\ alone
          /\ pc' = "finish_running"
          /\ UNCHANGED <<stack, caller, gi>>
       \/ /\ ~alone /\ gi <= Len(Goals) /\ Goals[gi] = Wait
          /\ gi' = gi + 1
          /\ UNCHANGED <<stack, caller, pc>>
       \/ /\ ~alone /\ gi <= Len(Goals) /\ Goals[gi] /= Wait
          /\ gi' = gi + 1
          /\ stack' = <<Activation(Goals[gi], FALSE)>>
          /\ pc' = "enter" /\ caller' = "goals"
       \/ /\ gi > Len(Goals)
          /\ pc' = IF running_list = <<>> THEN "done" ELSE "finish_running"
          /\ UNCHANGED <<stack, caller, gi>>
    /\ UNCHANGED <<targetVars, listVars, back, quiescent, errorVars, clock>>

\* fatal() lets all parallel children finish, then exits.
Drain ==
    /\ pc = "drain"
    /\ IF process_cnt > 0 THEN pc' = "await" /\ back' = "drain"
                          ELSE pc' = "exit" /\ UNCHANGED back
    /\ UNCHANGED <<targetVars, listVars, stack, caller, quiescent, gi,
                   errorVars, clock>>

MakeStep ==
    \/ EnterEarly \/ EnterFull \/ DonameCheck
    \/ ScanDependency \/ AddPending \/ NoCommand \/ CommandNotRun \/ RunCommand
    \/ DistributeProcess \/ AwaitParallel \/ FinishChild
    \/ FinishChildrenReturns \/ FinishRunning \/ NextSerial \/ NextPending
    \/ MakeTargets \/ Drain

\* The process is gone; jobs it did not wait for may still end.
Over == pc \in {"done", "exit"} /\ UNCHANGED vars

Next == Over \/ MakeStep \/ SerialExit \/ \E t \in Target : JobExit(t)

\* make runs while it can, and every command ends.
Fairness == /\ WF_vars(MakeStep) /\ WF_vars(SerialExit)
            /\ \A t \in Target : WF_vars(JobExit(t))

Spec == Init /\ [][Next]_vars /\ Fairness
-----------------------------------------------------------------------------
(* Properties *)

TypeOK ==
    /\ state \in [Target -> Doname]
    /\ deps \in [Target -> Seq(Dependency)]
    /\ mtime \in [Target -> Nat]
    /\ rechecking \in [Target -> BOOLEAN]
    /\ running_list \in Seq(Entry)
    /\ process_cnt \in Int
    /\ job_adjust_mode \in {"M1", "M2", "NONE"}
    /\ stack \in Seq(Frame)
    /\ pc \in {"goals", "enter", "check", "deps", "serial", "slots", "retry",
               "await", "finish", "finish_running", "next1", "next2", "drain",
               "exit", "done"}
    /\ back \in {"goals", "slots", "retry", "finish_running", "drain"}
    /\ caller \in {"goals", "next1", "next2"}
    /\ quiescent \in BOOLEAN /\ gi \in Nat \ {0} /\ clock \in Nat
    /\ fatal_in_progress \in BOOLEAN /\ build_failed_seen \in BOOLEAN

Jobs == {i \in DOMAIN running_list : running_list[i].st = "running"}

\* parallel_process_cnt is the number of processes not reaped yet: the count
\* that limits the jobs, tells when a target may be built alone and how long
\* fatal() waits (parallel.cc 407, 1423).
JobsCounted == process_cnt = Cardinality(Jobs)

\* Without the shared semaphore make never runs more than -j jobs.
JobLimit == AdjustMode /= "M2" => Cardinality(Jobs) <= PmakeMaxJobs

\* A target that must be built alone is: no job runs beside its commands.
SerialAlone == pc = "serial" => Jobs = {}

\* Until a fatal error, a target whose state is build_running has one entry
\* on the running list, and no other target has one: no target is forgotten
\* (nobody would ever finish it) and none is built twice at a time.
OneEntryPerTarget ==
    ~fatal_in_progress =>
      /\ \A i, j \in DOMAIN running_list :
            running_list[i].target = running_list[j].target => i = j
      /\ \A t \in Target : state[t] = "running" <=>
            \E i \in DOMAIN running_list : running_list[i].target = t

\* The targets whose commands run.
Building == {running_list[i].target : i \in Jobs}
            \cup (IF pc = "serial" THEN {Top.target} ELSE {})

\* The recipe of a group runs for another of its targets only when that one
\* has a dependency newer than the files the recipe made.
GroupBuiltOnce ==
    [][\A t \in Building' \ Building : \A g \in Group[t] \ {t} :
         \/ mtime[g] <= StartTime
         \/ \E j \in DOMAIN deps[t] :
              deps[t][j].name /= Wait /\ mtime[g] < mtime[deps[t][j].name]]_vars

\* process_next() never reports "deadlock detected".
NoDeadlock == ~(pc = "next2" /\ Deadlock)

\* However make ends, it has waited for all its jobs.
NoJobLeft == pc \in {"done", "exit"} => Jobs = {}

\* A build without errors leaves no target with a recipe older than one of
\* its dependencies, the hidden ones included.
EndsUpToDate ==
    pc = "done" /\ ~build_failed_seen =>
      \A t \in Rule : state[t] = "ok" =>
        \A j \in DOMAIN deps[t] :
          LET dep == deps[t][j] IN
          dep.name /= Wait /\ ~dep.stale =>
            /\ state[dep.name] = "ok"
            /\ mtime[dep.name] <= mtime[t] \/ mtime[dep.name] = file_max_time

\* With -k everything that does not depend on a failure is made, and no target
\* with a recipe that does.  Hidden dependencies that cannot be made are given
\* up.  (A target without a recipe is declared made even when its dependencies
\* failed: doname.cc 876.)
KeepsGoing ==
    pc = "done" =>
      \A t \in Rule :
        LET D == {deps[t][j].name : j \in {k \in DOMAIN deps[t] :
                                             ~(deps[t][k].auto /\ deps[t][k].stale)}}
                 \ {Wait}
        IN
        /\ state[t] = "failed" =>
              \/ t \in MayFail
              \/ \E d \in D : state[d] = "failed"
              \/ \E d \in D \ Rule : state[d] = "dont_know"
        /\ state[t] = "ok" => \A d \in D : state[d] = "ok"

\* The scheduler implements BuildOrder.
Order == INSTANCE BuildOrder WITH
    MaxJobs  <- PmakeMaxJobs,
    needs    <- [t \in Target |->
                   {deps[t][j].name : j \in {k \in DOMAIN deps[t] :
                                               ~deps[t][k].auto}} \ {Wait}],
    building <- {running_list[i].target : i \in Jobs \cup Finished}
                \cup (IF pc = "serial" THEN {Top.target} ELSE {}),
    made     <- {t \in Target : state[t] = "ok"}

ImplementsBuildOrder == Order!Spec

\* Every build comes to an end.
Terminates == <>(pc \in {"done", "exit"})
=============================================================================
