------------------------------ MODULE JobSlots ------------------------------
(***************************************************************************)
(* DMAKE_ADJUST_MAX_JOBS=M2: a dmake and the dmakes its recipes run share  *)
(* one limit of jobs.  The first that starts a job makes a semaphore in    *)
(* shared memory and puts its name into the environment; those below it    *)
(* find it there.  A job takes a permit, which comes back when the job is  *)
(* reaped.  A dmake that gets none and has no job runs its recipe itself.  *)
(* Here a dmake is only what it starts and reaps; JobScheduler has the     *)
(* rest of it.                                                             *)
(***************************************************************************)
EXTENDS Integers, FiniteSets

CONSTANTS
    Dmake,      \* all the dmakes there may be
    Root,       \* the one the user starts
    None,
    MaxJobs,    \* pmake_max_jobs, the same for all
    Recipes,    \* how many recipes each of them may run
    Faults      \* a subset of {"init", "crash"}: m2_init() fails, a dmake is killed

ASSUME SlotsAssumption ==
    /\ Root \in Dmake /\ None \notin Dmake
    /\ IsFiniteSet(Dmake)
    /\ MaxJobs \in Nat \ {0} /\ Recipes \in Nat
    /\ Faults \subseteq {"init", "crash"}

VARIABLES
    pc,         \* what each dmake does
    mode,       \* job_adjust_mode
    env,        \* DMAKE_ADJUST_MAX_JOBS and __DMAKE_M2_FILE__ in its environment
    sem,        \* m2_shm_sem: the semaphore, named by the dmake that made it
    boss,       \* whose child process it is
    forked,     \* the dmakes that were started as jobs
    running,    \* jobs that are no dmakes
    ended,      \* such jobs that have ended but are not reaped
    left,       \* recipes not run yet
    live,       \* does the shared memory exist, and the file that names it?
    value       \* the value of each semaphore

family == <<boss, forked, running, ended, left>>
shared == <<live, value>>
vars == <<pc, mode, env, sem, family, shared>>

Init ==
    /\ pc = [d \in Dmake |-> IF d = Root THEN "work" ELSE "new"]
    /\ mode = [d \in Dmake |-> "UNKNOWN"]
    /\ env = [d \in Dmake |-> [adjust |-> "M2", file |-> None]]
    /\ sem = [d \in Dmake |-> None]
    /\ boss = [d \in Dmake |-> None] /\ forked = {}
    /\ running = [d \in Dmake |-> 0] /\ ended = [d \in Dmake |-> 0]
    /\ left = [d \in Dmake |-> Recipes]
    /\ live = [s \in Dmake |-> FALSE]
    /\ value = [s \in Dmake |-> 0]

Gone(d) == pc[d] \in {"gone", "killed"}
Kids(d) == {q \in Dmake : boss[q] = d}

\* parallel_process_cnt
Jobs(d) == running[d] + ended[d] + Cardinality(Kids(d))

\* Processes that have the shared memory attached: also what a killed dmake
\* left running, and the process that was forked to run a dmake as a job.
Attached(s) ==
    {d \in Dmake : sem[d] = s /\ (~Gone(d) \/ running[d] > 0)}
    \cup {<<"job", q>> : q \in {k \in Dmake :
              k \in forked /\ ~Gone(k) /\ env[k].file = s}}
-----------------------------------------------------------------------------
(* Recipes *)

\* A command that is no dmake, or a dmake that inherits the environment.
Command(d) ==
    \/ /\ running' = [running EXCEPT ![d] = @ + 1]
       /\ pc' = [pc EXCEPT ![d] = "work"]
       /\ UNCHANGED <<boss, forked, env>>
    \/ \E q \in Dmake :
         /\ pc[q] = "new"
         /\ pc' = [pc EXCEPT ![d] = "work", ![q] = "work"]
         /\ boss' = [boss EXCEPT ![q] = d]
         /\ forked' = forked \cup {q}
         /\ env' = [env EXCEPT ![q] = env[d]]
         /\ UNCHANGED running

\* execute_parallel() forks a job.
StartJob(d) ==
    /\ Command(d)
    /\ left' = [left EXCEPT ![d] = @ - 1]
    /\ UNCHANGED <<mode, sem, ended, live>>

\* execute_serial(): d waits for a command it runs itself.
Serially(d) ==
    /\ left' = [left EXCEPT ![d] = @ - 1]
    /\ \/ /\ pc' = [pc EXCEPT ![d] = "serial"]
          /\ UNCHANGED <<boss, env>>
       \/ \E q \in Dmake :
            /\ pc[q] = "new"
            /\ pc' = [pc EXCEPT ![d] = "serial", ![q] = "work"]
            /\ boss' = [boss EXCEPT ![q] = d]
            /\ env' = [env EXCEPT ![q] = env[d]]
    /\ UNCHANGED <<mode, sem, forked, running, ended, shared>>

\* run_command(): a recipe that may be a job, and one that must run alone.
Begin(d) ==
    /\ pc[d] = "work" /\ left[d] > 0
    /\ pc' = [pc EXCEPT ![d] = "slots"]
    /\ UNCHANGED <<mode, env, sem, family, shared>>

Alone(d) ==
    /\ pc[d] = "work" /\ left[d] > 0 /\ Jobs(d) = 0
    /\ Serially(d)

JobExit(d) ==
    /\ running[d] > 0
    /\ running' = [running EXCEPT ![d] = @ - 1]
    /\ ended' = [ended EXCEPT ![d] = IF Gone(d) THEN @ ELSE @ + 1]
    /\ UNCHANGED <<pc, mode, env, sem, boss, forked, left, shared>>

SerialExit(d) ==
    /\ pc[d] = "serial"
    /\ \A q \in Kids(d) : Gone(q)
    /\ boss' = [q \in Dmake |-> IF boss[q] = d THEN None ELSE boss[q]]
    /\ pc' = [pc EXCEPT ![d] = "work"]
    /\ UNCHANGED <<mode, env, sem, forked, running, ended, left, shared>>
-----------------------------------------------------------------------------
(* The semaphore *)

\* The semaphore d is to use: its own if the environment names none.
SemOf(d) == IF env[d].file = None THEN d ELSE env[d].file

\* m2_init(): the first dmake makes the semaphore and exports its name, the
\* others find it.
M2Init(d) ==
    LET s == SemOf(d) IN
    /\ sem' = [sem EXCEPT ![d] = s]
    /\ IF s = d
         THEN /\ live' = [live EXCEPT ![d] = TRUE]
              /\ value' = [value EXCEPT ![d] = MaxJobs]
              /\ env' = [env EXCEPT ![d].file = d]
         ELSE live[s] /\ UNCHANGED <<shared, env>>

\* job_adjust_error(): no adjustment here, nor in the children.
AdjustError(d) ==
    /\ mode' = [mode EXCEPT ![d] = "NONE"]
    /\ env' = [env EXCEPT ![d].adjust = "NO"]
    /\ UNCHANGED <<sem, shared>>

\* job_adjust_init(), before the first job.
AdjustInit(d) ==
    /\ pc[d] = "slots" /\ mode[d] = "UNKNOWN"
    /\ \/ /\ env[d].adjust = "M2"
          /\ mode' = [mode EXCEPT ![d] = "M2"]
          /\ M2Init(d)
       \/ /\ \/ env[d].adjust = "NO"
             \/ SemOf(d) /= d /\ ~live[SemOf(d)]
             \/ "init" \in Faults
          /\ AdjustError(d)
    /\ UNCHANGED <<pc, family>>

\* Wrong: without a permit a dmake with jobs runs one more command itself.
NoSlotSerial(d) == Serially(d)

\* Wrong: without a permit d waits, even when it has no job to wait for.
NoSlotWait(d) == /\ pc' = [pc EXCEPT ![d] = "wait"]
                 /\ UNCHANGED <<mode, env, sem, family, shared>>

\* No permit: with jobs of its own d waits for one of them, or else returns
\* the recipe to the running list; without, it runs the recipe itself.
NoSlot(d) ==
    IF Jobs(d) = 0
      THEN Serially(d)
      ELSE /\ pc' = [pc EXCEPT ![d] = IF @ = "slots" THEN "wait" ELSE "work"]
           /\ UNCHANGED <<mode, env, sem, family, shared>>

Permit(s) == value[s] > 0

\* distribute_process() with m2_acquire_job(), at most twice.
Acquire(d) ==
    /\ pc[d] \in {"slots", "retry"} /\ mode[d] = "M2"
    /\ \/ /\ Permit(sem[d])
          /\ value' = [value EXCEPT ![sem[d]] = @ - 1]
          /\ StartJob(d)
       \/ ~Permit(sem[d]) /\ NoSlot(d)

\* ADJUST_NONE: d counts its own jobs only.
Unadjusted(d) ==
    /\ pc[d] = "slots" /\ mode[d] = "NONE" /\ Jobs(d) < MaxJobs
    /\ StartJob(d)
    /\ UNCHANGED value

Zombies(d) == {q \in Kids(d) : Gone(q)}

\* Wrong: the permits are kept.
ReleaseNone(d) == UNCHANGED value

\* m2_release_job() for every process that is reaped.
Release(d) ==
    IF mode[d] = "M2"
      THEN value' = [value EXCEPT ![sem[d]] =
                       @ + ended[d] + Cardinality(Zombies(d))]
      ELSE UNCHANGED value

\* await_parallel(): all that have ended are reaped.  It is called when there
\* is nothing else to do or no slot; in distribute_process() the alarm may end
\* it before any job has.
AwaitParallel(d) ==
    /\ \/ pc[d] = "work" \/ pc[d] = "wait"
       \/ pc[d] = "slots" /\ mode[d] = "NONE" /\ Jobs(d) >= MaxJobs
    /\ pc[d] = "wait" \/ ended[d] + Cardinality(Zombies(d)) > 0
    /\ Release(d)
    /\ ended' = [ended EXCEPT ![d] = 0]
    /\ boss' = [q \in Dmake |-> IF q \in Zombies(d) THEN None ELSE boss[q]]
    /\ pc' = [pc EXCEPT ![d] = IF @ = "wait" THEN "retry" ELSE @]
    /\ UNCHANGED <<mode, env, sem, forked, running, left, live>>
-----------------------------------------------------------------------------
(* The end of a dmake *)

\* All is built, or after an error all jobs have been waited for.
Finish(d) ==
    /\ pc[d] = "work" /\ Jobs(d) = 0
    /\ pc' = [pc EXCEPT ![d] = IF mode[d] = "M2" THEN "stat" ELSE "gone"]
    /\ UNCHANGED <<mode, env, sem, family, shared>>

\* Wrong: everybody destroys it.
LastOneAlways(s) == TRUE

LastOne(s) == Cardinality(Attached(s)) <= 1

\* m2_fini() asks how many processes are attached, then the last one removes
\* the shared memory and its file, and the others detach.
Stat(d) ==
    /\ pc[d] = "stat"
    /\ pc' = [pc EXCEPT ![d] = IF LastOne(sem[d]) THEN "destroy" ELSE "detach"]
    /\ UNCHANGED <<mode, env, sem, family, shared>>

Fini(d) ==
    /\ pc[d] \in {"destroy", "detach"}
    /\ live' = [live EXCEPT ![sem[d]] = @ /\ pc[d] = "detach"]
    /\ sem' = [sem EXCEPT ![d] = None]
    /\ pc' = [pc EXCEPT ![d] = "gone"]
    /\ UNCHANGED <<mode, env, family, value>>

\* d is killed; what it started goes on.
Crash(d) ==
    /\ "crash" \in Faults /\ pc[d] /= "new" /\ ~Gone(d)
    /\ pc' = [pc EXCEPT ![d] = "killed"]
    /\ boss' = [q \in Dmake |-> IF boss[q] = d THEN None ELSE boss[q]]
    /\ ended' = [ended EXCEPT ![d] = 0]
    /\ UNCHANGED <<mode, env, sem, forked, running, left, shared>>

Step(d) == \/ Begin(d) \/ Alone(d) \/ AdjustInit(d) \/ Acquire(d)
           \/ Unadjusted(d) \/ AwaitParallel(d) \/ Finish(d) \/ Stat(d) \/ Fini(d)

Over == (\A d \in Dmake : Gone(d) \/ pc[d] = "new") /\ UNCHANGED vars

Next == Over \/ \E d \in Dmake : Step(d) \/ JobExit(d) \/ SerialExit(d) \/ Crash(d)

\* Every dmake goes on while it can, and every command ends.
Fairness == \A d \in Dmake : WF_vars(Step(d)) /\ WF_vars(JobExit(d))
                             /\ WF_vars(SerialExit(d))

Spec == Init /\ [][Next]_vars /\ Fairness
-----------------------------------------------------------------------------
(* Properties *)

TypeOK ==
    /\ pc \in [Dmake -> {"new", "work", "slots", "wait", "retry", "serial",
                         "stat", "destroy", "detach", "gone", "killed"}]
    /\ mode \in [Dmake -> {"UNKNOWN", "M2", "NONE"}]
    /\ env \in [Dmake -> [adjust : {"M2", "NO"}, file : Dmake \cup {None}]]
    /\ sem \in [Dmake -> Dmake \cup {None}]
    /\ boss \in [Dmake -> Dmake \cup {None}]
    /\ forked \subseteq Dmake
    /\ running \in [Dmake -> Nat] /\ ended \in [Dmake -> Nat]
    /\ left \in [Dmake -> 0..Recipes]
    /\ live \in [Dmake -> BOOLEAN] /\ value \in [Dmake -> Nat]

Killed == {d \in Dmake : pc[d] = "killed"}
Unlimited == {d \in Dmake : mode[d] = "NONE"}

\* The jobs of d one by one: commands, and dmakes below it.
JobsOf(d) == ({d} \X {"command"} \X (1..(running[d] + ended[d])))
             \cup ({d} \X {"dmake"} \X Kids(d))

\* Who starts jobs with permits of semaphore s, and these jobs.
Users(s) == {d \in Dmake : sem[d] = s /\ pc[d] /= "serial" /\ ~Gone(d)}
Holders(s) == UNION {JobsOf(d) : d \in Users(s)}

\* Permits are not made up: the free ones and the jobs are never more than
\* MaxJobs.  And while no dmake is killed none gets lost.
SlotsConserved ==
    \A s \in Dmake :
      live[s] => /\ value[s] + Cardinality(Holders(s)) <= MaxJobs
                 /\ Killed = {} => value[s] + Cardinality(Holders(s)) = MaxJobs

\* "fixed limit of jobs for the group of nested dmakes" (parallel.cc 641): all
\* commands that run, the ones without a permit included, are at most MaxJobs,
\* as long as the adjustment works everywhere.
GroupLimit ==
    Killed \cup Unlimited = {} =>
      Cardinality(UNION {{d} \X (1..running[d]) : d \in Dmake})
      + Cardinality({d \in Dmake : pc[d] = "serial" /\ Kids(d) = {}}) <= MaxJobs

\* The semaphore is not destroyed while another dmake uses it.
StaysWhileUsed ==
    Killed = {} => \A d \in Dmake : sem[d] /= None => live[sem[d]]

\* Nobody waits for a permit for ever, whatever became of the permits.
Terminates == <>(\A d \in Dmake : Gone(d) \/ pc[d] = "new")
=============================================================================
