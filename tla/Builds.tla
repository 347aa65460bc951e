------------------------------- MODULE Builds -------------------------------
(***************************************************************************)
(* One build after another in a directory with .KEEP_STATE: what make      *)
(* compares (times, command lines, hidden dependencies), what it records   *)
(* in .make.state, and what an interrupt, a failing recipe, -n and -t      *)
(* leave behind for the next build.  Between builds the user edits sources *)
(* and rules.                                                              *)
(*                                                                         *)
(* In which order doname() looks at targets is the subject of              *)
(* JobScheduler; here a target is looked at when what it depends on is     *)
(* concluded.                                                              *)
(***************************************************************************)
EXTENDS Integers, Sequences, FiniteSets

CONSTANTS
    Source,         \* files nobody makes
    Target,         \* files with a rule
    Deps,           \* [Target -> SUBSET (Source \cup Target)]: the makefile
    Includes,       \* [Target -> SUBSET Source]: what a recipe may read besides
    Recipe,         \* [Target -> Seq(commands)]: the rules a user writes, in turn;
                    \*   a command is a sequence of lines [text, ignored]
    Alone,          \* targets parallel_ok() refuses
    Precious,       \* .PRECIOUS
    MayFail,        \* recipes that may fail, and leave half a file
    Reporters,      \* recipes that report what they read
    Goals,          \* the command line
    Invocations,    \* ways to run make: [mode, jobs, keep], the mode in {"run",
                    \*   "-n", "-t"}, the value of -j (1 is serial mode), and of -k
    Edits,          \* what a user does between two builds
    Interrupts,     \* is make interrupted?
    MaxEdits,       \* bounds the edits and the interrupts
    MaxRuns

File == Source \cup Target

Cmd_line == [text : STRING, ignored : BOOLEAN]
\* The lines that are not marked "?" are compared, and what a command does is
\* what they do.
Compared(command) == {i \in DOMAIN command : ~command[i].ignored}
Effect(command) == SelectSeq(command, LAMBDA l : ~l.ignored)

ASSUME MakefileAssumption ==
    /\ IsFiniteSet(File) /\ Source \cap Target = {} /\ Goals \subseteq Target
    /\ Deps \in [Target -> SUBSET File] /\ Includes \in [Target -> SUBSET Source]
    /\ Recipe \in [Target -> Seq(Seq(Cmd_line) \ {<<>>}) \ {<<>>}]
    \* a rule that was changed does not come back
    /\ \A t \in Target : \A i, j, k \in DOMAIN Recipe[t] :
            i < j /\ j < k /\ Effect(Recipe[t][i]) = Effect(Recipe[t][k])
                => Effect(Recipe[t][j]) = Effect(Recipe[t][i])

ASSUME InvocationAssumption ==
    Invocations \subseteq [mode : {"run", "-n", "-t"}, jobs : Nat \ {0}, keep : BOOLEAN]

VARIABLES
    disk,       \* [File -> Nat]: the times of the files, 0 if there is none
    whole,      \* the files that no recipe has left half-written
    rule,       \* [Target -> Nat]: the current rule, an index of Recipe
    includes,   \* [Target -> SUBSET Source]: what the recipe reads now
    saved,      \* .make.state
    make,       \* the process
    right,      \* targets whose file is what a build from nothing would make
    vouched,    \* targets that make -t touched
    idle,       \* everything was made and nothing edited since
    foretold,   \* what a make -n said it would do
    edits, runs

vars == <<disk, whole, rule, includes, saved, make, right, vouched, idle,
          foretold, edits, runs>>
user == <<rule, includes, edits>>
files == <<disk, whole, right, vouched>>
rest == <<saved, idle, foretold, runs>>

\* A line of .make.state, and what make knows of a target: command_used and
\* the automatic dependencies that are not stale.
Record == [cmd : Nat, autos : SUBSET Source]
NoRecord == [cmd |-> 0, autos |-> {}]
Active == {"running", "writing", "done", "error"}
Status == {"none", "queued", "ok", "failed"} \cup Active
NoPlan == {"?"}

\* "off"; "on"; "fatal": it only waits for the jobs that run.
Started(mode, jobs, k, memory) ==
    [phase |-> "on", mode |-> mode, jobs |-> jobs, keep_going |-> k,
     mem |-> memory,                        \* the line properties
     state |-> [t \in Target |-> "none"],
     faked |-> {},           \* targets with the time file_max_time
     gone |-> {},            \* targets with a hidden dependency that is gone
     held |-> {},            \* dont_rebuild_command_used
     command_changed |-> FALSE, rewrite_statefile |-> FALSE, did |-> {}]
NoMemory == [t \in Target |-> NoRecord]
\* The process is gone; only what it did is remembered.
Stopped(mode, did) ==
    [Started(mode, 1, FALSE, NoMemory) EXCEPT !.phase = "off", !.did = did]

\* Only the order of the times counts: they are the numbers 1, 2, ...
Exists == {f \in File : disk[f] > 0}
FileMaxTime == Cardinality(File) + 1
Ranked(times) ==
    [f \in File |-> Cardinality({g \in File : 0 < times[g] /\ times[g] <= times[f]})]
Written(f) == Ranked([disk EXCEPT ![f] = FileMaxTime])
Without(F) == Ranked([f \in File |-> IF f \in F THEN 0 ELSE disk[f]])

Init ==
    /\ disk = Ranked([f \in File |-> IF f \in Source THEN 1 ELSE 0])
    /\ whole = Source
    /\ rule = [t \in Target |-> 1]
    /\ includes = Includes
    /\ saved = NoMemory
    /\ make = Stopped("run", {})
    /\ right = {} /\ vouched = {} /\ idle = FALSE /\ foretold = NoPlan
    /\ edits = 0 /\ runs = 0

-----------------------------------------------------------------------------
(* The user.                                                               *)

\* Above(S): the targets that are made from something in S, S included.
Above(S) ==
    LET up[n \in 0 .. Cardinality(Target)] ==
            IF n = 0 THEN S
            ELSE up[n - 1] \cup {t \in Target : (Deps[t] \cup includes[t]) \cap up[n - 1] /= {}}
    IN up[Cardinality(Target)]

Edited(wrong) ==
    /\ make.phase = "off" /\ edits < MaxEdits
    /\ edits' = edits + 1
    /\ right' = right \ wrong
    /\ idle' = FALSE /\ foretold' = NoPlan
    /\ UNCHANGED <<whole, saved, make, vouched, runs>>

\* A source is edited; what the recipes read changes with it.
EditSource(s) ==
    /\ "source" \in Edits /\ s \in Exists
    /\ Edited(Above({s}))
    /\ disk' = Written(s)
    /\ includes' \in [Target -> SUBSET Source]
    /\ \A t \in Target :
            IF s \in Deps[t] THEN includes'[t] \subseteq Includes[t] \cap Exists
            ELSE includes'[t] = includes[t]
    /\ UNCHANGED rule

\* A header nobody includes any more is removed.
RemoveHeader(s) ==
    /\ "header" \in Edits /\ s \in Exists
    /\ \A t \in Target : s \notin Deps[t] \cup includes[t]
    /\ Edited({})
    /\ disk' = Without({s})
    /\ UNCHANGED <<rule, includes>>

\* The rule of t is changed.
EditRule(t) ==
    /\ "rule" \in Edits /\ rule[t] < Len(Recipe[t])
    /\ rule' = [rule EXCEPT ![t] = @ + 1]
    /\ Edited(IF Effect(Recipe[t][rule[t]]) = Effect(Recipe[t][rule[t] + 1])
              THEN {} ELSE Above({t}))
    /\ UNCHANGED <<disk, includes>>

RemoveTarget(t) ==
    /\ "target" \in Edits /\ t \in Exists
    /\ Edited({t})
    /\ disk' = Without({t})
    /\ UNCHANGED <<rule, includes>>

-----------------------------------------------------------------------------
(* make looks at a target.                                                 *)

\* stat.time, as doname() sees it: 0 is file_doesnt_exist.
Time(f) == IF f \in make.faked THEN FileMaxTime ELSE disk[f]
\* OUT_OF_DATE of defs.h
OutOfDate(a, b) == a < b \/ (a = 0 /\ b = 0)

\* build_command_strings(): the new command is compared with the old one line
\* by line; a line with $? or a "?" is not looked at, a longer or a shorter
\* command counts unless no line is looked at.
Differ(old, new) ==
    \/ \E i \in Compared(new) \cap DOMAIN old : old[i].text /= new[i].text
    \/ Len(old) /= Len(new) /\ Compared(new) /= {}
Replaces(t, cmd) ==
    Differ(IF cmd = 0 THEN <<>> ELSE Recipe[t][cmd], Recipe[t][rule[t]])
CommandDiffers(t) == Replaces(t, make.mem[t].cmd)

Running == {t \in Target : make.state[t] \in Active}
Concluded == Source \cup {t \in Target : make.state[t] \in {"ok", "failed"}}
\* The goals and the targets they depend on.
Wanted ==
    {t \in Target : \A W \in SUBSET Target :
        Goals \subseteq W /\ (\A w \in W : Deps[w] \cap Target \subseteq W) => t \in W}

\* Hidden dependencies that are not there: build_dont_know.
Vanished(t) == make.mem[t].autos \ Exists
Stale(t) ==
    \/ t \in make.gone \/ Vanished(t) /= {}
    \/ \E d \in Deps[t] \cup make.mem[t].autos : OutOfDate(Time(t), Time(d))
    \/ Deps[t] \cup make.mem[t].autos = {} /\ OutOfDate(Time(t), 0)

\* Wrong: the new command does not replace the old one.
CheckedOnly(t) ==
    [make EXCEPT !.mem[t].autos = @ \ Vanished(t),
                 !.command_changed = @ \/ CommandDiffers(t)]

\* check_dependencies() and the first half of run_command(): what is known of t
\* after its dependencies and its command were looked at.
Checked(t) ==
    LET missing == Vanished(t) /= {}
        differs == t \notin make.held /\ CommandDiffers(t)
    IN [make EXCEPT
            !.mem[t] = [cmd |-> IF t \in make.held THEN @.cmd ELSE rule[t],
                        autos |-> @.autos \ Vanished(t)],
            !.gone = IF missing THEN @ \cup {t} ELSE @,
            !.command_changed = @ \/ missing \/ differs,
            !.rewrite_statefile = @ \/ missing]
NeedsBuild(t) == Stale(t) \/ (t \notin make.held /\ CommandDiffers(t))

MayConsider(t) ==
    /\ make.phase = "on" /\ t \in Wanted
    /\ make.jobs = 1 => Running = {}
    /\ \/ make.state[t] = "none" /\ Deps[t] \subseteq Concluded
       \/ make.state[t] = "queued" /\ Running = {}

\* A dependency could not be made: nor can this.
DependencyFailed(t) ==
    /\ MayConsider(t)
    /\ \E d \in Deps[t] \cap Target : make.state[d] = "failed"
    /\ make' = [make EXCEPT !.state[t] = "failed"]
    /\ UNCHANGED <<user, files, rest>>

Ready(t) == MayConsider(t) /\ \A d \in Deps[t] \cap Target : make.state[d] = "ok"

UpToDate(t) ==
    /\ Ready(t) /\ ~NeedsBuild(t)
    /\ make' = [Checked(t) EXCEPT !.state[t] = "ok"]
    /\ UNCHANGED <<user, files, rest>>

\* A target that wants to be alone waits until nothing runs.
MustWait(t) == t \in Alone /\ make.jobs > 1 /\ Running /= {}
PutAside(t) ==
    /\ Ready(t) /\ NeedsBuild(t) /\ make.mode = "run" /\ MustWait(t)
    /\ make' = [Checked(t) EXCEPT !.rewrite_statefile = TRUE, !.state[t] = "queued",
                                  !.held = @ \cup {t}]
    /\ UNCHANGED <<user, files, rest>>

RunCommand(t) ==
    /\ Ready(t) /\ NeedsBuild(t) /\ make.mode = "run" /\ ~MustWait(t)
    /\ Cardinality(Running) < make.jobs /\ Running \cap Alone = {}
    /\ make' = [Checked(t) EXCEPT !.rewrite_statefile = TRUE, !.state[t] = "running",
                                  !.did = @ \cup {t}]
    /\ UNCHANGED <<user, files, rest>>

\* Wrong: no time is made up.
PrintCommandOnly(t) ==
    /\ Ready(t) /\ NeedsBuild(t) /\ make.mode = "-n"
    /\ make' = [Checked(t) EXCEPT !.state[t] = "ok", !.did = @ \cup {t}]
    /\ UNCHANGED <<user, files, rest>>

\* -n: the recipe is printed, the time is made up.
PrintCommand(t) ==
    /\ Ready(t) /\ NeedsBuild(t) /\ make.mode = "-n"
    /\ make' = [Checked(t) EXCEPT !.rewrite_statefile = TRUE, !.state[t] = "ok",
                                  !.faked = @ \cup {t}, !.did = @ \cup {t}]
    /\ UNCHANGED <<user, files, rest>>

\* -t: the file is touched, the real command is remembered.
TouchCommand(t) ==
    /\ Ready(t) /\ NeedsBuild(t) /\ make.mode = "-t"
    /\ make' = [Checked(t) EXCEPT !.rewrite_statefile = TRUE, !.state[t] = "ok",
                                  !.faked = @ \cup {t}, !.did = @ \cup {t}]
    /\ disk' = Written(t)
    /\ whole' = IF t \in Exists THEN whole ELSE whole \cup {t}
    /\ vouched' = vouched \cup {t}
    /\ right' = right \ Above({t})
    /\ UNCHANGED <<user, rest>>

-----------------------------------------------------------------------------
(* Jobs.                                                                   *)

\* The recipe opens its file for writing.
JobWrites(t) ==
    /\ make.state[t] = "running"
    /\ make' = [make EXCEPT !.state[t] = "writing"]
    /\ disk' = Written(t)
    /\ whole' = whole \ {t}
    /\ right' = right \ Above({t})
    /\ vouched' = vouched \ {t}
    /\ UNCHANGED <<user, rest>>

JobSucceeds(t) ==
    /\ make.state[t] = "writing"
    /\ make' = [make EXCEPT !.state[t] = "done"]
    /\ disk' = Written(t)
    /\ whole' = whole \cup {t}
    /\ right' = IF \A d \in Deps[t] \cap Target : d \in right
                THEN right \cup {t} ELSE right
    /\ UNCHANGED <<user, vouched, rest>>

JobFails(t) ==
    /\ make.state[t] \in {"running", "writing"} /\ t \in MayFail
    /\ make' = [make EXCEPT !.state[t] = "error"]
    /\ UNCHANGED <<user, files, rest>>

\* Wrong: what a recipe reports is forgotten.
ReportedNot(t, m) == m

\* check_state(): the report is read, whether the recipe failed or not.
Reported(t, m) ==
    IF t \in Reporters
    THEN [m EXCEPT !.mem[t].autos = includes[t], !.command_changed = TRUE]
    ELSE m
\* Wrong: the command that failed is remembered.
FinishedSaved(t, m) ==
    IF make.state[t] = "done" THEN [Reported(t, m) EXCEPT !.state[t] = "ok"]
    ELSE [Reported(t, m) EXCEPT !.state[t] = "failed",
                                !.phase = IF m.keep_going THEN @ ELSE "fatal"]

\* finish_children(), or the rest of execute_serial() and run_command(): a
\* failed command is forgotten; without -k the failure is fatal, and in serial
\* mode cleanup_after_exit() finds current_line set.
Finished(t, m) ==
    LET told == Reported(t, m)
    IN IF make.state[t] = "done" THEN [told EXCEPT !.state[t] = "ok"]
       ELSE [told EXCEPT !.state[t] = "failed", !.mem[t].cmd = 0,
                         !.command_changed = @ \/ (m.jobs = 1 /\ ~m.keep_going),
                         !.phase = IF m.keep_going THEN @ ELSE "fatal"]
Finish(t) ==
    /\ make.phase /= "off" /\ make.state[t] \in {"done", "error"}
    /\ make' = Finished(t, make)
    /\ UNCHANGED <<user, files, rest>>

-----------------------------------------------------------------------------
(* make begins and ends.                                                   *)

\* .make.state is read.  Where no job runs, -j and -k make no difference.
Start(mode, jobs, k) ==
    /\ make.phase = "off" /\ runs < MaxRuns
    /\ mode = "run" \/ (jobs = 1 /\ ~k)
    /\ runs' = runs + 1
    /\ make' = Started(mode, jobs, k, saved)
    /\ foretold' = IF make.mode = "-n" THEN foretold ELSE NoPlan
    /\ UNCHANGED <<user, files, saved, idle>>

\* write_state_file()
StateWritten(m) ==
    IF m.rewrite_statefile /\ m.command_changed /\ m.mode /= "-n" THEN m.mem ELSE saved

Failed == \E t \in Target : make.state[t] = "failed"
End ==
    /\ Running = {}
    /\ \/ make.phase = "fatal"
       \/ make.phase = "on" /\ Wanted \subseteq Concluded
    /\ make' = Stopped(make.mode, make.did)
    /\ saved' = StateWritten(make)
    /\ idle' = (make.mode = "run" /\ ~Failed)
    /\ foretold' = IF make.mode = "-n" THEN make.did
                   ELSE IF Failed THEN NoPlan ELSE foretold
    /\ UNCHANGED <<user, files, runs>>

\* handle_interrupt() and cleanup_after_exit(): the jobs are killed; those that
\* were reaped are finished, and the others take their files with them.  In
\* serial mode the command of the current target is forgotten.
Interrupt(reaped) ==
    /\ Interrupts /\ make.phase /= "off" /\ edits < MaxEdits
    /\ edits' = edits + 1
    /\ reaped \subseteq {t \in Running : make.state[t] \in {"done", "error"}}
    /\ make.jobs = 1 => reaped = {}
    /\ LET killed == Running \ reaped
           removed == killed \ Precious
           zapped == IF make.jobs = 1 THEN killed ELSE {}
           exiting ==
               [make EXCEPT
                   !.command_changed =
                       @ \/ killed /= {} \/ \E t \in reaped : Finished(t, make).command_changed,
                   !.mem = [t \in Target |->
                               IF t \in zapped THEN [@[t] EXCEPT !.cmd = 0]
                               ELSE IF t \in reaped THEN Finished(t, make).mem[t]
                               ELSE @[t]]]
       IN /\ make' = Stopped(make.mode, make.did)
          /\ saved' = StateWritten(exiting)
          /\ disk' = Without(removed)
          /\ right' = right \ removed
    /\ idle' = FALSE /\ foretold' = NoPlan
    /\ UNCHANGED <<rule, includes, whole, vouched, runs>>

Next ==
    \/ \E s \in Source : EditSource(s) \/ RemoveHeader(s)
    \/ \E t \in Target : EditRule(t) \/ RemoveTarget(t)
    \/ \E how \in Invocations : Start(how.mode, how.jobs, how.keep)
    \/ \E t \in Target :
        \/ DependencyFailed(t) \/ UpToDate(t) \/ PutAside(t) \/ RunCommand(t)
        \/ PrintCommand(t) \/ TouchCommand(t)
        \/ JobWrites(t) \/ JobSucceeds(t) \/ JobFails(t) \/ Finish(t)
    \/ End
    \/ \E reaped \in SUBSET Running : Interrupt(reaped)

Spec == Init /\ [][Next]_vars

-----------------------------------------------------------------------------
(* Properties.                                                             *)

\* A build that succeeds leaves nothing wrong behind, whatever was edited,
\* interrupted, simulated or failed before it: the files it had to make are
\* what a build from nothing would make.  Only make -t may vouch for less
\* (run_command(), build_command_strings(), write_state_file()).
Settled == idle /\ vouched = {} => Wanted \subseteq right

\* After a build that succeeds, with nothing edited since, make runs no recipe
\* and touches nothing: what it wrote to .make.state is what it compares with
\* (write_state_file(), build_command_strings()).
NothingToDo == idle => (make.phase = "off" \/ make.did = {})

\* What make -n prints is what the next make does, if it succeeds; a make that
\* fails does a part of it (run_command(), update_target()).
DryRunForetells ==
    foretold /= NoPlan /\ make.mode = "run" =>
        /\ make.did \subseteq foretold
        /\ make.phase = "off" => make.did = foretold

\* A file that a failing or interrupted recipe left half-written is never
\* trusted: between two makes, the command in .make.state is not the one of
\* the rule, so that the next make runs the recipe ("Make sure a failing
\* command is not saved in .make.state", execute_serial()).
NoTrustedHalf ==
    make.phase = "off" =>
        \A t \in Target : t \in Exists \ (whole \cup vouched) =>
            saved[t].cmd /= rule[t] \/ Compared(Recipe[t][rule[t]]) = {}

-----------------------------------------------------------------------------
(* What BuildsProofs assumes of the makefile and its recipes; without it    *)
(* the properties do not hold.                                             *)

\* A recipe that fails reports what it read, and no half-written file is kept.
FailuresShow == Precious = {} /\ MayFail \subseteq Reporters
\* A target that is made alone has one rule, which does not fail.
AloneIsPlain == \A t \in Alone \cap Target : t \notin MayFail /\ Len(Recipe[t]) = 1
\* Every command has a line that is compared.
CommandsCount == \A t \in Target : \A i \in DOMAIN Recipe[t] : Compared(Recipe[t][i]) /= {}
\* Comparing commands line by line finds out when a recipe does something else.
CommandsShow ==
    \A t \in Target : \A i, j \in DOMAIN Recipe[t] :
        Effect(Recipe[t][i]) /= Effect(Recipe[t][j]) => Differ(Recipe[t][i], Recipe[t][j])
\* A recipe that reads headers reports them.
HeadersShow == \A t \in Target \ Reporters : Includes[t] = {}
=============================================================================
