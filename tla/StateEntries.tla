---------------------------- MODULE StateEntries ----------------------------
(***************************************************************************)
(* What makes that call each other learn from .make.state.  A make reads   *)
(* the file when it starts; a recipe that calls another make in the same   *)
(* directory changes the file under its feet.  dosys() writes the file     *)
(* before and reads all of it after a command with $(MAKE); check_state()  *)
(* reads the dependency report of every command, and the entries of        *)
(* .make.state that are marked .BUILT_LAST_MAKE_RUN when the file has      *)
(* changed.  Locking and replacing the file is in StateFile, the decision  *)
(* what to build in Builds.                                                *)
(***************************************************************************)
EXTENDS Integers, SequencesExt

CONSTANTS
    HashOrder,      \* Seq: the targets in the order of the name table
    Header,         \* what a recipe may find out to need
    Listed,         \* [target -> SUBSET Header]: written in the makefile
    Make, Root,     \* the makes, the first of them
    Off,            \* not a make: none runs
    Calls,          \* [target -> what a make in its recipe builds, {} for none]
    Mentioned,      \* the targets whose recipe calls it with $(MAKE)
    Goals,          \* what the root makes
    Parallel,       \* does a make run several recipes at once?
    LineLength,     \* names on a line of .make.state
    MaxEdits, MaxRuns

Target == Range(HashOrder)

VARIABLES
    file,       \* .make.state, a sequence of lines
    version,    \* its modification time
    make,       \* [Make -> what a make that runs knows, Off if none does]
    recipe,     \* [Target -> its commands in the makefile]
    uses,       \* [Target -> SUBSET Header: what its source includes]
    truth,      \* [Target -> the commands that ran last, and what they reported]
    dirty,      \* targets older than what they are made from
    edits, runs

vars == <<file, version, make, recipe, uses, truth, dirty, edits, runs>>

None == 0                   \* no commands
Running == {p \in Make : make[p] # Off}

\* A line of the file: "target: dependencies", the commands after the last
\* line of a target, and the mark .BUILT_LAST_MAKE_RUN before it.
Line(t, mark, names, command) ==
    [target |-> t, mark |-> mark, names |-> names, command |-> command]

\* A target in memory: an automatic dependency may be stale.
Unread(t) ==
    [command_used |-> None, explicit |-> Listed[t], auto |-> {}, stale |-> {}]
AtStart ==
    [entry |-> [t \in Target |-> Unread(t)], built_last_make_run_seen |-> FALSE,
     time |-> 0, before |-> 0, command_changed |-> FALSE, rewrite |-> FALSE,
     has_built |-> {}, jobs |-> {}]

-----------------------------------------------------------------------------
(* Reading.                                                                *)

\* enter_dependency(): no duplicates, and explicit ones stay explicit.
Enter(e, names) ==
    [e EXCEPT !.auto = @ \union (names \ e.explicit), !.stale = @ \ names]

\* Wrong: every line of a target makes its dependencies stale.
FreshEach(r, t) == r.again

\* Is it the first line of t in a file that is not the first one?
Fresh(r, t) == r.again /\ t \notin r.met

\* Old automatic dependencies become stale; the new ones are not.
NewList(r, t) ==
    [r EXCEPT !.met = @ \union {t},
              !.m.command_changed = @ \/ Fresh(r, t),
              !.m.entry[t] = IF Fresh(r, t)
                             THEN [@ EXCEPT !.stale = @ \union r.m.entry[t].auto,
                                            !.auto = {}]
                             ELSE @]

\* enter_dependencies() for a line that counts.
EnterLine(r, line) ==
    LET command == [r EXCEPT !.m.entry[line.target].command_used =
                        IF line.command = None THEN @ ELSE line.command]
    IN  [NewList(command, line.target) EXCEPT
            !.m.entry[line.target] = Enter(@, line.names)]

\* reading_statefile: everything; special_reader() notes the mark, and
\* nothing takes the note away.
reading_statefile(m, lines, again) ==
    FoldLeft(LAMBDA r, line :
                [EnterLine(r, line) EXCEPT !.m.built_last_make_run_seen = @ \/ line.mark],
             [m |-> m, met |-> {}, again |-> again], lines).m

\* rereading_statefile: the lines after a mark.
rereading_statefile(m, lines) ==
    FoldLeft(LAMBDA r, line :
                IF line.mark \/ r.m.built_last_make_run_seen
                THEN [EnterLine(r, line) EXCEPT !.m.built_last_make_run_seen = FALSE,
                                                !.m.command_changed = TRUE]
                ELSE r,
             [m |-> m, met |-> {}, again |-> TRUE], lines).m

\* reading_cpp_file: the report of a recipe.
read_dependency_file(m, t, names) ==
    EnterLine([m |-> m, met |-> {}, again |-> TRUE], Line(t, FALSE, names, None)).m

\* check_read_state_file(), when the time of the file is known.
check_read_state_file(m) ==
    IF version = m.time THEN m
    ELSE [rereading_statefile(m, file) EXCEPT !.time = version]

-----------------------------------------------------------------------------
(* Writing.                                                                *)

\* print_auto_depes() begins another line when one is full, also after the
\* last name.
Chunks(q) ==
    [i \in 1..(Len(q) \div LineLength + 1) |->
        {q[k] : k \in {k \in DOMAIN q : (k - 1) \div LineLength = i - 1}}]

\* The lines for t: what is automatic and not stale, and the commands.
LinesOf(m, t) ==
    LET e == m.entry[t]
        parts == Chunks(SetToSeq(e.auto))
    IN  IF e.auto = {} /\ e.command_used = None THEN <<>>
        ELSE [i \in DOMAIN parts |->
                Line(t, t \in m.has_built, parts[i],
                     IF i = Len(parts) THEN e.command_used ELSE None)]

write_state_file(m) ==
    IF m.rewrite /\ m.command_changed
    THEN /\ file' = FlattenSeq([i \in DOMAIN HashOrder |-> LinesOf(m, HashOrder[i])])
         /\ version' = version + 1
    ELSE UNCHANGED <<file, version>>

-----------------------------------------------------------------------------
(* Makes.                                                                  *)

Init ==
    /\ file = <<>> /\ version = 0
    /\ make = [p \in Make |-> Off]
    /\ recipe = [t \in Target |-> 1]
    /\ uses \in {u \in [Target -> SUBSET Header] : \A t \in Target : Calls[t] # {} => u[t] = {}}
    /\ truth = [t \in Target |-> [command |-> None, reported |-> {}]]
    /\ dirty = Target
    /\ edits = 0 /\ runs = 0

\* Somebody edits a recipe, or a source and what it includes.
Edit ==
    /\ Running = {} /\ edits < MaxEdits
    /\ edits' = edits + 1
    /\ \E t \in Target :
        \/ /\ recipe' = [recipe EXCEPT ![t] = @ + 1]
           /\ UNCHANGED <<uses, dirty>>
        \/ /\ Calls[t] = {}
           /\ \E headers \in SUBSET Header \ {uses[t]} :
                uses' = [uses EXCEPT ![t] = headers]
           /\ dirty' = dirty \union {t}
           /\ UNCHANGED recipe
    /\ UNCHANGED <<file, version, make, truth, runs>>

\* main() of a make reads the file.
Started == [reading_statefile(AtStart, file, FALSE) EXCEPT !.time = version]
Start ==
    /\ Running = {} /\ runs < MaxRuns
    /\ runs' = runs + 1
    /\ make' = [make EXCEPT ![Root] = Started @@ [goals |-> Goals]]
    /\ UNCHANGED <<file, version, recipe, uses, truth, dirty, edits>>

\* What p still has to look at: build_command_strings() compares commands.
Outdated(p) ==
    {t \in make[p].goals :
        \/ t \in dirty
        \/ make[p].entry[t].command_used # recipe[t]
        \/ Calls[t] # {} /\ t \notin make[p].has_built}
\* The jobs of all makes, and what the makes they call have to do.
Job(p, t) == [target |-> t, called |-> p]
Busy(t) == \E p \in Running : \E j \in make[p].jobs : j.target = t

\* dosys() writes the file and looks at its time; with jobs this is done in
\* the process of the job, of which the make learns nothing.
StateBefore(p, t, m) ==
    /\ IF t \in Mentioned THEN write_state_file(m) ELSE UNCHANGED <<file, version>>
    /\ make' = [make EXCEPT ![p] =
            IF Parallel THEN m ELSE [m EXCEPT !.time = version', !.before = version']]

\* run_command() begins with the recipe of t.
Run(p, t) ==
    /\ make[p] # Off /\ t \in Outdated(p) \ {j.target : j \in make[p].jobs}
    /\ ~Busy(t)
    /\ Parallel \/ make[p].jobs = {}
    /\ StateBefore(p, t,
        [make[p] EXCEPT !.jobs = @ \union {Job(p, t)},
                        !.rewrite = TRUE,
                        !.command_changed = @ \/ make[p].entry[t].command_used # recipe[t],
                        !.entry[t].command_used = recipe[t]])
    /\ UNCHANGED <<recipe, uses, truth, dirty, edits, runs>>

\* The recipe of a job of p starts another make.
Call(p, q) ==
    /\ make[p] # Off /\ make[q] = Off /\ q # Root
    /\ \A o \in Running : \A j \in make[o].jobs : j.called # q
    /\ \E j \in make[p].jobs :
        /\ Calls[j.target] # {} /\ j.called = p
        /\ make' = [make EXCEPT ![p].jobs = (@ \ {j}) \union {Job(q, j.target)},
                                ![q] = Started @@ [goals |-> Calls[j.target]]]
    /\ UNCHANGED <<file, version, recipe, uses, truth, dirty, edits, runs>>

\* make ends, and write_state_file() is called by the exit handler.
Finish(p) ==
    /\ make[p] # Off /\ make[p].jobs = {} /\ Outdated(p) = {}
    /\ write_state_file(make[p])
    /\ make' = [make EXCEPT ![p] = Off]
    /\ UNCHANGED <<recipe, uses, truth, dirty, edits, runs>>

\* dosys(): all of the file, when it has changed since the command began.
StateAfter(m, t) ==
    IF t \in Mentioned /\ ~Parallel /\ version # m.before
    THEN [reading_statefile(m, file, TRUE) EXCEPT !.time = version]
    ELSE m

\* The recipe has ended, the make it called, too: check_state().
End(p, t) ==
    /\ make[p] # Off
    /\ \E j \in make[p].jobs :
        /\ j.target = t /\ (IF Calls[t] = {} THEN j.called = p
                            ELSE j.called # p /\ make[j.called] = Off)
        /\ LET m == [StateAfter(make[p], t) EXCEPT !.jobs = @ \ {j}]
               reported == IF Calls[t] = {} THEN read_dependency_file(m, t, uses[t]) ELSE m
           IN  make' = [make EXCEPT ![p] =
                    [check_read_state_file(reported) EXCEPT !.has_built = @ \union {t}]]
    /\ truth' = [truth EXCEPT ![t] =
            [command |-> recipe[t], reported |-> IF Calls[t] = {} THEN uses[t] ELSE {}]]
    /\ dirty' = dirty \ {t}
    /\ UNCHANGED <<file, version, recipe, uses, edits, runs>>

Next ==
    \/ Edit \/ Start
    \/ \E p \in Make : Finish(p)
    \/ \E p \in Make, t \in Target : Run(p, t) \/ End(p, t)
    \/ \E p, q \in Make : Call(p, q)

-----------------------------------------------------------------------------
\* What a make that starts now would know of t.
OnFile(t) == Started.entry[t]
Known(e, t) ==
    /\ e.command_used = truth[t].command
    /\ e.auto = truth[t].reported \ Listed[t]

\* When nothing runs and everything is made, the file has the commands and
\* the hidden dependencies of each target as its recipe used and reported
\* them last, whichever make ran it.
Recorded == Running = {} => \A t \in Target \ dirty : Known(OnFile(t), t)

\* A make remembers what the recipes it ran itself used and reported
\* (enter_dependencies: "We only enter thing that changed since the previous
\* time we read it").
Remembered == \A p \in Running : \A t \in make[p].has_built \ dirty :
    ~Busy(t) => Known(make[p].entry[t], t)

Spec == Init /\ [][Next]_vars
=============================================================================
