------------------------------- MODULE Macros -------------------------------
(***************************************************************************)
(* Macros: who may set them while make starts (the default rules, the      *)
(* environment, MAKEFLAGS, the command line, the makefile), and the        *)
(* conditional values "target := M = v" that are activated while a target  *)
(* and what it depends on is being built, in serial and in parallel mode.  *)
(*                                                                         *)
(* A value is the list of its words.  Values without "$" only: those are   *)
(* put into the environment when they are set.                             *)
(***************************************************************************)
EXTENDS Integers, Sequences, FiniteSets, SequencesExt

CONSTANTS
    Macro, Target,
    Deps,           \* [Target -> Seq(Target)], acyclic
    Goals,          \* Seq(Target)
    Defaults,       \* make.rules: Seq(statements)
    Makefile,       \* Seq(statements): macros and conditionals
    Environments,   \* what the environment may be: partial functions on Macro
    Flags,          \* the macros in MAKEFLAGS
    CommandLines,   \* the macros among the arguments
    Posix,          \* is MAKEFLAGS to hold macros? (posix or gnu mode)
    EnvWins,        \* make -e
    Jobs,           \* values of -j; 1 is serial mode
    Alone,          \* targets parallel_ok() refuses
    Reporters       \* recipes that report a new hidden dependency

Statement == [kind : {"macro", "conditional", "pattern"}, targets : SUBSET Target,
              name : Macro, value : Seq(STRING), append : BOOLEAN]

Assignment == [name : Macro, value : Seq(STRING), append : BOOLEAN]
NoTarget == "-"

ASSUME StatementAssumption ==
    /\ Makefile \in Seq(Statement) /\ Defaults \in Seq(Statement)
    /\ \A args \in Flags \cup CommandLines : args \in Seq(Assignment)
    /\ \A e \in Environments :
         DOMAIN e \subseteq Macro /\ \A n \in DOMAIN e : e[n] \in Seq(STRING)
    /\ EnvWins \subseteq BOOLEAN
    /\ Deps \in [Target -> Seq(Target)] /\ NoTarget \notin Target

\* An assignment, and the statements of a makefile.
Assign(name, value, append) == [name |-> name, value |-> value, append |-> append]
Always(name, value, append) ==
    [kind |-> "macro", targets |-> {}] @@ Assign(name, value, append)
Conditional(t, name, value, append) ==
    [kind |-> "conditional", targets |-> {t}] @@ Assign(name, value, append)
Pattern(targets, name, value, append) ==
    [kind |-> "pattern", targets |-> targets] @@ Assign(name, value, append)

VARIABLES
    phase,      \* how far main() is
    given,      \* what make was started with
    m,          \* the macros: body, appendix, env, conditional_targets, held
    makeflags,  \* makeflags_and_macro, then the macros in MAKEFLAGS
    state,      \* [Target -> state of the build]
    goal,       \* the index of the next goal
    stack,      \* the calls of doname() that are active
    queue,      \* the running list
    redone,     \* targets that were built a second time
    seen,       \* [Target -> what its recipe saw last, and what it should]
    base        \* the macros when the build began

vars == <<phase, given, m, makeflags, state, goal, stack, queue, redone, seen, base>>
build == <<state, goal, stack, queue, redone, seen, base>>

NoBody == [value |-> <<>>, read_only |-> FALSE, exported |-> FALSE]
NoAppendix == [on |-> FALSE, value |-> <<>>, to_append |-> <<>>]
NoValues == [name \in {} |-> <<>>]
NoMacros(environment) ==
    [body |-> [name \in Macro |-> NoBody],
     appendix |-> [name \in Macro |-> NoAppendix],
     env |-> environment,
     conditional_targets |-> <<>>,
     held |-> NoTarget]      \* the target with dont_activate_cond_values
Busy == {"pending", "serial", "running"}

-----------------------------------------------------------------------------
(* Setting a macro.                                                        *)

\* setvar_daemon(): a macro that is read-only keeps its value while a
\* makefile is read.  What "M += v" on the command line gave follows every
\* value.
setvar_daemon(mm, a, reading) ==
    LET n == a.name
        x == mm.appendix[n]
        old == IF x.on THEN x.value ELSE mm.body[n].value
        new == IF a.append THEN old \o a.value ELSE a.value
        value == IF x.on THEN new \o x.to_append ELSE new
    IN  IF reading /\ mm.body[n].read_only THEN mm
        ELSE [mm EXCEPT !.body[n].value = value,
                        !.appendix[n].value = IF x.on THEN new ELSE @,
                        !.env = IF mm.body[n].exported
                                THEN [k \in DOMAIN @ \cup {n} |-> IF k = n THEN value ELSE @[k]]
                                ELSE @]

\* Wrong: what was appended before is forgotten.
setvar_appendLast(mm, a) ==
    LET x == mm.appendix[a.name] IN
    setvar_daemon(
        [mm EXCEPT !.appendix[a.name] =
            [on |-> TRUE, to_append |-> a.value,
             value |-> IF x.on THEN x.value ELSE mm.body[a.name].value]],
        Assign(a.name, <<>>, TRUE), FALSE)

setvar_append(mm, a) ==
    LET x == mm.appendix[a.name] IN
    setvar_daemon(
        [mm EXCEPT !.appendix[a.name] =
            [on |-> TRUE, to_append |-> x.to_append \o a.value,
             value |-> IF x.on THEN x.value ELSE mm.body[a.name].value]],
        Assign(a.name, <<>>, TRUE), FALSE)

\* The macros after each of the assignments in list.
AfterEach(mm, list, reading) ==
    LET after[i \in 0 .. Len(list)] ==
            IF i = 0 THEN mm ELSE setvar_daemon(after[i - 1], list[i], reading)
    IN  after

\* The elements of list at the places in S, in order.
Chosen(list, S) ==
    LET upTo[i \in 0 .. Len(list)] ==
            IF i = 0 THEN <<>>
            ELSE IF i \in S THEN Append(upTo[i - 1], list[i]) ELSE upTo[i - 1]
    IN  upTo[Len(list)]

-----------------------------------------------------------------------------
(* Start.                                                                  *)

\* read_environment(): whatever the default rules gave is replaced.
read_environment(mm, environment, read_only) ==
    [mm EXCEPT !.body = [n \in Macro |->
        IF n \in DOMAIN environment
        THEN [value |-> environment[n], read_only |-> read_only, exported |-> TRUE]
        ELSE @[n]]]

\* One argument of enter_argv_values(): makefile_type is reading_nothing.
enter_argv_value(mm, a) ==
    IF a.append THEN setvar_append(mm, a)
    ELSE LET set == setvar_daemon([mm EXCEPT !.body[a.name].exported = TRUE], a, FALSE)
         IN  [set EXCEPT !.body[a.name].read_only = TRUE]
enter_argv_values(mm, args) ==
    LET entered[i \in 0 .. Len(args)] ==
            IF i = 0 THEN mm ELSE enter_argv_value(entered[i - 1], args[i])
    IN  entered[Len(args)]

\* Wrong: a macro of the command line is not passed on.
append_or_replace_macroNot(array, a) == array

\* append_or_replace_macro_in_dyn_array(): it looks for the value of a macro
\* it has in quotes that are never there, and gives up.
append_or_replace_macro(array, a) ==
    IF a.append \/ \E i \in DOMAIN array : array[i].name = a.name THEN array
    ELSE Append(array, a)
makeflags_and_macro(args) ==
    LET array[i \in 0 .. Len(args)] ==
            IF i = 0 THEN <<>> ELSE append_or_replace_macro(array[i - 1], args[i])
    IN  array[Len(args)]

\* The statements of a makefile that set macros at once.
AtOnce(statements) ==
    Chosen(statements, {i \in DOMAIN statements : statements[i].kind = "macro"})
ReadFile(mm, statements) ==
    AfterEach(mm, AtOnce(statements), TRUE)[Len(AtOnce(statements))]

\* Everything up to the makefile, in a make that finds this environment.
Startup(mm, environment, flags, args, env_wins) ==
    enter_argv_values(enter_argv_values(
        read_environment(mm, environment, env_wins), flags), args)

Init ==
    /\ phase = "defaults"
    /\ given \in [environment : Environments, flags : Flags, args : CommandLines,
                  env_wins : EnvWins, posix : Posix, jobs : Jobs]
    /\ m = NoMacros(given.environment)
    /\ makeflags = <<>>
    /\ state = [t \in Target |-> "none"] /\ goal = 1 /\ stack = <<>> /\ queue = <<>>
    /\ redone = {} /\ seen = [t \in Target |-> <<>>]
    /\ base = NoMacros(given.environment)

ReadDefaults ==
    /\ phase = "defaults"
    /\ phase' = "environment"
    /\ m' = ReadFile(m, Defaults)
    /\ UNCHANGED <<given, makeflags, build>>

ReadArguments ==
    /\ phase = "environment"
    /\ phase' = "makefile"
    /\ m' = Startup(m, given.environment, given.flags, given.args, given.env_wins)
    /\ makeflags' = IF given.posix THEN makeflags_and_macro(given.flags \o given.args)
                    ELSE <<>>
    /\ UNCHANGED <<given, build>>

ReadMakefile ==
    /\ phase = "makefile"
    /\ phase' = "build"
    /\ m' = ReadFile(m, Makefile)
    /\ base' = m'
    /\ UNCHANGED <<given, makeflags, state, goal, stack, queue, redone, seen>>

-----------------------------------------------------------------------------
(* Conditional values.                                                     *)

\* The sequence numbers of the properties enter_conditional() gave to t; a
\* pattern has its own.
Entered(t, kind) ==
    Chosen([i \in DOMAIN Makefile |-> i],
           {i \in DOMAIN Makefile : Makefile[i].kind = kind /\ t \in Makefile[i].targets})
InSequence(list, sequence) ==
    LET later == {i \in DOMAIN list : list[i] > sequence}
    IN  IF later = {} THEN Append(list, sequence) ELSE InsertAt(list, Min(later), sequence)

add_pattern_conditionals(t) ==
    LET patterns == Entered(t, "pattern")
        merged[i \in 0 .. Len(patterns)] ==
            IF i = 0 THEN Entered(t, "conditional")
            ELSE InSequence(merged[i - 1], patterns[i])
    IN  [k \in DOMAIN merged[Len(patterns)] |-> Makefile[merged[Len(patterns)][k]]]

\* set_locals(): the macros with the values for t, and the values to restore.
set_locals(mm, t) ==
    LET c == add_pattern_conditionals(t)
        after == AfterEach(mm, c, FALSE)
    IN  IF c = <<>> \/ mm.held = t THEN [m |-> mm, old |-> <<>>]
        ELSE [m |-> [after[Len(c)] EXCEPT !.conditional_targets = Append(@, t)],
              old |-> [i \in DOMAIN c |-> after[i - 1].body[c[i].name]]]

\* Wrong: the values are restored in the order in which they were set.
reset_localsForward(mm, t, old) ==
    LET c == add_pattern_conditionals(t)
        after[i \in 0 .. Len(c)] ==
            IF i = 0 THEN mm ELSE [after[i - 1] EXCEPT !.body[c[i].name] = old[i]]
    IN  IF c = <<>> \/ mm.held = t THEN mm
        ELSE [after[Len(c)] EXCEPT !.conditional_targets = Front(@)]

\* The macros when the values of list are restored, the last one first.  Only
\* the body is.
Backwards(mm, list, old) ==
    LET back[i \in 0 .. Len(list)] ==
            IF i = 0 THEN mm
            ELSE LET j == Len(list) + 1 - i
                 IN  [back[i - 1] EXCEPT !.body[list[j].name] = old[j]]
    IN  back[Len(list)]

reset_locals(mm, t, old) ==
    LET c == add_pattern_conditionals(t)
    IN  IF c = <<>> \/ mm.held = t THEN mm
        ELSE [Backwards(mm, c, old) EXCEPT !.conditional_targets = Front(@)]

\* Wrong: the conditionals of the targets above are not activated again.
set_conditionalsNot(mm, targets) ==
    [m |-> mm, old |-> [i \in DOMAIN targets |->
                            [j \in DOMAIN add_pattern_conditionals(targets[i]) |->
                                mm.body[add_pattern_conditionals(targets[i])[j].name]]]]

\* The macros after set_locals() of each of the targets.
Activated(mm, targets) ==
    LET after[i \in 0 .. Len(targets)] ==
            IF i = 0 THEN mm ELSE set_locals(after[i - 1], targets[i]).m
    IN  after

set_conditionals(mm, targets) ==
    LET after == Activated(mm, targets)
    IN  [m |-> after[Len(targets)],
         old |-> [i \in DOMAIN targets |-> set_locals(after[i - 1], targets[i]).old]]

reset_conditionals(mm, targets, old) ==
    LET back[i \in 0 .. Len(targets)] ==
            IF i = 0 THEN mm
            ELSE LET j == Len(targets) + 1 - i
                 IN  reset_locals(back[i - 1], targets[j], old[j])
    IN  back[Len(targets)]

-----------------------------------------------------------------------------
(* The build: doname() and the running list.                               *)

Top == Last(stack)
Running == {i \in DOMAIN queue : queue[i].kind = "running"}

\* A call of doname(t).  "again" are the conditional targets a target that
\* waited is resumed with, "held" that its own values are among them.
Call(t, path, again, held) ==
    /\ \E context \in {set_conditionals(m, again)} :
       \E own \in {set_locals([context.m EXCEPT !.held = IF held THEN t ELSE @], t)} :
        /\ m' = own.m
        /\ stack' = Append(stack,
                [target |-> t, path |-> path, next |-> 1, waits |-> FALSE, old |-> own.old,
                 again |-> again, old_again |-> context.old])
    /\ state' = [state EXCEPT ![t] = "in_progress"]

\* doname() returns: its values go, and those it was resumed with.
Return(s) ==
    LET own == reset_locals(m, Top.target, Top.old)
        free == [own EXCEPT !.held = IF Len(stack) = 1 THEN NoTarget ELSE @]
    IN  /\ m' = reset_conditionals(free, Top.again, Top.old_again)
        /\ stack' = Front(stack)
        /\ state' = [state EXCEPT ![Top.target] = s]

\* store_conditionals(): the whole chain that is active.
Entry(kind, targets) ==
    [kind |-> kind, target |-> Top.target, path |-> Top.path, conditional_targets |-> targets]

Consider(t) ==
    /\ phase = "build" /\ state[t] = "none"
    /\ IF stack = <<>> THEN goal \in DOMAIN Goals /\ Goals[goal] = t
       ELSE Top.next \in DOMAIN Deps[Top.target] /\ Deps[Top.target][Top.next] = t
    /\ Call(t, (IF stack = <<>> THEN <<>> ELSE Top.path) \o <<t>>, <<>>, FALSE)
    /\ UNCHANGED <<phase, given, makeflags, goal, queue, redone, seen, base>>

\* A dependency that was considered before; the target waits for it if it
\* is not done.
Considered ==
    /\ stack /= <<>> /\ Top.next \in DOMAIN Deps[Top.target]
    /\ LET s == state[Deps[Top.target][Top.next]] IN
        /\ s /= "none"
        /\ stack' = [stack EXCEPT ![Len(stack)].next = @ + 1,
                                  ![Len(stack)].waits = @ \/ s \in Busy]
    /\ UNCHANGED <<phase, given, m, makeflags, state, goal, queue, redone, seen, base>>

NextGoal ==
    /\ phase = "build" /\ stack = <<>> /\ goal \in DOMAIN Goals
    /\ state[Goals[goal]] /= "none"
    /\ goal' = goal + 1
    /\ UNCHANGED <<phase, given, m, makeflags, state, stack, queue, redone, seen, base>>

DepsDone == stack /= <<>> /\ Top.next > Len(Deps[Top.target])
InParallel == given.jobs > 1 /\ Top.target \notin Alone
SlotsFull == Cardinality(Running) >= given.jobs

AddPending ==
    /\ DepsDone /\ Top.waits
    /\ queue' = Append(queue, Entry("pending", m.conditional_targets))
    /\ Return("pending")
    /\ UNCHANGED <<phase, given, makeflags, goal, redone, seen, base>>

\* A target that must be alone, while others run.
AddSerial ==
    /\ DepsDone /\ ~Top.waits /\ ~InParallel /\ Running /= {}
    /\ queue' = Append(queue, Entry("serial", m.conditional_targets))
    /\ Return("serial")
    /\ UNCHANGED <<phase, given, makeflags, goal, redone, seen, base>>

\* The recipe is started with the macros and the environment of this moment.
RunCommand ==
    /\ DepsDone /\ ~Top.waits
    /\ seen' = [seen EXCEPT ![Top.target] =
            [path |-> Top.path, env |-> m.env,
             value |-> [n \in Macro |-> m.body[n].value]]]
    /\ IF InParallel
       THEN /\ ~SlotsFull
            /\ queue' = Append(queue, Entry("running", m.conditional_targets))
            /\ Return("running")
       ELSE /\ Running = {}
            /\ UNCHANGED queue
            /\ Return("ok")
    /\ UNCHANGED <<phase, given, makeflags, goal, redone, base>>

\* finish_children(), finish_doname(): a recipe ends, between two targets or
\* while one waits for a slot.  If it reported a new dependency, the target
\* goes to the running list again.
Finish(i) ==
    /\ i \in Running
    /\ stack = <<>> \/ (DepsDone /\ ~Top.waits /\ InParallel /\ SlotsFull)
    /\ LET e == queue[i] IN
       \/ /\ state' = [state EXCEPT ![e.target] = "ok"]
          /\ queue' = RemoveAt(queue, i)
          /\ UNCHANGED <<m, redone>>
       \/ /\ e.target \in Reporters \ redone
          /\ redone' = redone \cup {e.target}
          /\ state' = [state EXCEPT ![e.target] = "pending"]
          /\ \E context \in {set_conditionals(m, e.conditional_targets)} :
               /\ queue' = Append(RemoveAt(queue, i),
                            [e EXCEPT !.kind = "pending",
                                      !.conditional_targets = context.m.conditional_targets])
               /\ m' = reset_conditionals(context.m, e.conditional_targets, context.old)
    /\ UNCHANGED <<phase, given, makeflags, goal, stack, seen, base>>

\* process_next(): a pending target is resumed with the values that were
\* active when it was put aside, a serial one without.
Resume(i) ==
    /\ stack = <<>> /\ goal \notin DOMAIN Goals
    /\ LET e == queue[i] IN
        /\ \/ /\ e.kind = "pending"
              /\ \A t \in ToSet(Deps[e.target]) : state[t] \notin Busy
              /\ Call(e.target, e.path, e.conditional_targets, TRUE)
           \/ /\ e.kind = "serial" /\ Running = {}
              /\ Call(e.target, e.path, <<>>, FALSE)
        /\ queue' = RemoveAt(queue, i)
    /\ UNCHANGED <<phase, given, makeflags, goal, redone, seen, base>>

Done ==
    /\ phase = "build" /\ stack = <<>> /\ goal \notin DOMAIN Goals /\ queue = <<>>
    /\ UNCHANGED vars

Next ==
    \/ ReadDefaults \/ ReadArguments \/ ReadMakefile
    \/ \E t \in Target : Consider(t)
    \/ Considered \/ NextGoal \/ AddPending \/ AddSerial \/ RunCommand
    \/ \E i \in DOMAIN queue : Finish(i) \/ Resume(i)
    \/ Done

Spec == Init /\ [][Next]_vars

-----------------------------------------------------------------------------
(* Properties.                                                             *)

\* What the assignments in list make of the value of n.
Assigned(value, n, list) ==
    LET after[i \in 0 .. Len(list)] ==
            IF i = 0 THEN value
            ELSE IF list[i].name /= n THEN after[i - 1]
            ELSE IF list[i].append THEN after[i - 1] \o list[i].value
            ELSE list[i].value
    IN  after[Len(list)]

\* Where args sets n, and what they append to it.
Plain(args, n) == {i \in DOMAIN args : args[i].name = n /\ ~args[i].append}
Appended(value, n, args) ==
    LET after[i \in 0 .. Len(args)] ==
            IF i = 0 THEN value
            ELSE IF args[i].name = n /\ args[i].append THEN after[i - 1] \o args[i].value
            ELSE after[i - 1]
    IN  after[Len(args)]

\* The rule of precedence: the command line, MAKEFLAGS, the environment
\* under -e, the makefile, the environment, the default rules.
Wanted(n) ==
    LET default == Assigned(<<>>, n, AtOnce(Defaults))
        outside == IF n \in DOMAIN given.environment THEN given.environment[n] ELSE default
    IN  IF Plain(given.args, n) /= {} THEN given.args[Max(Plain(given.args, n))].value
        ELSE IF Plain(given.flags, n) /= {} THEN given.flags[Max(Plain(given.flags, n))].value
        ELSE IF given.env_wins /\ n \in DOMAIN given.environment THEN outside
        ELSE Assigned(outside, n, AtOnce(Makefile))

\* The build begins with the values the rule of precedence gives, each
\* followed by what MAKEFLAGS and the command line append to it (setvar_daemon,
\* setvar_append, enter_argv_values, read_environment).
Precedence ==
    phase = "build" => \A n \in Macro :
        base.body[n].value =
            Wanted(n) \o Appended(Appended(<<>>, n, given.flags), n, given.args)

\* A make that a recipe starts, in posix or gnu mode, gives the macros its
\* makefile may not change the same values, and does not let its own makefile
\* change them either (append_or_replace_macro_in_dyn_array).  What is
\* appended on the command line is for the first make only, and of a macro
\* that is set twice the first value is passed on.
SubMakeSees ==
    phase = "build" /\ given.posix =>
        LET sub == Startup(NoMacros(base.env), base.env, makeflags, <<>>, given.env_wins)
            twice(n) == \E i, j \in Plain(given.flags \o given.args, n) : i /= j
        IN  \A n \in Macro : base.body[n].read_only /\ ~base.appendix[n].on /\ ~twice(n) =>
                sub.body[n].value = base.body[n].value /\ sub.body[n].read_only

\* What the recipe of the last target of path is to see: the values mm began
\* with, changed by the conditionals of each target of path in turn, in the
\* order of the makefile.
Expected(mm, path, n) ==
    LET of(t) == Chosen(Makefile, {i \in DOMAIN Makefile :
                                     Makefile[i].kind /= "macro" /\ t \in Makefile[i].targets})
        after[i \in 0 .. Len(path)] ==
            IF i = 0 THEN mm.body[n].value
            ELSE Assigned(after[i - 1], n, of(path[i]))
    IN  after[Len(path)]

\* A recipe sees the conditional values of its target and of the targets it
\* is built for, those and no others, in parallel mode as in serial mode
\* (set_locals, reset_locals, store_conditionals, process_next).  Not a target
\* that is built again or is put aside to be built alone, and not of macros to
\* which the command line appends.
RecipeSees ==
    \A t \in Target \ redone : seen[t] /= <<>> /\ (t \in Alone => given.jobs = 1) =>
        \A n \in Macro : ~base.appendix[n].on =>
            seen[t].value[n] = Expected(base, seen[t].path, n)

\* When no target is being considered the macros have the values they had
\* before the build, whatever was put aside and resumed (reset_locals).
Restored == phase = "build" /\ stack = <<>> => m.body = base.body /\ m.conditional_targets = <<>>
=============================================================================
