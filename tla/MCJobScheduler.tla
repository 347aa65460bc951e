--------------------------- MODULE MCJobScheduler ---------------------------
(* Makefiles for TLC to build with JobScheduler. *)
EXTENDS JobScheduler, TLC

CONSTANTS a, b, c, d

NoReports == [t \in Target |-> {}]
NoGroup == [t \in Target |-> {}]

\* The list of dependencies with these names, read from a makefile, and one
\* read from .make.state.
Listing(names) == [j \in DOMAIN names |-> Depend(names[j], FALSE)]
Hidden(names) == [j \in DOMAIN names |-> Depend(names[j], TRUE)]

\* Any order of some of the names.
Chosen(S) == {Listing(q) : q \in UNION {Orders(names) : names \in SUBSET S}}

\* Every acyclic makefile of a, b, c and d in which a target depends on later
\* ones only, in any order; a may also wait after its first dependency.
AcyclicMakefiles ==
    {a :> x @@ b :> y @@ c :> z @@ d :> <<>> :
        x \in Chosen({b, c, d}) \cup {Listing(<<b, Wait, c, d>>)},
        y \in Chosen({c, d}), z \in Chosen({d})}

\* Makefiles that do not tell all, and an old .make.state: b and c may be
\* known to need d, which has no rule and may be gone.
ForgetfulMakefiles ==
    {a :> Listing(x) @@ b :> y @@ c :> z @@ d :> <<>> :
        x \in {<<b, c>>, <<c, b>>, <<b>>, <<c>>, <<b, Wait, c>>},
        y \in {<<>>, Listing(<<c>>), Hidden(<<d>>), Hidden(<<c>>), Hidden(<<d, c>>)},
        z \in {<<>>, Hidden(<<d>>)}}
\* What the recipes really use: only files that have a rule.
HiddenReports == a :> {b, c} @@ b :> {c} @@ c :> {} @@ d :> {}

\* One rule "b + c: ..." for two targets, and a line of their own for each.
GroupMakefiles ==
    {a :> x @@ b :> y @@ c :> z @@ d :> <<>> :
        x \in Chosen({b, c, d}) \cup {Listing(<<b, Wait, c>>)},
        y \in Chosen({d}), z \in Chosen({d})}
GroupBC == b :> {b, c} @@ c :> {b, c} @@ a :> {} @@ d :> {}

\* a and b depend on each other, b also on c which takes its time.
CyclicMakefiles == {a :> Listing(<<b>>) @@ b :> Listing(<<a, c>>)
                    @@ c :> <<>> @@ d :> <<>>}

\* All makefiles of a, b and c without a target twice in a list; d has c.
AnyMakefiles ==
    {a :> x @@ b :> y @@ c :> z @@ d :> Listing(<<c>>) :
        x \in Chosen({b, c, d}), y \in Chosen({a, c}), z \in Chosen({a})}

AnyGroupMakefiles == GroupMakefiles \cup AnyMakefiles

NoFiles == {[t \in Target |-> 0]}
SourceFiles == {[t \in Target |-> IF t \in S THEN 1 ELSE 0] :
                   S \in {{}, {d}, {b, d}, {a, b, c}, {a, c, d}}}
SomeFiles == [Target -> {0, 1}]
GoalA == <<a>>
GoalsAC == <<a, Wait, c>>
=============================================================================
