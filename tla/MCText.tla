------------------------------- MODULE MCText -------------------------------
(* Texts that make takes apart, for TLC: options, a string with macro      *)
(* references, a makefile of two statements in three layouts, or the lines *)
(* of .make.state while a make runs in a make.                             *)
EXTENDS Options, TLC

CONSTANTS Characters, MaxString, MacroValue,
          Layouts, Targets, Depes, Recipes, Values, MaxStatements, LineLength,
          HashOrder, Header, Listed, Make, Root, Off, Calls, Mentioned, Goals, Parallel,
          MaxEdits, MaxRuns
VARIABLES string, cmd, text, meant,
          file, version, make, recipe, uses, truth, dirty, edits, runs
Strings == INSTANCE Expansion
Makefiles == INSTANCE Scanner
Entries == INSTANCE StateEntries

Hyphen(s) == <<"-">> \o s
SomeGroups == {Hyphen(<<"k">>), Hyphen(<<"S">>), Hyphen(<<"~", "k">>),
               Hyphen(<<"p", "e", "N">>), Hyphen(<<"D", "D", "P", "P", "~">>), Hyphen(<<"s", "j">>),
               Hyphen(<<"R", "f">>)}
SomeDefinitions ==
    {<<"X", " ", "=", "\t", "\\", " ">>, <<"Y", "=", "a", " ", "-", "k", " ", "X", "=">>,
     <<"W", "=", "a", "\t", "-", "k">>, <<"X", " ", "+", "=", "b">>}

SomeCharacters == {"a", "b", "%", "=", "$", "\\", "("}
MacroValues == <<"X">> :> <<"a", " ", "a", "b", "a", " ", "b", "b">> @@ <<"b">> :> <<"%">>

Layout(gap, blank, around, before, behind) ==
    [gap |-> gap, blank |-> blank, around |-> around, before |-> before, behind |-> behind]

\* A comment goes on behind a backslash.
Remark == <<"#", ":", "\\", "\n", "a", "\n">>
SomeLayouts ==
    {Layout(<<" ">>, <<" ">>, <<>>, <<>>, <<"\n">>),
     Layout(<<"\\", "\n">>, <<"\\", "\n">>, <<>>, Remark, <<"\n", "\n">>),
     Layout(<<" ", "\\", "\n", "\t">>, <<"\\", "\n", "\t">>, <<" ">>, <<" ">>, Remark)}

a == <<"a">>
b == <<"b">>
SomeTargets == {<<a>>, <<a, <<"+">>, b>>}
SomeDepes == {<<>>, <<b, a>>}
SomeRecipes ==
    {<<>>, << <<"a", "\\", "\n", "\t", "b">>, <<"#">>, <<"a", "\\", "\\">> >>,
     << <<"a", "\\", "\n">> >>}
SomeValues == {<<"a", " ", "b">>, <<"\\", "\\", "=", ":">>}

\* top calls a make for lib and sub, which calls another one for y.
Nested == "top" :> {"lib", "sub"} @@ "sub" :> {"y"} @@
          [t \in {"x", "lib", "y"} |-> {}]
Order == <<"x", "lib", "sub", "top", "y">>
Explicit == "x" :> {"h"} @@ [t \in {"lib", "y", "sub", "top"} |-> {}]

\* Only one of the four moves, and the others are as they begin.
options == vars
strings == <<string, cmd>>
makefiles == <<text, meant>>
entries == <<file, version, make, recipe, uses, truth, dirty, edits, runs>>
TextInit == Init /\ Strings!Init /\ Makefiles!Init /\ Entries!Init
NoOptions == depth = 0 /\ makeflags = <<>> /\ posix
NoString == string = <<>> /\ cmd
NoMakefile == text = <<>>
NoMake == edits = 0 /\ runs = 0 /\ \A t \in DOMAIN uses : uses[t] = {}
Starting ==
    NoString /\ NoMakefile /\ NoMake /\ Next /\ UNCHANGED <<strings, makefiles, entries>>
Expanding ==
    NoOptions /\ NoMakefile /\ NoMake /\ Strings!Next
    /\ UNCHANGED <<options, makefiles, entries>>
Scanning ==
    NoOptions /\ NoString /\ NoMake /\ Makefiles!Next
    /\ UNCHANGED <<options, strings, entries>>
Calling ==
    NoOptions /\ NoString /\ NoMakefile /\ Entries!Next
    /\ UNCHANGED <<options, strings, makefiles>>
TextSpec ==
    TextInit /\ [][Starting \/ Expanding \/ Scanning \/ Calling]_
                  <<options, strings, makefiles, entries>>

QuotedComesOut == Strings!QuotedComesOut
TranslationMeant == Strings!TranslationMeant
ReferenceEnds == Strings!ReferenceEnds
LayoutForgotten == Makefiles!LayoutForgotten
WrittenComesBack == Makefiles!WrittenComesBack
Recorded == Entries!Recorded
Remembered == Entries!Remembered
=============================================================================
