------------------------------ MODULE MCMacros ------------------------------
(* A makefile with conditional macros for TLC. *)
EXTENDS Macros, TLC

\* Two targets with conditionals share what they depend on; "extra" has none,
\* and "tool" must be alone.
Diamond == "all" :> <<"left", "right">> @@ "left" :> <<"base", "tool">>
           @@ "right" :> <<"base", "lib">> @@ "base" :> <<>> @@ "lib" :> <<>>
           @@ "extra" :> <<>> @@ "tool" :> <<>>
ManyGoals == <<"extra", "all">>

Rules == <<Always("O", <<"d">>, FALSE), Always("C", <<"d">>, FALSE)>>

Statements ==
    << Always("O", <<"m">>, TRUE), Always("A", <<"m">>, FALSE),
       Pattern({"left", "right"}, "O", <<"p">>, TRUE),
       Conditional("left", "O", <<"l">>, FALSE),
       Conditional("right", "O", <<"r">>, TRUE),
       Conditional("left", "A", <<"k">>, TRUE),
       Conditional("lib", "A", <<"z">>, TRUE),
       Always("A", <<"n">>, TRUE) >>

SomeEnvironments == {NoValues, "O" :> <<"e">> @@ "A" :> <<"e">>, "C" :> <<"e">>}
SomeFlags == {<<>>, <<Assign("A", <<"f">>, FALSE)>>}
SomeLines == {<<>>, <<Assign("A", <<"x">>, FALSE)>>,
              <<Assign("O", <<"x">>, TRUE), Assign("O", <<"y">>, TRUE)>>,
              <<Assign("C", <<"x">>, TRUE), Assign("C", <<"y">>, FALSE)>>}
=============================================================================
