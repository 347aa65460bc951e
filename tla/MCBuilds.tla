------------------------------ MODULE MCBuilds ------------------------------
(* A program made of an object and a library; the object includes a header.  *)
EXTENDS Builds

Line(text) == [text |-> text, ignored |-> FALSE]
NoLook(text) == [text |-> text, ignored |-> TRUE]

MCSource == {"main.c", "main.h"}
MCTarget == {"main.o", "lib", "prog"}
MCDeps == [t \in MCTarget |->
    CASE t = "main.o" -> {"main.c"} [] t = "lib" -> {"main.c"} [] OTHER -> {"main.o", "lib"}]
MCIncludes == [t \in MCTarget |-> IF t = "main.o" THEN {"main.h"} ELSE {}]

\* The rules of the object and of the program change; the change of the
\* program's is in a line with $?, which is not looked at.
MCRecipe == [t \in MCTarget |->
    CASE t = "main.o" -> << <<Line("cc")>>, <<Line("cc"), Line("strip")>>, <<Line("strip")>> >>
      [] t = "lib" -> << <<Line("ar")>> >>
      [] OTHER -> << <<Line("ld"), NoLook("echo")>>, <<Line("ld"), NoLook("touch")>> >>]

SomeInvocations ==
    [mode : {"run"}, jobs : {1, 2}, keep : {TRUE, FALSE}]
        \cup [mode : {"-n", "-t"}, jobs : {1}, keep : {FALSE}]

\* The instance satisfies what the theorems of BuildsProofs ask for.
ASSUME Hypotheses ==
    FailuresShow /\ AloneIsPlain /\ CommandsCount /\ CommandsShow /\ HeadersShow
=============================================================================
