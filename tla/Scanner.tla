------------------------------ MODULE Scanner -------------------------------
(***************************************************************************)
(* parse_makefile(), the reader of makefiles, .make.state and dependency   *)
(* reports: a machine that takes one character after the other.  A writer  *)
(* types statements in any of the layouts a makefile allows; what the      *)
(* machine makes of the text must be what was meant, and what              *)
(* write_state_file() writes of it must be read as it was.  Left out:      *)
(* "$" (see Expansion), "(", "{", "!" and the breaks "&", ">" and "|",     *)
(* include, reading in blocks, a value that begins with "\#" (the length   *)
(* of what is copied becomes -1), and normalize_name(): no name has a "/". *)
(***************************************************************************)
EXTENDS Integers, SequencesExt

CONSTANTS
    Layouts,        \* what is typed between two names, for a blank of a value,
                    \* around ":" and "=", before a statement, behind a value
    Targets, Depes, \* names on the left and on the right of a rule
    Recipes,        \* recipes, sequences of commands made of keystrokes
    Values,         \* the values of macros
    MaxStatements,  \* bound: statements of a makefile
    LineLength      \* names on a line of .make.state

VARIABLES
    text,           \* the makefile, a sequence of characters
    meant           \* the statements that were typed

vars == <<text, meant>>

Nl == "\n"
Blanks == {" ", "\t"}
Plus == <<"+">>
sh == <<"s", "h">>
built_last_make_run == <<".", "B">>

-----------------------------------------------------------------------------
(* Statements.                                                             *)

Rule(targets, separator, depes, commands) ==
    [kind |-> separator, target |-> targets, depes |-> depes, commands |-> commands]
Assignment(name, append, value) ==
    [kind |-> "equal", target |-> <<name>>, append |-> append, value |-> value]
Conditional(targets, name, append, value) ==
    [kind |-> "conditional", target |-> targets, name |-> name, append |-> append,
     value |-> value]

-----------------------------------------------------------------------------
(* The machine: mode is the state of the reader and its place in it, eoln  *)
(* its on_eoln_state, word the name it is in.                              *)

Nothing ==
    [target |-> <<>>, depes |-> <<>>, separator |-> "none_seen", word |-> <<>>,
     append |-> FALSE, value |-> <<>>, commands |-> <<>>, command |-> <<>>]
Reader(makefile_type) ==
    Nothing @@ [mode |-> "line", eoln |-> "exit", after |-> "line", out |-> <<>>,
                makefile_type |-> makefile_type]

Fatal(r) == [r EXCEPT !.mode = "fatal"]
Mode(r, mode) == [r EXCEPT !.mode = mode]
NewLine(r) == Nothing @@ [Mode(r, "line") EXCEPT !.eoln = "illegal"]
Out(r, statement) == NewLine([r EXCEPT !.out = Append(@, statement)])

\* enter_name(): a second "+" is dropped.
EnterName(r, name) ==
    LET names == IF r.separator = "none_seen" THEN "target" ELSE "depes" IN
    [r EXCEPT ![names] = IF name = Plus /\ @ # <<>> /\ Last(@) = Plus
                         THEN @ ELSE Append(@, name),
              !.word = <<>>]
EnterLast(r) == IF r.word = <<>> THEN r ELSE EnterName(r, r.word)

\* GOTO_STATE(on_eoln_state)
EndOfLine(r) ==
    CASE r.eoln = "illegal" -> Fatal(r)
      [] r.eoln = "enter_dependencies" -> Mode(r, "enter_dependencies")
      [] r.eoln = "enter_equal" ->
            IF Len(r.target) # 1 THEN Fatal(r)
            ELSE Out(r, Assignment(r.target[1], r.append, r.value))
      [] r.eoln = "enter_conditional" ->
            IF Len(r.depes) # 1 THEN Fatal(r)
            ELSE Out(r, Conditional(r.target, r.depes[1], r.append, r.value))

\* "=" and "+=": a rule must be on its way to X:sh=.
Assign(r) ==
    LET value == [EnterLast(r) EXCEPT !.mode = "value_start"] IN
    CASE r.separator = "none_seen" ->
            [value EXCEPT !.separator = "equal_seen", !.eoln = "enter_equal"]
      [] r.separator = "conditional_seen" -> [value EXCEPT !.eoln = "enter_conditional"]
      [] OTHER ->
            IF /\ Len(r.target) = 1
               /\ \/ r.depes = <<sh>>
                  \/ r.depes = <<>> /\ r.separator = "one_colon" /\ r.word = sh
            THEN [value EXCEPT !.eoln = "enter_equal",
                               !.target = <<r.target[1] \o <<":">> \o sh>>]
            ELSE Fatal(r)

\* In a name.
Word(r, c) ==
    LET longer == [r EXCEPT !.word = Append(@, c), !.mode = "word"] IN
    CASE c = Nl -> EndOfLine(EnterName(r, r.word))
      [] c \in Blanks -> Mode(EnterName(r, r.word), "name")
      [] c = "\\" -> Mode(r, "word_backslash")
      [] c = "#" -> Fatal(r)
      [] c = ":" ->
            IF r.separator = "conditional_seen" THEN longer
            ELSE IF r.separator # "none_seen" THEN Fatal(r)
            ELSE Mode(EnterLast(r), "colon")
      [] c = ";" ->
            IF r.separator \notin {"one_colon", "two_colon"} THEN Fatal(r)
            ELSE [EnterLast(r) EXCEPT !.commands = <<<<>>>>, !.mode = "command"]
      [] c = "+" ->
            IF r.word # <<>> THEN longer
            ELSE IF r.target = <<>> /\ r.depes = <<>> THEN Mode(r, "leading_plus")
            ELSE Mode(r, "plus")
      [] c = "=" -> Assign(r)
      [] OTHER -> longer

\* Wrong: a backslash at the end of a line ends the line, too.
NameNotContinued(r, c) ==
    CASE c = Nl -> EndOfLine(r)
      [] c \in Blanks -> r
      [] c = "\\" -> r
      [] c = "#" -> [r EXCEPT !.mode = "comment", !.after = "eoln"]
      [] OTHER -> Word(r, c)

\* Before a name: a backslash here quotes nothing.
Name(r, c) ==
    CASE c = Nl -> EndOfLine(r)
      [] c \in Blanks -> r
      [] c = "\\" -> Mode(r, "name_backslash")
      [] c = "#" -> [r EXCEPT !.mode = "comment", !.after = "eoln"]
      [] OTHER -> Word(r, c)
NameBackslash(r, c) == IF c = Nl THEN Mode(r, "name") ELSE Name(Mode(r, "name"), c)
WordBackslash(r, c) ==
    IF c = Nl THEN Word(r, " ") ELSE [r EXCEPT !.word = Append(@, c), !.mode = "word"]

\* The "+" that a line begins with, and "+" that may become "+=".
PlusIsName(r, c) == Word([r EXCEPT !.word = Plus], c)
LeadingPlus(r, c) == IF c \in Blanks THEN Mode(r, "after_plus") ELSE PlusIsName(r, c)
AfterPlus(r, c) ==
    CASE c \in Blanks -> r [] c = "+" -> Mode(r, "leading_plus") [] OTHER -> Word(r, c)
PlusSeen(r, c) ==
    IF c = "=" THEN Assign([r EXCEPT !.append = TRUE]) ELSE PlusIsName(r, c)

Colon(r, c) ==
    LET separated(separator) == [Mode(r, "name") EXCEPT !.separator = separator]
        rule(separator) == [separated(separator) EXCEPT !.eoln = "enter_dependencies"]
    IN  CASE c = "=" -> separated("conditional_seen")
          [] c = ":" -> rule("two_colon")
          [] OTHER -> Name(rule("one_colon"), c)

\* start_new_line: before the first character of a statement.
Line(r, c) ==
    CASE c = Nl \/ c \in Blanks -> r
      [] c = "#" -> [r EXCEPT !.mode = "comment", !.after = "line"]
      [] OTHER -> Name(Mode(NewLine(r), "name"), c)

CommentEnds(r) == IF r.after = "eoln" THEN EndOfLine(r) ELSE Mode(r, r.after)
Comment(r, c) ==
    CASE c = Nl -> CommentEnds(r) [] c = "\\" -> Mode(r, "comment_backslash") [] OTHER -> r

\* Values: "\" and a newline and blanks are one blank; a comment ends it.
ValueEnd(r, c) ==
    LET entered == EndOfLine(r) IN
    IF entered.mode = "fatal" THEN entered ELSE Line(entered, c)
Value(r, c) ==
    CASE c \in {Nl, "#"} -> ValueEnd(r, c)
      [] c = "\\" -> Mode(r, "value_backslash")
      [] OTHER -> [Mode(r, "value") EXCEPT !.value = Append(@, c)]
ValueBackslash(r, c) ==
    IF c = Nl THEN [Mode(r, "value_gap") EXCEPT !.value = Append(@, " ")]
    ELSE [Mode(r, "value") EXCEPT !.value = @ \o <<"\\", c>>]
\* The first backslash: the character after it is looked at again.
ValueStartBackslash(r, c) ==
    CASE c = Nl -> Mode(r, "value_start")
      [] c = "\\" -> [Mode(r, "value_quoted") EXCEPT !.value = <<"\\", c>>]
      [] OTHER -> [Mode(r, "value") EXCEPT !.value = <<"\\", c>>]
ValueQuoted(r, c) ==
    IF c = Nl THEN Mode(r, "value_gap") ELSE [Mode(r, "value") EXCEPT !.value = Append(@, c)]
ValueStart(r, c) ==
    CASE c \in Blanks -> r [] c = "\\" -> Mode(r, "value_start_backslash") [] OTHER -> Value(r, c)
ValueGap(r, c) == IF c \in Blanks THEN r ELSE Value(r, c)

\* Commands: leading blanks go; only .make.state has empty ones.
Stripped(command) ==
    LET at == {i \in DOMAIN command : command[i] \notin Blanks} IN
    IF at = {} THEN <<>> ELSE SubSeq(command, Min(at), Len(command))
CommandEnd(r) ==
    LET command == Stripped(r.command) IN
    [r EXCEPT !.mode = "command_end", !.command = <<>>,
              !.commands =
                IF command # <<>> \/ (r.command # <<>> /\ r.makefile_type = "statefile")
                THEN Append(@, command) ELSE @]
Command(r, c) ==
    CASE c = Nl -> CommandEnd(r)
      [] c = "\\" -> Mode(r, "command_backslash")
      [] OTHER -> [Mode(r, "command") EXCEPT !.command = Append(@, c)]
CommandBackslash(r, c) ==
    [r EXCEPT !.command = @ \o <<"\\", c>>,
              !.mode = IF c = Nl THEN "command_continued" ELSE "command"]

\* A tab at the beginning of a line that continues a command is dropped.
CommandContinued(r, c) == IF c = "\t" THEN Mode(r, "command") ELSE Command(r, c)

\* enter_dependencies_state: commands, or the rule is complete.
EnterDependencies(r, c) ==
    CASE c = "\t" -> [r EXCEPT !.mode = "command", !.command = <<c>>]
      [] c = "#" -> IF r.makefile_type = "makefile"
                    THEN [r EXCEPT !.mode = "comment", !.after = "enter_dependencies"]
                    ELSE Mode(r, "command")
      [] OTHER -> Line(Out(r, Rule(r.target, r.separator, r.depes, r.commands)), c)
CommandEnded(r, c) == IF c = Nl THEN r ELSE EnterDependencies(r, c)

parse_makefile(r, c) ==
    CASE r.mode = "line" -> Line(r, c)
      [] r.mode = "comment" -> Comment(r, c)
      [] r.mode = "comment_backslash" -> Mode(r, "comment")
      [] r.mode = "name" -> Name(r, c)
      [] r.mode = "name_backslash" -> NameBackslash(r, c)
      [] r.mode = "word" -> Word(r, c)
      [] r.mode = "word_backslash" -> WordBackslash(r, c)
      [] r.mode = "leading_plus" -> LeadingPlus(r, c)
      [] r.mode = "after_plus" -> AfterPlus(r, c)
      [] r.mode = "plus" -> PlusSeen(r, c)
      [] r.mode = "colon" -> Colon(r, c)
      [] r.mode = "value_start" -> ValueStart(r, c)
      [] r.mode = "value_start_backslash" -> ValueStartBackslash(r, c)
      [] r.mode = "value_quoted" -> ValueQuoted(r, c)
      [] r.mode = "value" -> Value(r, c)
      [] r.mode = "value_backslash" -> ValueBackslash(r, c)
      [] r.mode = "value_gap" -> ValueGap(r, c)
      [] r.mode = "command" -> Command(r, c)
      [] r.mode = "command_backslash" -> CommandBackslash(r, c)
      [] r.mode = "command_continued" -> CommandContinued(r, c)
      [] r.mode = "command_end" -> CommandEnded(r, c)
      [] r.mode = "enter_dependencies" -> EnterDependencies(r, c)
      [] r.mode = "fatal" -> r

\* The end of the file.
AtEnd(r) ==
    CASE r.mode \in {"enter_dependencies", "command_end"} -> EnterDependencies(r, Nl)
      [] r.mode = "line" -> r
      [] OTHER -> Fatal(r)
Scanned(chars, makefile_type) ==
    AtEnd(FoldLeft(parse_makefile, Reader(makefile_type), chars))

-----------------------------------------------------------------------------
(* Writing .make.state.                                                    *)

Concat(n, Part(_)) == FlattenSeq([i \in 1..n |-> Part(i)])
Mark(marked) == IF marked THEN built_last_make_run \o <<":", Nl>> ELSE <<>>

\* print_auto_depes(): a blank, or another line of the target.
print_auto_depes(target, names, marked) ==
    Concat(Len(names), LAMBDA i :
        names[i] \o (IF i % LineLength # 0 THEN <<" ">>
                      ELSE <<Nl>> \o Mark(marked) \o target \o <<":", "\t">>))

\* Wrong: what follows a newline in a command begins the line.
WrittenCommandBare(command) == <<"\t">> \o command \o <<Nl>>

\* A tab before each line of a command.
WrittenCommand(command) ==
    <<"\t">> \o Concat(Len(command), LAMBDA i :
                    IF command[i] = Nl THEN <<Nl, "\t">> ELSE <<command[i]>>) \o <<Nl>>

\* What write_state_file() prints for a target.
write_state_file(target, names, commands, marked) ==
    Mark(marked) \o target \o <<":">>
    \o (IF names = <<>> THEN <<>> ELSE <<"\t">> \o print_auto_depes(target, names, marked))
    \o <<Nl>> \o Concat(Len(commands), LAMBDA i : WrittenCommand(commands[i]))

\* The lines that are meant by it.
Lines(target, names, commands, marked) ==
    LET last == Len(names) \div LineLength
        part(i) == SubSeq(names, i * LineLength + 1, Min({(i + 1) * LineLength, Len(names)}))
        mark == IF marked THEN <<Rule(<<built_last_make_run>>, "one_colon", <<>>, <<>>)>>
                ELSE <<>>
    IN  Concat(last + 1, LAMBDA i :
            Append(mark, Rule(<<target>>, "one_colon", part(i - 1),
                              IF i - 1 = last THEN commands ELSE <<>>)))

-----------------------------------------------------------------------------
(* A makefile is typed, one statement after the other.                     *)

Joined(names, gap) ==
    Concat(Len(names), LAMBDA i : IF i = 1 THEN names[i] ELSE gap \o names[i])
\* A command is typed key by key; after a newline it goes on behind a tab.
Typed(command) ==
    Concat(Len(command), LAMBDA i :
        IF command[i] = Nl THEN <<Nl, "\t">> ELSE <<command[i]>>) \o <<Nl>>
TypedCommands(commands) ==
    Concat(Len(commands), LAMBDA i : <<"\t", " ">> \o Typed(commands[i]))
TypedValue(value, layout) ==
    layout.around \o Concat(Len(value), LAMBDA i :
        IF value[i] = " " THEN layout.blank ELSE <<value[i]>>) \o layout.behind

Init == text = <<>> /\ meant = <<>>

Type(layout, chars, statement) ==
    /\ Len(meant) < MaxStatements
    /\ text' = text \o layout.before \o chars
    /\ meant' = Append(meant, statement)

\* targets : depes, with its recipe on lines of their own or behind ";".
TypeRule(layout) ==
    \E targets \in Targets, depes \in Depes, commands \in Recipes,
       separator \in {"one_colon", "two_colon"} :
        LET colons == IF separator = "one_colon" THEN <<":">> ELSE <<":", ":">>
            line == Joined(targets, layout.gap) \o layout.around \o colons
                    \o layout.around \o Joined(depes, layout.gap)
        IN  \/ Type(layout, line \o <<Nl>> \o TypedCommands(commands),
                    Rule(targets, separator, depes, commands))
            \/ /\ commands # <<>>
               /\ Type(layout, line \o <<";">> \o Typed(commands[1])
                               \o TypedCommands(Tail(commands)),
                       Rule(targets, separator, depes, <<<<>>>> \o commands))

\* name = value and name += value, and name:sh = value.
TypeAssignment(layout) ==
    \E targets \in Targets, value \in Values, append, command \in BOOLEAN :
        /\ append => layout.around # <<>>
        /\ Type(layout, targets[1] \o layout.around
                        \o (IF command THEN <<":">> \o layout.around \o sh \o layout.around
                            ELSE <<>>)
                        \o (IF append THEN <<"+", "=">> ELSE <<"=">>)
                        \o TypedValue(value, layout),
                Assignment(IF command THEN targets[1] \o <<":">> \o sh ELSE targets[1],
                           append, value))

\* targets := name = value
TypeConditional(layout) ==
    \E targets \in Targets, value \in Values :
        /\ Plus \notin Range(targets)
        /\ Type(layout, Joined(targets, layout.gap) \o layout.around \o <<":", "=">>
                        \o layout.around \o targets[1] \o layout.around \o <<"=">>
                        \o TypedValue(value, layout),
                Conditional(targets, targets[1], FALSE, value))

Next ==
    \E layout \in Layouts :
        \/ TypeRule(layout)
        \/ TypeAssignment(layout)
        \/ TypeConditional(layout)

Spec == Init /\ [][Next]_vars

-----------------------------------------------------------------------------
\* Two makefiles that mean the same and differ in layout are read alike:
\* parse_makefile() finds the statements that were typed.
LayoutForgotten ==
    \A r \in {Scanned(text, "makefile")} : r.mode # "fatal" /\ r.out = meant

\* What write_state_file() prints for the target of a rule is read back as
\* its dependencies and commands, in as many lines as were printed.  (The
\* rules before the last one were looked at when they were typed.)
WrittenComesBack ==
    meant # <<>> /\ Last(meant).kind = "one_colon" =>
        \A marked \in BOOLEAN :
            LET s == Last(meant) IN
            Scanned(write_state_file(s.target[1], s.depes, s.commands, marked), "statefile").out
                = Lines(s.target[1], s.depes, s.commands, marked)
=============================================================================
