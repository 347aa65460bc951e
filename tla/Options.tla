------------------------------ MODULE Options -------------------------------
(* The options and macro definitions of a command line, and how a make     *)
(* hands them to the makes its recipes start: read_command_options(),      *)
(* parse_command_option() and enter_argv_values() read MAKEFLAGS and then  *)
(* the command line, main() writes MAKEFLAGS anew.  A string is the        *)
(* sequence of its characters.  Left out: svr4 mode, "--", -K, -O and -x.  *)
EXTENDS Integers, SequencesExt

CONSTANTS
    Groups,         \* the groups of options a user gives: -ke is <<"-","k","e">>
    Definitions,    \* the macro definitions a user gives: X=1 is <<"X","=","1">>
    MaxArgs,        \* bound: arguments on a command line
    MaxDepth        \* bound: makes that start each other

VARIABLES
    posix,      \* is MAKEFLAGS to hold macros? (posix or gnu mode)
    makeflags,  \* MAKEFLAGS in the environment of the recipes of the last make
    flag,       \* the options of the last make
    given,      \* the definitions it was given, in MAKEFLAGS and on its command line
    depth       \* makes started so far

vars == <<posix, makeflags, flag, given, depth>>

Blank == " "
White == {" ", "\t", "\n"}               \* isspace()
Count == {"D", "d", "P"}                \* options that count
Letters == {"e", "i", "n", "p", "q", "s", "t", "u", "w"}
WithArgument == {"f", "j", "M"}

\* The variables that parse_command_option() sets, before the first option.
NoFlags ==
    [on |-> [c \in Letters |-> FALSE], level |-> [c \in Count |-> 0],
     keep |-> FALSE, ever |-> {}, rules |-> TRUE, list |-> FALSE, serial |-> FALSE,
     cap_r |-> FALSE, specified |-> {}, value |-> [c \in {"j", "M"} |-> <<>>],
     invert |-> FALSE]

(***************************************************************************)
(* Options                                                                 *)

\* -p and -T imply -n, -N reverses it; -S reverses -k.
parse_command_option(f0, ch) ==
    LET on == ~f0.invert
        f  == [f0 EXCEPT !.invert = FALSE]
    IN  CASE ch = "~" -> [f EXCEPT !.invert = TRUE]
          [] ch \in Count -> [f EXCEPT !.level[ch] = @ + (IF on THEN 1 ELSE -1)]
          [] ch = "p" -> [f EXCEPT !.on["p"] = on, !.on["n"] = on]
          [] ch = "T" -> [f EXCEPT !.list = on, !.on["n"] = on]
          [] ch = "N" -> [f EXCEPT !.on["n"] = ~on]
          [] ch \in Letters \ {"p"} -> [f EXCEPT !.on[ch] = on]
          [] ch = "k" -> [f EXCEPT !.keep = on, !.ever = IF on THEN @ \union {"k"} ELSE @]
          [] ch = "S" -> [f EXCEPT !.keep = ~on, !.ever = IF on THEN @ \union {"S"} ELSE @]
          [] ch = "r" -> [f EXCEPT !.rules = ~on]
          [] ch = "R" -> [f EXCEPT !.cap_r = on, !.serial = on]
          [] ch = "j" -> [f EXCEPT !.specified = IF on THEN @ \union {"j"} ELSE @ \ {"j"}]
          [] ch = "M" -> [f EXCEPT !.specified = IF on THEN @ \union {"M"} ELSE @ \ {"M"},
                                   !.serial = IF on THEN FALSE ELSE @]
          [] OTHER -> f

IsGroup(arg) == Len(arg) > 1 /\ arg[1] = "-"
IsDefinition(arg) == "=" \in Range(arg)

NotWhite(c) == c \notin White
NoWhiteBefore(str) ==
    LET first == SelectInSeq(str, NotWhite) IN
    IF first = 0 THEN <<>> ELSE SubSeq(str, first, Len(str))
NoWhiteAfter(str) == SubSeq(str, 1, SelectLastInSeq(str, NotWhite))

\* The parts of "name=value" and of "name +=value", without the white space
\* around the "=".
Equals(arg) == SelectInSeq(arg, LAMBDA c : c = "=")
IsAppend(arg) ==
    LET eq == Equals(arg) IN eq > 2 /\ arg[eq - 1] = "+" /\ arg[eq - 2] \in White
NameOf(arg) ==
    NoWhiteAfter(SubSeq(arg, 1, Equals(arg) - IF IsAppend(arg) THEN 2 ELSE 1))
ValueOf(arg) == NoWhiteBefore(SubSeq(arg, Equals(arg) + 1, Len(arg)))

\* getopt() stops in a group at the first option with an argument.
Stop(arg) == SelectInSeq(arg, LAMBDA c : c \in WithArgument)
Parsed(f, arg) ==
    FoldLeft(parse_command_option, f,
             Tail(IF Stop(arg) = 0 THEN arg ELSE SubSeq(arg, 1, Stop(arg))))

RECURSIVE read_command_options(_, _)
\* The groups leave argv: what is left of "-kf" is "-f", and its argument is
\* the next one, also when getopt() found it in the group ("-j4").
read_command_options(f, argv) ==
    IF argv = <<>> THEN [flag |-> f, argv |-> <<>>]
    ELSE LET arg  == Head(argv)
             here == IF ~IsGroup(arg) THEN <<arg>>
                     ELSE IF Stop(arg) = 0 THEN <<>>
                     ELSE <<<<"-", arg[Stop(arg)]>>>>
             own  == IF IsGroup(arg) /\ Stop(arg) = Len(arg) /\ Len(argv) > 1
                     THEN <<argv[2]>> ELSE <<>>
             rest == read_command_options(IF IsGroup(arg) THEN Parsed(f, arg) ELSE f,
                                          SubSeq(argv, 2 + Len(own), Len(argv)))
         IN  [rest EXCEPT !.argv = here \o own \o @]

RECURSIVE enter_argv_values(_, _)
\* Each option with an argument counts once more; what is neither that nor a
\* definition is a target.
enter_argv_values(f, argv) ==
    IF argv = <<>> THEN [flag |-> f, macros |-> <<>>]
    ELSE LET arg == Head(argv) IN
    IF IsGroup(arg) THEN
        LET seen == parse_command_option(f, arg[2]) IN
        enter_argv_values(IF arg[2] = "f" \/ Len(argv) = 1 THEN seen
                          ELSE [seen EXCEPT !.value[arg[2]] = argv[2]],
                          SubSeq(argv, 3, Len(argv)))
    ELSE LET rest == enter_argv_values(f, Tail(argv)) IN
         IF IsDefinition(arg) THEN [rest EXCEPT !.macros = <<arg>> \o @] ELSE rest

(***************************************************************************)
(* MAKEFLAGS                                                               *)

Magic == {";", "(", ")", "{", "}", "[", "]", "|", "^", "&", "<", ">", "*", "?",
          "$", "'", "\"", "backquote", "#", " ", "\\"}

\* Wrong: a backslash of the value is not quoted.
quote_strNot(str) ==
    FlattenSeq([i \in DOMAIN str |->
        IF str[i] \in Magic \ {"\\"} THEN <<"\\", str[i]>> ELSE <<str[i]>>])

quote_str(str) ==
    FlattenSeq([i \in DOMAIN str |->
        IF str[i] \in Magic THEN <<"\\", str[i]>> ELSE <<str[i]>>])

unquote_str(str) ==
    FoldLeft(LAMBDA u, c : IF ~u.quoted /\ c = "\\" THEN [u EXCEPT !.quoted = TRUE]
                           ELSE [text |-> Append(u.text, c), quoted |-> FALSE],
             [text |-> <<>>, quoted |-> FALSE], str).text

\* The words of MAKEFLAGS: white space after a backslash does not end one.
Words(str) ==
    LET scanned == FoldLeft(
            LAMBDA w, c :
                IF w.quoted \/ NotWhite(c)
                THEN [w EXCEPT !.word = Append(@, c), !.quoted = (~@ /\ c = "\\")]
                ELSE [all |-> Append(w.all, w.word), word |-> <<>>, quoted |-> FALSE],
            [all |-> <<>>, word |-> <<>>, quoted |-> FALSE], str)
    IN  SelectSeq(Append(scanned.all, scanned.word), LAMBDA word : word # <<>>)

\* A MAKEFLAGS of the old format, "ke", gets its hyphen.
setup_makeflags_argv(str) ==
    LET hyphen == IF {"-", "="} \intersect Range(str) = {} THEN <<"-">> ELSE <<>>
        words  == Words(str)
    IN  [i \in DOMAIN words |-> hyphen \o unquote_str(words[i])]

\* Everything a make reads: MAKEFLAGS, then the command line.
Read(str, argv) ==
    LET mf  == read_command_options(NoFlags, setup_makeflags_argv(str))
        cmd == read_command_options(mf.flag, argv)
        one == enter_argv_values(cmd.flag, mf.argv)
        two == enter_argv_values(one.flag, cmd.argv)
    IN  [flag |-> two.flag, macros |-> one.macros \o two.macros]

\* Is there, at the start of a word, this name and a "="?
Found(array, name) ==
    \E i \in DOMAIN array :
        /\ i = 1 \/ array[i - 1] \in White
        /\ IsPrefix(name, SubSeq(array, i, Len(array)))
        /\ IsPrefix(<<"=">>, NoWhiteBefore(SubSeq(array, i + Len(name), Len(array))))

\* It gives up when the name is there: it looks for quotes nobody wrote.
append_or_replace_macro_in_dyn_array(array, macro) ==
    LET name == NoWhiteBefore(NameOf(macro)) IN
    IF name = <<>> \/ Found(array, name) THEN array
    ELSE array \o <<Blank>> \o name \o <<"=">> \o quote_str(ValueOf(macro))

\* Wrong: -S after -k is written as -k.
KeepFlagsSwapped(f, px) == IF f.ever # {} THEN <<"k">> ELSE <<>>

\* -k, and in posix mode also -S: the one that was seen last comes last.
KeepFlags(f, px) ==
    IF f.keep THEN (IF px /\ "S" \in f.ever THEN <<"S", Blank, "-", "k">> ELSE <<"k">>)
    ELSE IF px /\ f.ever = {"k", "S"} THEN <<"k", Blank, "-", "S">> ELSE <<>>

Level(c, n, most) == IF n \in 1..most THEN [i \in 1..n |-> c] ELSE <<>>
Letter(f, c) == IF f.on[c] THEN <<c>> ELSE <<>>

append_makeflags_string(f, c) ==
    IF c \in f.specified THEN <<Blank, "-", c, Blank>> \o f.value[c] ELSE <<>>

\* The options in the order in which main() appends them.
FlagString(f, px) ==
    <<"-">> \o Level("D", f.level["D"], 2) \o Level("d", f.level["d"], 2)
            \o Letter(f, "e") \o Letter(f, "i") \o KeepFlags(f, px) \o Letter(f, "n")
            \o Level("P", f.level["P"], 4)
            \o FlattenSeq([i \in 1..6 |-> Letter(f, <<"p", "q", "s", "t", "u", "w">>[i])])
            \o append_makeflags_string(f, "j") \o append_makeflags_string(f, "M")
            \o (IF f.cap_r THEN <<Blank, "-", "R">> ELSE <<>>)

\* MAKEFLAGS, with the definitions but not what they append: without the hyphen when no option follows it.
MakeFlags(f, macros, px) ==
    LET array == FoldLeft(append_or_replace_macro_in_dyn_array, <<>>,
                          SelectSeq(macros, LAMBDA macro : ~IsAppend(macro)))
        all   == FlagString(f, px) \o (IF px /\ array # <<>> THEN <<Blank>> \o array ELSE <<>>)
    IN  IF Len(all) = 1 THEN <<>>
        ELSE IF all[2] # Blank THEN all ELSE SubSeq(all, 3, Len(all))

(***************************************************************************)
(* A make, the make one of its recipes starts, and so on.                  *)

Init ==
    /\ posix \in BOOLEAN
    /\ makeflags \in {<<>>} \union     \* or the old format
           {Tail(g) : g \in {h \in Groups : Range(h) \intersect WithArgument = {}}}
    /\ flag = NoFlags
    /\ given = <<>>
    /\ depth = 0

Goal == <<"g">>       \* a target
Argument == <<"2">>
\* The argument of an option is the next one.
Expanded(args) ==
    FlattenSeq([i \in DOMAIN args |->
        IF IsGroup(args[i]) /\ Last(args[i]) \in WithArgument
        THEN <<args[i], Argument>> ELSE <<args[i]>>])

Start(args) ==
    /\ depth < MaxDepth
    /\ \E read \in {Read(makeflags, Expanded(args))} :
         /\ flag' = read.flag
         /\ given' = read.macros
         /\ makeflags' = MakeFlags(read.flag, read.macros, posix)
    /\ depth' = depth + 1
    /\ UNCHANGED posix

Next == \E args \in SeqOf(Groups \union Definitions \union {Goal}, MaxArgs) : Start(args)

Spec == Init /\ [][Next]_vars

-----------------------------------------------------------------------------
SubMake == Read(makeflags, <<>>)

\* MAKEFLAGS can carry the definition: a TAB or a newline of the value ends a
\* word there, and what follows may be an option; so does a blank of the name.
Carried(arg) ==
    /\ Range(ValueOf(arg)) \intersect (White \ {Blank}) = {}
    /\ Range(NameOf(arg)) \intersect (White \union {"\\"}) = {}
AllCarried == posix => \A i \in DOMAIN given : Carried(given[i])

MostLevel == [c \in Count |-> IF c = "P" THEN 4 ELSE 2]

\* A make that a recipe starts without options of its own has the options of
\* this one, given, reversed and handed down in any order; -p and -T come down
\* as -n too.  Of -D and -d at most two come down and of -P four: what is given
\* more often does not come down at all (parse_command_option, main() and
\* MAKEFLAGS).
OptionsComeDown ==
    depth > 0 /\ AllCarried =>
        \A sub \in {SubMake.flag} :
        /\ \A c \in Letters \ {"n"} : sub.on[c] = flag.on[c]
        /\ sub.on["n"] = (flag.on["n"] \/ flag.on["p"])
        /\ \A c \in Count : sub.level[c] = IF flag.level[c] \in 1..MostLevel[c]
                                          THEN flag.level[c] ELSE 0
        /\ sub.keep = flag.keep
        /\ sub.cap_r = flag.cap_r
        /\ sub.specified = flag.specified
        /\ \A c \in flag.specified : sub.value[c] = flag.value[c]

Names(macros) == {NameOf(macros[i]) : i \in DOMAIN macros}

\* A name that is defined once, with "=", and does not begin a word of a value
\* where it is followed by "=": append_or_replace_macro_in_dyn_array() would
\* take that for its definition.
DefinedOnce(n) ==
    LET of == SelectSeq(given, LAMBDA arg : NameOf(arg) = n) IN
    /\ Len(of) = 1 /\ ~IsAppend(of[1])
    /\ \A i \in DOMAIN given : ~Found(ValueOf(given[i]), n)

\* The value of a definition of the command line comes down through
\* quote_str(), the words of MAKEFLAGS and unquote_str(), whatever blanks,
\* backslashes and hyphens are in it (no TAB or newline, see Carried), unless
\* its name was taken (append_or_replace_macro_in_dyn_array).
DefinitionsComeDown ==
    posix /\ AllCarried =>
        \A n \in Names(given) : DefinedOnce(n) =>
            LET values(macros) == {ValueOf(macros[i]) :
                                     i \in {j \in DOMAIN macros : NameOf(macros[j]) = n}}
            IN  values(SubMake.macros) = values(given)
=============================================================================
