------------------------------ MODULE Expansion -----------------------------
(* The expansion of a string with macro references: expand_value() copies  *)
(* it up to the next "$", expand_macro() reads the name, _process_macro_-  *)
(* name() takes translations like $(X:.c=.o) and $(X:a%b=c%d) apart and    *)
(* _get_macro_value() applies them to each word of the value.  A string is *)
(* the sequence of its characters.  Left out: $(X:sh), the architecture    *)
(* macros, conditional macros (see Macros) and strings read in blocks.     *)
EXTENDS Integers, SequencesExt

CONSTANTS
    Characters,     \* what is typed
    MaxString,      \* bound: characters typed
    MacroValue           \* the macros: a function from names to values

VARIABLES
    string,         \* what has been typed
    cmd             \* is it a command line? (no "\" quoting)

Newline == "newline"
Nul == "nul"
Blanks == {" ", "tab"}
Special == {"@", "*", "<", "%", "?", "^"}

\* The text an operator delivers and the first character it has not read;
\* not ok: fatal(), or a read past the end of the string.
Fatal == [out |-> <<>>, next |-> 0, ok |-> FALSE]
Done(out, next) == [out |-> out, next |-> next, ok |-> TRUE]

(***************************************************************************)
(* Translations of a value, word by word                                   *)

\* The position of c in s from i on, 0 if there is none (wcschr).
Find(s, c, i) ==
    LET at == {k \in i..Len(s) : s[k] = c} IN IF at = {} THEN 0 ELSE Min(at)
Piece(s, i, j) == SubSeq(s, i, j - 1)

NoReplacement == [type |-> "none"]

\* ".c=.o": a chain ".c=.o:.o=.a" leaves the last translation.
_parse_straight_subst(s) ==
    LET eq == Find(s, "=", 1) IN
    [type |-> "suffix", left |-> Piece(s, 1, eq), right |-> SubSeq(s, eq + 1, Len(s))]

RECURSIVE RightHand(_)
\* The text before, between and after the "%" of the right hand side.
RightHand(s) ==
    LET percent == Find(s, "%", 1) IN
    IF percent = 0 THEN <<s>>
    ELSE <<Piece(s, 1, percent)>> \o RightHand(SubSeq(s, percent + 1, Len(s)))

_parse_percent_subst(s) ==
    LET eq == Find(s, "=", 1)
        percent == Find(s, "%", 1)
    IN  [type |-> "pattern", head |-> Piece(s, 1, percent),
         tail |-> Piece(s, percent + 1, eq), right |-> RightHand(SubSeq(s, eq + 1, Len(s)))]

\* Are the "=" missing, or the "%" on its left?
Malformed(s) ==
    \/ Find(s, "=", 1) = 0
    \/ Find(s, "%", 1) > Find(s, "=", 1)

_extract_string(ext, word) ==
    LET slash == SelectLastInSeq(word, LAMBDA c : c = "/") IN
    CASE ext = "D" -> IF slash = 0 THEN <<".">> ELSE Piece(word, 1, slash)
      [] ext = "F" -> SubSeq(word, slash + 1, Len(word))
      [] OTHER -> word

Tail0(word, n) == SubSeq(word, Len(word) - n + 1, Len(word))

\* Wrong: head and tail may overlap in the word.
_replace_stringOverlap(rpl, word) ==
    IF rpl.type # "pattern" THEN word
    ELSE IF IsPrefix(rpl.head, word) /\ IsSuffix(rpl.tail, word)
    THEN FlattenSeq([i \in DOMAIN rpl.right |->
            rpl.right[i] \o (IF i = Len(rpl.right) THEN <<>>
                             ELSE SubSeq(word, Len(rpl.head) + 1, Len(word) - Len(rpl.tail)))])
    ELSE word

_replace_string(rpl, word) ==
    CASE rpl.type = "suffix" ->
            IF Len(word) >= Len(rpl.left) /\ Tail0(word, Len(rpl.left)) = rpl.left
            THEN Piece(word, 1, Len(word) - Len(rpl.left) + 1) \o rpl.right
            ELSE word
      [] rpl.type = "pattern" ->
            IF /\ Len(word) >= Len(rpl.head) + Len(rpl.tail)
               /\ SubSeq(word, 1, Len(rpl.head)) = rpl.head
               /\ Tail0(word, Len(rpl.tail)) = rpl.tail
            THEN LET stem == SubSeq(word, Len(rpl.head) + 1, Len(word) - Len(rpl.tail)) IN
                 FlattenSeq([i \in DOMAIN rpl.right |->
                    IF i = 1 THEN rpl.right[1] ELSE stem \o rpl.right[i]])
            ELSE word
      [] OTHER -> word

\* Words and the white space between them, in their order.
Pieces(s) ==
    FoldLeft(LAMBDA p, c :
                IF p # <<>> /\ (Last(Last(p)) \in Blanks) = (c \in Blanks)
                THEN [p EXCEPT ![Len(p)] = Append(@, c)] ELSE Append(p, <<c>>),
             <<>>, s)
Translated(rpl, ext, s) ==
    LET p == Pieces(s) IN
    FlattenSeq([i \in DOMAIN p |->
        IF Last(p[i]) \in Blanks THEN p[i] ELSE _replace_string(rpl, _extract_string(ext, p[i]))])

(***************************************************************************)
(* References                                                              *)

RECURSIVE expand_value(_, _, _), Scan(_, _, _, _),
          expand_macro(_, _, _, _), ScanName(_, _, _, _, _)

\* The value of a macro; a value that contains itself is fatal.
_get_macro_value(name, rpl, ext, cm, active) ==
    IF name \notin DOMAIN MacroValue THEN Done(<<>>, 0)
    ELSE LET value == expand_value(MacroValue[name], cm, active) IN
         IF ~value.ok THEN Fatal
         ELSE IF rpl.type = "none" /\ ext = "" THEN value
         ELSE Done(Translated(rpl, ext, value.out), 0)

\* "@D", "@F", "X:translation", "X".
_process_macro_name(str, cm, active) ==
    LET special == str[1] \in Special
        ext     == IF special /\ Len(str) > 1 THEN str[2] ELSE ""
        rest    == IF special THEN SubSeq(str, 3, Len(str)) ELSE str
        colon   == Find(rest, ":", 1)
        subst   == SubSeq(rest, colon + 1, Len(rest))
        name    == IF special THEN <<str[1]>>
                   ELSE IF colon # 0 THEN Piece(str, 1, colon) ELSE str
    IN  IF special /\ ext \notin {"D", "F"} THEN Fatal
        ELSE IF colon = 0 THEN _get_macro_value(name, NoReplacement, ext, cm, active)
        ELSE IF Malformed(subst) THEN Fatal
        ELSE _get_macro_value(name, IF Find(subst, "%", 1) = 0 THEN _parse_straight_subst(subst)
                                    ELSE _parse_percent_subst(subst), ext, cm, active)

\* The name of a reference in (...) or {...} from position at.i on: the level
\* of nested pairs starts at 0, and the name ends where a closer makes it 0.
ScanName(s, at, closer, cm, active) ==
    IF at.i > Len(s) THEN Fatal
    ELSE LET c == s[at.i]
             opener == IF closer = ")" THEN "(" ELSE "{"
             plain == [at EXCEPT !.i = @ + 1, !.quoted = FALSE]
             Upto(j) == at.name \o Piece(s, at.start, j)
         IN
    CASE c = Newline -> Fatal
      [] c = "\\" -> ScanName(s, [at EXCEPT !.i = @ + 1, !.quoted = IF cm THEN @ ELSE ~@],
                              closer, cm, active)
      [] c = "$" /\ at.quoted ->
            ScanName(s, [plain EXCEPT !.name = Upto(at.i - 1), !.start = at.i], closer, cm, active)
      [] c = "$" /\ ~at.quoted ->
            LET inner == expand_macro(s, at.i + 1, cm, active) IN
            IF ~inner.ok THEN Fatal
            ELSE ScanName(s, [plain EXCEPT !.name = Upto(at.i) \o inner.out,
                                           !.start = inner.next, !.i = inner.next],
                          closer, cm, active)
      [] c = opener -> ScanName(s, [plain EXCEPT !.level = @ + 1], closer, cm, active)
      [] c = closer -> IF at.level = 1 THEN Done(Upto(at.i), at.i + 1)
                       ELSE ScanName(s, [plain EXCEPT !.level = @ - 1], closer, cm, active)
      [] OTHER -> ScanName(s, plain, closer, cm, active)

\* A reference whose "$" is before position p: a name of one character is the
\* character after the one that was looked at.
expand_macro(s, p, cm, active) ==
    IF p > Len(s) \/ s[p] = Newline THEN Fatal
    ELSE LET name == IF s[p] \in {"(", "{"}
                     THEN ScanName(s, [i |-> p + 1, start |-> p + 1, name |-> <<>>,
                                       level |-> 0, quoted |-> FALSE],
                                   IF s[p] = "(" THEN ")" ELSE "}", cm, active)
                     ELSE Done(<<IF p < Len(s) THEN s[p + 1] ELSE Nul>>, p + 1)
         IN  IF ~name.ok THEN Fatal
             ELSE [_process_macro_name(name.out, cm, active) EXCEPT !.next = name.next]

\* Wrong: the backslash that quotes a "$" is copied, too.
ScanKeep(s, at, cm, active) ==
    IF at.i > Len(s) THEN Done(at.out \o Piece(s, at.start, at.i), at.i)
    ELSE Scan(s, [at EXCEPT !.i = @ + 1], cm, active)

\* expand_value() from position at.i on; what starts at at.start is not copied yet.
Scan(s, at, cm, active) ==
    LET plain == [at EXCEPT !.i = @ + 1, !.quoted = FALSE] IN
    IF at.i > Len(s) THEN
        IF at.start > at.i THEN Fatal ELSE Done(at.out \o Piece(s, at.start, at.i), at.i)
    ELSE CASE s[at.i] = "\\" ->
            Scan(s, [at EXCEPT !.i = @ + 1, !.quoted = IF cm THEN @ ELSE ~@], cm, active)
      [] s[at.i] = "$" /\ at.quoted ->
            Scan(s, [plain EXCEPT !.out = @ \o Piece(s, at.start, at.i - 1), !.start = at.i],
                 cm, active)
      [] s[at.i] = "$" /\ ~at.quoted ->
            LET inner == expand_macro(s, at.i + 1, cm, active)
                past  == IF inner.next > Len(s) THEN inner.next ELSE inner.next + 1
            IN  IF ~inner.ok THEN Fatal
                ELSE Scan(s, [i |-> past, start |-> inner.next + 1, quoted |-> FALSE,
                              out |-> at.out \o Piece(s, at.start, at.i) \o inner.out],
                          cm, active)
      [] OTHER -> Scan(s, plain, cm, active)

expand_value(s, cm, active) ==
    IF "$" \notin Range(s) THEN Done(s, Len(s) + 1)
    ELSE IF s \in active THEN Fatal
    ELSE Scan(s, [i |-> 1, start |-> 1, quoted |-> FALSE, out |-> <<>>], cm,
              active \union {s})

-----------------------------------------------------------------------------
\* A string is typed.
Init == string = <<>> /\ cmd \in BOOLEAN
Next ==
    /\ Len(string) < MaxString
    /\ \E c \in Characters : string' = Append(string, c)
    /\ UNCHANGED cmd
Spec == Init /\ [][Next]_<<string, cmd>>

Expanded == expand_value(string, cmd, {})

\* The number of backslashes right before position i.
Backslashes(s, i) ==
    i - 1 - Max({0} \union {k \in 1..(i - 1) : s[k] # "\\"})
Quoted(s, i) == Backslashes(s, i) % 2 = 1

\* A string in which every "$" is quoted comes out as it is, without the
\* backslash before each "$" only; in a command line there is no quoting
\* (expand_value: "Quote $ in macro value").
QuotedComesOut ==
    (~cmd /\ \A i \in DOMAIN string : string[i] = "$" => Quoted(string, i)) =>
        LET kept == {i \in DOMAIN string : i = Len(string) \/ string[i + 1] # "$"}
            in(i) == Cardinality({k \in kept : k <= i})
        IN  /\ Expanded.ok
            /\ Expanded.out = [n \in 1..Cardinality(kept) |->
                                  string[CHOOSE i \in kept : in(i) = n]]

\* What a translation l=r does to a word, told without positions: the "%" of
\* l stands for any stem, and each "%" of r for the same one.
Stems(word) == {SubSeq(word, i, j) : i \in 1..(Len(word) + 1), j \in 0..Len(word)}
Fill(r, stem) == FlattenSeq([i \in DOMAIN r |-> IF r[i] = "%" THEN stem ELSE <<r[i]>>])
Meant(l, r, word) ==
    LET percent == Find(l, "%", 1)
        pattern == IF percent = 0 THEN <<"%">> \o l ELSE l
        at == IF percent = 0 THEN 1 ELSE percent
        With(stem) == Piece(pattern, 1, at) \o stem \o SubSeq(pattern, at + 1, Len(pattern))
    IN  IF \E stem \in Stems(word) : word = With(stem)
        THEN LET stem == CHOOSE st \in Stems(word) : word = With(st) IN
             IF percent = 0 THEN stem \o r ELSE Fill(r, stem)
        ELSE word

LeftHand == Piece(string, 1, Find(string, "=", 1))
RightOf == SubSeq(string, Find(string, "=", 1) + 1, Len(string))

\* A translation l=r has been typed.
IsTranslation ==
    /\ Find(string, "=", 1) # 0
    /\ Find(LeftHand, "%", 1) # 0 \/ Find(RightOf, "%", 1) = 0
    /\ Range(string) \intersect {"$", ":"} = {}

\* What X is with it: each word of its value, and the blanks between them.
MeantOfX ==
    LET p == Pieces(MacroValue[<<"X">>]) IN
    FlattenSeq([i \in DOMAIN p |->
        IF Last(p[i]) \in Blanks THEN p[i] ELSE Meant(LeftHand, RightOf, p[i])])

\* A name with a translation, once expand_macro() has it, gives every word of
\* the value what the translation means, and keeps the white space between the
\* words (_process_macro_name, _parse_straight_subst, _parse_percent_subst,
\* _replace_string).
TranslationMeant ==
    IsTranslation =>
        LET value == _process_macro_name(<<"X", ":">> \o string, cmd, {}) IN
        value.ok /\ value.out = MeantOfX

\* The reference $(X:l=r), with no other pair of () in it, ends at its own
\* parenthesis: "End of the name.  Save the string in the macro name string"
\* (expand_macro, macro.c 613-617).
ReferenceEnds ==
    IsTranslation /\ LeftHand # <<>> /\ Range(string) \intersect {"(", ")", "\\"} = {} =>
        LET value == expand_value(<<"$", "(", "X", ":">> \o string \o <<")">>, cmd, {}) IN
        value.ok /\ value.out = MeantOfX
=============================================================================
