------------------------------ MODULE MCRules ------------------------------
(* Makefiles of up to two pattern rules and some suffix rules, for TLC.     *)
EXTENDS Rules

Plain(n) == [percent |-> FALSE, name |-> n, prefix |-> <<>>, suffix |-> <<>>]
Percent(pre, suf) == [percent |-> TRUE, name |-> <<>>, prefix |-> pre, suffix |-> suf]
Pattern(pre, suf, deps, group) ==
  [prefix |-> pre, suffix |-> suf, deps |-> deps, group |-> group]
Header == <<".h">>

Patterns == {
  Pattern(<<>>, <<".o">>, <<Percent(<<>>, <<".c">>)>>, <<>>),
  Pattern(<<>>, <<".o">>, <<Percent(<<>>, <<".y">>)>>, <<>>),
  Pattern(<<>>, <<".c">>, <<Percent(<<>>, <<".y">>)>>,
          <<Percent(<<>>, <<".c">>), Percent(<<>>, <<".o">>)>>),
  Pattern(<<>>, <<".o">>, <<Percent(<<>>, <<".c">>), Plain(Header)>>, <<>>),
  Pattern(<<>>, <<>>, <<Percent(<<>>, <<".c">>)>>, <<>>),
  Pattern(<<>>, <<>>, <<Percent(<<>>, <<".o">>)>>, <<>>)}

SomeNames == {<<"a">> \o x : x \in {<<>>, <<".o">>, <<".c">>, <<".y">>}}
               \union {Header, <<"s.", "a", ".c">>}
SomeSuffixes == << <<".o">>, <<".c">>, <<".y">> >>
Pair(x, y) == <<x, y>>
SomeRules == { {Pair(<<".c">>, <<".o">>), Pair(<<".y">>, <<".c">>)},
               {Pair(<<".y">>, <<".o">>), Pair(<<".c">>, <<>>), Pair(<<".o">>, <<>>)}, {} }
NoExplicit == [n \in {} |-> 0]
Explicit == {NoExplicit,
  [n \in { <<"a">> } |-> [deps |-> << <<"a", ".o">> >>, recipe |-> TRUE]],
  [n \in { <<"a", ".o">> } |-> [deps |-> <<Header>>, recipe |-> FALSE]],
  [n \in { Header } |-> [deps |-> << <<"a", ".y">> >>, recipe |-> TRUE]]}
NoDyn == [names |-> {}, deps |-> <<>>]
Dyn == {NoDyn, [names |-> {<<"a", ".y">>}, deps |-> <<Header>>]}
Cyclic(m) == Header \in DOMAIN m.explicit /\ m.dyn # NoDyn
SomeMakefiles == {m \in
  [patterns : {s \in SeqOf(Patterns, 2) : IsInjective(s)}, suffixes : SomeRules,
   explicit : Explicit, default : BOOLEAN, dyn : Dyn] :
    ~Cyclic(m) /\ (m.default => m.explicit = NoExplicit)}
SomeDisks == SUBSET {<<"a", ".c">>, <<"a", ".y">>, Header}
               \union { {<<"s.", "a", ".c">>}, {<<"s.", "a", ".c">>, Header} }
SomeEdited == {<<"a", ".y">>, Header}
SomeGoals == { << <<"a">> >>, << <<"a", ".o">>, <<"a", ".c">> >> }
NoFailures == { {} }
=============================================================================
