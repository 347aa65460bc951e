------------------------------- MODULE Rules -------------------------------
(***************************************************************************)
(* How make finds a recipe: pattern rules, double and single suffix rules, *)
(* SCCS, .DEFAULT and dynamic targets (implicit.cc, doname.cc), for a      *)
(* serial make with -k and without .KEEP_STATE.                            *)
(*                                                                         *)
(* A file name is a sequence of parts, <<"a", ".c">> for a.c.  All that a  *)
(* process remembers is the record w that the functions hand on, the       *)
(* memory of make: a call of a C function that returns r and changes       *)
(* memory is an operator that returns [r, w].  One step is a whole make,   *)
(* or an edit of a file by the user.                                       *)
(***************************************************************************)
EXTENDS Integers, Sequences, FiniteSets, SequencesExt

CONSTANTS Names,       \* the file names
          SuffixList,    \* the list .SUFFIXES
          Makefiles,   \* what a makefile may contain
          Disks,       \* the sets of files that exist at first
          Goals,       \* the lists of goals make is called with
          Failures,    \* the sets of targets whose recipes fail in a make
          Edited,      \* the files the user edits
          MaxMakes, MaxEdits

VARIABLES makefile, disk, clock, makes, edits, last
vars == <<makefile, disk, clock, makes, edits, last>>

NoTime == -1                     \* file_no_time
FileMaxTime == 100               \* file_max_time
S(n) == <<"s.">> \o n            \* the history file of n

Later(a, b) == IF a > b THEN a ELSE b
OutOfDate(a, b) == a < b \/ (a = 0 /\ b = 0)

Line == [has |-> FALSE, deps |-> <<>>, cmd |-> <<>>, ood |-> FALSE, dtime |-> 0,
         group |-> {}]
LineOf(w, n) == w.line[w.own[n]]
Answer(r, w) == [r |-> r, w |-> w]
Found(r, w, cmd) == [r |-> r, w |-> w, cmd |-> cmd]

\* A call, and what is done with its answer.
Then(answer, next(_)) == next(answer)

-----------------------------------------------------------------------------
(* The memory of make. *)

exists(n, w) ==
  IF w.time[n] # NoTime THEN w
  ELSE [w EXCEPT !.time[n] = w.disk[n],
                 !.isfile = IF w.disk[n] > 0 THEN @ \union {n} ELSE @]

\* read_dir(): what is in the directory, and what has a history file, is a file.
read_directory(w) ==
  IF w.listed THEN w
  ELSE [w EXCEPT !.listed = TRUE,
                 !.isfile = @ \union {n \in Names : w.disk[n] > 0
                                        \/ (S(n) \in Names /\ w.disk[S(n)] > 0)}]

enter_dependency(w, n, d) ==
  LET new == d \notin Range(LineOf(w, n).deps)
  IN  [w EXCEPT !.line[w.own[n]] = [@ EXCEPT !.has = TRUE,
                                             !.deps = IF new THEN Append(@, d) ELSE @],
                !.isfile = IF new THEN @ \union {d} ELSE @]
EnterAll(w, n, ds) == FoldLeft(LAMBDA v, d : enter_dependency(v, n, d), w, ds)

\* What the target depends on makes it out of date.
Consider(w, n, d) ==
  LET u == exists(n, exists(d, w))
  IN  [u EXCEPT !.line[u.own[n]].dtime = Later(@, u.time[d])]
Mark(w, n, old) == [w EXCEPT !.line[w.own[n]].ood = @ \/ old]

\* Whether the recipe found for t is due.
Due(w, t) == OutOfDate(w.time[t], LineOf(w, t).dtime)

-----------------------------------------------------------------------------
(* Patterns. *)

Fill(p, stem) == p.prefix \o stem \o p.suffix
Matches(p, n) ==
  /\ Len(p.prefix) + Len(p.suffix) <= Len(n)
  /\ IsPrefix(p.prefix, n)
  /\ IsSuffix(p.suffix, n)
Stem(p, n) == SubSeq(n, Len(p.prefix) + 1, Len(n) - Len(p.suffix))
Need(d, stem) == IF d.percent THEN Fill(d, stem) ELSE d.name
Needs(p, stem) == [k \in DOMAIN p.deps |-> Need(p.deps[k], stem)]

\* enter_explicit_rule_from_dynamic_rule() for the target a dynamic rule names
find_dyntarget(t, w) ==
  IF t \notin makefile.dyn.names THEN w
  ELSE LET v == [w EXCEPT !.line[w.own[t]] =
                   [@ EXCEPT !.has = TRUE, !.cmd = IF @ = <<>> THEN <<"dynamic">> ELSE @]]
       IN  IF LineOf(w, t).cmd = <<>> THEN EnterAll(v, t, makefile.dyn.deps) ELSE v

create_target_group_and_dependencies_list(t, p, stem, w) ==
  LET v == EnterAll(w, t, Needs(p, stem))
      group == {Fill(p.group[k], stem) : k \in DOMAIN p.group}
  IN  [v EXCEPT !.line[v.own[t]] = [@ EXCEPT !.has = TRUE, !.group = group],
                !.own = [n \in Names |-> IF n \in group THEN v.own[t] ELSE @[n]]]

-----------------------------------------------------------------------------
RECURSIVE doname(_, _, _), doname_check(_, _, _), target_can_be_built(_, _),
          CheckFrom(_, _, _, _), TryNeeds(_, _, _, _), TryRules(_, _, _),
          BuildFrom(_, _, _, _, _), TrySources(_, _, _, _, _, _), TrySuffixes(_, _, _, _, _)

(* check_dependencies(): every dependency is made, and compared. *)
CheckFrom(t, k, r, w) ==
  IF k > Len(LineOf(w, t).deps)
  THEN Found(r, IF LineOf(w, t).cmd = <<>> THEN w ELSE Mark(w, t, Due(w, t)),
             LineOf(w, t).cmd # <<>>)
  ELSE LET d == LineOf(w, t).deps[k]
       IN  Then(IF w.state[d] = "failed" THEN Answer("failed", w)
                ELSE doname_check(d, FALSE, w),
                LAMBDA a : CheckFrom(t, k + 1, IF a.r = "failed" THEN "failed" ELSE r,
                                     Consider(a.w, t, d)))
check_dependencies(t, r, w) ==
  CheckFrom(t, 1, r, [w EXCEPT !.line[w.own[t]].dtime = 0, !.line[w.own[t]].ood = FALSE])

(* find_percent_rule(): s.w is the memory, s.r the last answer, s.stem the *)
(* part the last pattern matched with, s.maybe and s.candidate the rule to  *)
(* fall back on. *)
\* Wrong: a rule that did not fit stays marked as being expanded.
TryNeedsKept(t, i, k, s) ==
  LET d == makefile.patterns[i].deps[k]
      n == Need(d, s.stem)
      v == [s.w EXCEPT !.expanding = @ \union {i}]
      a == IF n \notin Names THEN Answer("dont_know", v)
           ELSE IF n \in Range(LineOf(v, t).deps) THEN Answer(v.state[n], v)
           ELSE IF v.actual THEN doname(n, TRUE, v)
           ELSE target_can_be_built(n, v)
      u == [s EXCEPT !.r = a.r, !.w = a.w, !.maybe = @ /\ (a.r = "ok" \/ ~d.percent)]
  IN  IF k > Len(makefile.patterns[i].deps) THEN s
      ELSE IF a.r = "ok" THEN TryNeeds(t, i, k + 1, u) ELSE u

TryNeeds(t, i, k, s) ==
  IF k > Len(makefile.patterns[i].deps) THEN s
  ELSE LET d == makefile.patterns[i].deps[k]
           n == Need(d, s.stem)
           v == [s.w EXCEPT !.expanding = @ \union {i}]
       IN  Then(IF n \notin Names THEN Answer("dont_know", v)
                ELSE IF n \in Range(LineOf(v, t).deps) THEN Answer(v.state[n], v)
                ELSE IF v.actual THEN doname(n, TRUE, v)
                ELSE target_can_be_built(n, v),
                LAMBDA a :
                  LET u == [s EXCEPT !.r = a.r, !.w = a.w,
                                     !.maybe = @ /\ (a.r = "ok" \/ ~d.percent)]
                  IN  IF a.r = "ok" THEN TryNeeds(t, i, k + 1, u)
                      ELSE [u EXCEPT !.w.expanding = @ \ {i}])

TryRules(t, i, s) ==
  IF i > Len(makefile.patterns) THEN s
  ELSE IF i \in s.w.expanding \/ ~Matches(makefile.patterns[i], t)
  THEN TryRules(t, i + 1, s)
  ELSE Then(TryNeeds(t, i, 1, [s EXCEPT !.stem = Stem(makefile.patterns[i], t),
                                        !.maybe = TRUE, !.r = "ok"]),
            LAMBDA u :
              IF u.r = "ok" THEN [u EXCEPT !.chosen = i]
              ELSE TryRules(t, i + 1, [u EXCEPT !.candidate = IF u.maybe /\ @ = 0 THEN i ELSE @]))

\* Wrong: the dependencies are built, and not compared with the target.
BuildFromBlind(t, i, k, r, w) ==
  LET d == LineOf(w, t).deps[k]
      a == IF d \notin Names THEN Answer("failed", [w EXCEPT !.seen = TRUE])
           ELSE doname_check(d, TRUE, [w EXCEPT !.actual = TRUE])
      v == [a.w EXCEPT !.actual = FALSE]
  IN  IF k > Len(LineOf(w, t).deps) THEN Answer(r, w)
      ELSE IF a.r = "failed" THEN Answer("failed", v)
      ELSE BuildFrom(t, i, k + 1, a.r,
             Mark(v, t, OutOfDate(exists(t, v).time[t], 0)))

\* The dependencies of the target are built, those of the rule among them.
BuildFrom(t, i, k, r, w) ==
  IF k > Len(LineOf(w, t).deps) THEN Answer(r, w)
  ELSE LET d == LineOf(w, t).deps[k]
       IN  Then(IF d \notin Names THEN Answer("failed", [w EXCEPT !.seen = TRUE])
                ELSE doname_check(d, TRUE, [w EXCEPT !.actual = TRUE]),
                LAMBDA a :
                  LET v == [a.w EXCEPT !.actual = FALSE]
                  IN  IF a.r = "failed" THEN Answer("failed", v)
                      ELSE BuildFrom(t, i, k + 1, a.r,
                             Mark(Consider(v, t, d), t,
                                  OutOfDate(exists(t, v).time[t], exists(d, v).time[d]))))

\* `building' is false when find_percent_rule() is only asked.
find_percent_rule(t, building, w) ==
  Then(TryRules(t, 1, [r |-> "dont_know", w |-> w, stem |-> <<>>, maybe |-> FALSE,
                       candidate |-> 0, chosen |-> 0]),
       LAMBDA s :
         LET i == IF s.chosen # 0 THEN s.chosen ELSE s.candidate
             v == create_target_group_and_dependencies_list(t, makefile.patterns[i], s.stem, s.w)
         IN  IF i = 0 THEN Found("dont_know", s.w, FALSE)
             ELSE IF ~building THEN Found(s.r, [s.w EXCEPT !.expanding = @ \ {i}], FALSE)
             ELSE Then(BuildFrom(t, i, 1, s.r, [v EXCEPT !.colons = @ \union {t}]),
                       LAMBDA b :
                         LET done == [b.w EXCEPT !.expanding = @ \ {i}]
                         IN  Found(b.r, IF b.r = "failed" THEN done
                                        ELSE [done EXCEPT !.line[done.own[t]].cmd = <<"pattern", i>>],
                                   TRUE)))

(* find_suffix_rule(): the first source that is a file, in the order of    *)
(* .SUFFIXES, among those with a rule. *)
TrySources(t, body, tsuf, sources, building, x) ==
  IF sources = <<>> THEN [x EXCEPT !.r = "dont_know"]
  ELSE IF body \o Head(sources) \notin x.w.isfile
  THEN TrySources(t, body, tsuf, Tail(sources), building, x)
  ELSE LET src == body \o Head(sources)
           w == x.w
           rule == <<"suffix", Head(sources), tsuf>>
           Skips(a) == IF building THEN a.r = "dont_know" ELSE a.r # "ok"
       IN  Then(IF ~building THEN target_can_be_built(src, w)
                ELSE IF src \in Range(LineOf(w, t).deps) THEN Answer(w.state[src], w)
                ELSE doname(src, TRUE, w),
                LAMBDA a :
                  LET v == Consider(enter_dependency(exists(src, a.w), t, src), t, src)
                  IN  IF Skips(a)
                      THEN TrySources(t, body, tsuf, Tail(sources), building, [x EXCEPT !.w = a.w])
                      ELSE IF ~building \/ a.r = "failed" THEN [x EXCEPT !.r = a.r, !.w = a.w]
                      ELSE Found("ok", [Mark(v, t, Due(v, t)) EXCEPT
                                          !.line[v.own[t]].cmd = IF @ = <<>> THEN rule ELSE @],
                                 TRUE))

SourcesFor(tsuf) == SelectSeq(SuffixList, LAMBDA s : <<s, tsuf>> \in makefile.suffixes)
find_suffix_rule(t, body, tsuf, building, x) ==
  IF building /\ t \in x.w.scanned /\ ~x.cmd THEN [x EXCEPT !.r = "ok"]
  ELSE TrySources(t, body, tsuf, SourcesFor(tsuf), building,
                  [x EXCEPT !.w = read_directory([@ EXCEPT !.scanned = @ \union {t}])])

TrySuffixes(t, suffixes, building, once, x) ==
  IF suffixes = <<>>
  THEN [x EXCEPT !.r = "dont_know", !.w.scanned = IF once THEN @ \union {t} ELSE @]
  ELSE LET suf == Head(suffixes)
           u == [x EXCEPT !.w.scanned = @ \ {t}]
       IN  IF ~IsSuffix(suf, t) THEN TrySuffixes(t, Tail(suffixes), building, once, u)
           ELSE Then(find_suffix_rule(t, SubSeq(t, 1, Len(t) - Len(suf)), suf, building, u),
                     LAMBDA a :
                       IF a.r = "ok" THEN a
                       ELSE TrySuffixes(t, Tail(suffixes), building, once \/ t \in a.w.scanned, a))
find_double_suffix_rule(t, building, x) == TrySuffixes(t, SuffixList, building, FALSE, x)

HasSccs(t, w) == S(t) \in Names /\ read_directory(w).disk[S(t)] > 0

\* Wrong: the file is got again although it is newer than its history.
sccs_getAgain(t, building, x) ==
  LET w == read_directory(x.w)
  IN  IF ~HasSccs(t, w)
      THEN [x EXCEPT !.w = w, !.r = IF w.time[t] > 0 THEN "ok" ELSE "dont_know"]
      ELSE IF ~building THEN [x EXCEPT !.w = w, !.r = "ok"]
      ELSE Found("ok", [w EXCEPT !.line[w.own[t]] =
                          [@ EXCEPT !.has = TRUE, !.ood = TRUE, !.cmd = <<"sccs">>]], TRUE)

\* Wrong: when it is only asked it says that every file can be got.
sccs_getSure(t, building, x) ==
  LET w == read_directory(x.w)
      young == w.disk[S(t)] > w.time[t]
  IN  IF ~building THEN [x EXCEPT !.w = w, !.r = "ok"]
      ELSE IF ~HasSccs(t, w)
      THEN [x EXCEPT !.w = w, !.r = IF w.time[t] > 0 THEN "ok" ELSE "dont_know"]
      ELSE Found("ok", [w EXCEPT !.line[w.own[t]] =
                          [@ EXCEPT !.has = TRUE, !.ood = @ \/ young, !.cmd = <<"sccs">>]], TRUE)

\* A target with no history file is all right if it exists.
sccs_get(t, building, x) ==
  LET w == read_directory(x.w)
      young == w.disk[S(t)] > w.time[t]
  IN  IF ~HasSccs(t, w)
      THEN [x EXCEPT !.w = w, !.r = IF w.time[t] > 0 THEN "ok" ELSE "dont_know"]
      ELSE IF ~building THEN [x EXCEPT !.w = w, !.r = "ok"]
      ELSE Found("ok", [w EXCEPT !.line[w.own[t]] =
                          [@ EXCEPT !.has = TRUE, !.ood = @ \/ young, !.cmd = <<"sccs">>]], TRUE)

(* Whether t can be built, without building anything; x threads through    *)
(* the ways to build it until one answers. *)
target_can_be_built(t, w0) ==
  LET w == exists(t, w0)
      Or(x, next(_)) == IF x.r = "dont_know" THEN next(x) ELSE x
      There(x) == [x EXCEPT !.r = IF w.time[t] # 0 \/ LineOf(w, t).cmd # <<>>
                                  THEN "ok" ELSE @]
      Percent(x) == find_percent_rule(t, FALSE, x.w)
      Double(x) == find_double_suffix_rule(t, FALSE, x)
      Single(x) == IF x.w.second THEN find_suffix_rule(t, t, <<>>, FALSE, x) ELSE x
      Sccs(x) == sccs_get(t, FALSE, x)
      Dynamic(x) == LET v == find_dyntarget(t, x.w)
                    IN  IF t \in makefile.dyn.names THEN Found("ok", v, FALSE) ELSE x
      Mentioned(x) == IF t \in x.w.colons THEN [x EXCEPT !.r = "ok"] ELSE x
  IN  Then(Or(Or(Or(Or(Or(Or(There(Found("dont_know", w, FALSE)), Percent),
                          Double), Single), Sccs), Dynamic), Mentioned),
           LAMBDA x : Answer(x.r, x.w))

-----------------------------------------------------------------------------
(* The recipe is external: it writes the target and the members of its     *)
(* group, or fails. *)
run_command(t, w) ==
  LET l == LineOf(w, t)
      written == {t} \union l.group
      now == w.clock + 1
      v == [w EXCEPT !.disk = [n \in Names |-> IF n \in written THEN now ELSE @[n]],
                     !.clock = now, !.ran = Append(@, t),
                     !.time[t] = NoTime]
      u == exists(t, v)                                       \* update_target()
      m == [u EXCEPT !.time = [n \in Names |-> IF n \in l.group THEN u.time[t] ELSE @[n]]]
  IN  IF ~l.ood THEN Answer("ok", w)
      ELSE IF t \in w.fails THEN Answer("failed", w)
      ELSE Answer("ok", m)

WithTime(a, t) ==
  IF a.r = "ok" /\ a.w.time[t] = 0 THEN [a EXCEPT !.w.time[t] = FileMaxTime] ELSE a

\* The end of doname(): the recipe, a dynamic target, or nothing to do.
Run(t, x) ==
  IF x.cmd /\ LineOf(x.w, t).cmd # <<>>
  THEN IF x.r = "failed" THEN Answer("failed", x.w)
       ELSE WithTime(run_command(t, [x.w EXCEPT !.used[t] = LineOf(x.w, t).cmd]), t)
  ELSE LET m == IF t \in x.w.colons THEN WithTime(Answer("ok", x.w), t) ELSE Answer(x.r, x.w)
           e == exists(t, m.w)
       IN  IF t \in makefile.dyn.names
           THEN Then(check_dependencies(t, m.r, find_dyntarget(t, m.w)),
                     LAMBDA d :
                       IF d.r = "failed" THEN Answer("failed", d.w)
                       ELSE WithTime(run_command(t, [d.w EXCEPT !.used[t] = LineOf(d.w, t).cmd]), t))
           ELSE Answer(IF e.time[t] # 0 /\ m.r = "dont_know" THEN "ok" ELSE m.r, e)

Default(t, w) ==
  [w EXCEPT !.line[w.own[t]] = [@ EXCEPT !.has = TRUE, !.cmd = <<"default">>,
                                         !.ood = @ \/ Due(w, t)]]

\* The ways to find a rule, in their order; what fails in a suffix rule with two
\* suffixes is forgotten.
Search(t, implicit, x0) ==
  LET Regular == t \in DOMAIN makefile.explicit /\ makefile.explicit[t].deps # <<>>
      Percent(x) == IF x.r = "dont_know" /\ ~x.cmd THEN find_percent_rule(t, TRUE, x.w) ELSE x
      Double(x) == IF x.r = "dont_know"
                   THEN [find_double_suffix_rule(t, TRUE, x) EXCEPT !.r = "dont_know"] ELSE x
      Single(x) == IF x.r = "dont_know" /\ (~implicit \/ x.w.second) /\ ~Regular
                   THEN [find_suffix_rule(t, t, <<>>, TRUE, x) EXCEPT
                           !.r = IF @ = "failed" THEN @ ELSE "dont_know"] ELSE x
      Sccs(x) == IF x.r = "dont_know" /\ ~x.cmd THEN sccs_get(t, TRUE, x) ELSE x
      Otherwise(x) ==
        IF ~x.cmd /\ x.r = "dont_know" /\ t \notin x.w.colons /\ makefile.default /\ ~implicit
        THEN Found(x.r, Default(t, x.w), TRUE) ELSE x
  IN  Otherwise(Sccs(Single(Double(Percent(x0)))))

doname(t, implicit, w0) ==
  LET w == exists(t, w0)
      begun == [w EXCEPT !.state[t] = "in_progress"]
      x == IF LineOf(w, t).has THEN check_dependencies(t, "dont_know", begun)
           ELSE Found("dont_know", begun, FALSE)
  IN  IF w.state[t] \in {"ok", "in_progress"} THEN Answer("ok", w)
      ELSE Then(Run(t, Search(t, implicit, x)), LAMBDA a : [a EXCEPT !.w.state[t] = a.r])

\* An unknown target is tried a second time, with single suffix rules.
doname_check(t, implicit, w) ==
  Then(doname(t, implicit, w),
       LAMBDA a : Then(IF a.r = "dont_know"
                       THEN doname(t, implicit, [a.w EXCEPT !.second = TRUE]) ELSE a,
         LAMBDA b :
           LET bad == b.r # "ok"
           IN  Answer(IF bad THEN "failed" ELSE "ok",
                 [b.w EXCEPT !.second = FALSE, !.seen = @ \/ bad,
                             !.unknown = IF b.r = "dont_know" THEN @ \union {t} ELSE @])))

-----------------------------------------------------------------------------
\* What a process knows when it has read the makefile.
Mentioned(n) == n \in DOMAIN makefile.explicit
Entered(n) ==
  IF ~Mentioned(n) THEN Line
  ELSE [Line EXCEPT !.has = TRUE, !.deps = makefile.explicit[n].deps,
                    !.cmd = IF makefile.explicit[n].recipe THEN <<"explicit">> ELSE <<>>]
Memory(fails) ==
  [time |-> [n \in Names |-> NoTime], state |-> [n \in Names |-> "dont_know"],
   line |-> [n \in Names |-> Entered(n)], own |-> [n \in Names |-> n],
   isfile |-> UNION {Range(Entered(n).deps) : n \in Names},
   listed |-> FALSE, colons |-> DOMAIN makefile.explicit, expanding |-> {}, scanned |-> {},
   actual |-> FALSE, second |-> FALSE, seen |-> FALSE, unknown |-> {},
   disk |-> disk, clock |-> clock, ran |-> <<>>, used |-> [n \in Names |-> <<>>],
   fails |-> fails]

\* make_targets(): the goals one after the other
MakeTargets(goals, fails) ==
  FoldLeft(LAMBDA w, g : [doname_check(g, FALSE, w).w EXCEPT !.time[g] = NoTime],
           Memory(fails), goals)

NoMake == [goals |-> <<>>, before |-> [n \in {} |-> 0], memory |-> [n \in {} |-> 0],
           again |-> FALSE]
Init ==
  /\ makefile \in Makefiles
  /\ \E there \in Disks : disk = [n \in Names |-> IF n \in there THEN 1 ELSE 0]
  /\ clock = 1 /\ makes = 0 /\ edits = 0
  /\ last = NoMake

Make(goals, fails) ==
  /\ makes < MaxMakes
  /\ makes' = makes + 1
  /\ \E w \in {MakeTargets(goals, fails)} :
       /\ disk' = w.disk /\ clock' = w.clock
       /\ last' = [goals |-> goals, before |-> disk, memory |-> w,
                   again |-> /\ last.goals = goals
                             /\ disk = last.memory.disk /\ ~last.memory.seen]
  /\ UNCHANGED <<makefile, edits>>

\* The user writes a file again between two makes.
Edit(n) ==
  /\ makes > 0 /\ edits < MaxEdits /\ edits' = edits + 1
  /\ disk[n] > 0
  /\ disk' = [disk EXCEPT ![n] = clock + 1]
  /\ clock' = clock + 1
  /\ UNCHANGED <<makefile, makes, last>>

Next ==
  \/ \E goals \in Goals, fails \in Failures : Make(goals, fails)
  \/ \E n \in Edited : Edit(n)
Spec == Init /\ [][Next]_vars

-----------------------------------------------------------------------------
Made == last.goals # <<>>
Goal == last.goals[1]

\* Without any order or memory: n exists, or there is a way to make it that
\* uses no pattern rule of the set busy, nor one of its own twice.
RECURSIVE Buildable(_, _)
BySuffix(n) ==
  \E suf \in {u \in Range(SuffixList) : IsSuffix(u, n)}, src \in Range(SuffixList) :
    /\ <<src, suf>> \in makefile.suffixes
    /\ LET file == SubSeq(n, 1, Len(n) - Len(suf)) \o src
       IN  file \in Names /\ (last.before[file] > 0 \/ (S(file) \in Names /\ last.before[S(file)] > 0))
ByRule(n, i, busy) ==
  /\ Matches(makefile.patterns[i], n)
  /\ \A d \in Range(Needs(makefile.patterns[i], Stem(makefile.patterns[i], n))) :
       Buildable(d, busy \union {i})
Buildable(n, busy) ==
  /\ n \in Names
  /\ \/ last.before[n] > 0
     \/ Mentioned(n)
     \/ n \in makefile.dyn.names
     \/ S(n) \in Names /\ last.before[S(n)] > 0
     \/ BySuffix(n)
     \/ \E i \in DOMAIN makefile.patterns \ busy : ByRule(n, i, busy)
Fitting(n) == {i \in DOMAIN makefile.patterns : ByRule(n, i, {})}

(* The first pattern rule all of whose dependencies exist or can be built   *)
(* is the one that is used for a goal without a rule of its own             *)
(* (find_percent_rule()), whatever was tried, built and forgotten on the    *)
(* way to it. *)
FirstRule ==
  Made /\ ~makefile.default /\ Fitting(Goal) # {} /\ last.memory.used[Goal] \notin {<<>>, <<"explicit">>} =>
    last.memory.used[Goal] =
      <<"pattern", CHOOSE i \in Fitting(Goal) : \A j \in Fitting(Goal) : i <= j>>

(* Goals that a chain of rules leads to are made: nothing on the way turns  *)
(* out not to be known after the rules were chosen (target_can_be_built()   *)
(* foretells what doname() does), as long as the dependencies that no stem  *)
(* is put into, of explicit, dynamic and pattern rules, can be made. *)
Followed ==
  /\ \A n \in DOMAIN makefile.explicit, d \in Names :
       d \in Range(makefile.explicit[n].deps) => Buildable(d, {})
  /\ makefile.dyn.names # {} => \A d \in Range(makefile.dyn.deps) : Buildable(d, {})
  /\ \A i \in DOMAIN makefile.patterns : \A d \in Range(makefile.patterns[i].deps) :
       d.percent \/ Buildable(d.name, {})
Foretold ==
  /\ Made /\ last.memory.fails = {} /\ Followed
  /\ \A k \in DOMAIN last.goals : Fitting(last.goals[k]) # {}
  => last.memory.unknown = {}

(* A make that follows one that went well, with nothing edited in between,  *)
(* has nothing to do: the rules found the second time are satisfied by what *)
(* the first ones left behind.  (With suffix rules this is not so: a file   *)
(* made for one goal makes a suffix rule fit that did not fit before;       *)
(* .DEFAULT makes files that pattern rules did not count on; and a target   *)
(* that no recipe writes has always just changed.)                          *)
Satisfied ==
  Made /\ FileMaxTime \notin Range(last.memory.time) /\ last.again /\ ~makefile.default /\ makefile.suffixes = {} =>
    last.memory.ran = <<>>

(* After a make in which nothing failed, what was made by a rule is not     *)
(* older than what that rule made it from. *)
Newer ==
  Made /\ ~last.memory.seen => \A n \in Names : last.memory.state[n] = "ok" /\ last.memory.used[n] # <<>> =>
    \A d \in Range(LineOf(last.memory, n).deps) \cap Names :
      last.memory.disk[d] <= last.memory.disk[n]

(* "If no command was found for the target, and it doesn't exist, and it is *)
(* mentioned as a target in the makefile, we say it is extremely new and    *)
(* that it is OK" (doname.cc 871-873): no other target is said to be so. *)
MentionedIsNew ==
  Made => \A n \in Names \ DOMAIN makefile.explicit :
            last.memory.time[n] = FileMaxTime => last.memory.used[n] # <<>>
=============================================================================
