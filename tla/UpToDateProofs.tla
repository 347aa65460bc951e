--------------------------- MODULE UpToDateProofs ---------------------------
(***************************************************************************)
(* When JobScheduler ends, no target with a recipe that was made is older  *)
(* than a dependency of its own, whatever was built at a time and however  *)
(* often a report of hidden dependencies sent make back to a target.       *)
(***************************************************************************)
EXTENDS RefinementProofs

\* The targets make can make, or finds: doname() never answers "don't know".
Sure == {t \in Target : \/ t \in Rule \cup Listed
                        \/ \A times \in Times : times[t] > 0}

\* A recipe reports no file that make can neither make nor find, and one that
\* does not touch its target has no dependencies.
Dutiful ==
    /\ \A t \in Target : Reports[t] \subseteq Sure
    /\ \A t \in Target \cap Phony :
         Reports[t] = {} /\ \A m \in Makefiles : DOMAIN m[t] = {}

\* The dependencies that count; all of ds, or those of the makefile, are in S.
Live(d)       == d.name /= Wait /\ ~d.stale
LiveIn(ds, S) == \A j \in DOMAIN ds : Live(ds[j]) => ds[j].name \in S
ToldIn(ds, S) == \A j \in DOMAIN ds : Live(ds[j]) /\ ~ds[j].auto => ds[j].name \in S

\* The targets that are made and not newer than time.
Aged(time) == {d \in Made : mtime[d] <= time \/ mtime[d] = file_max_time}

\* What t's recipe reports and A has, t depends on already.
Known(t, A) == \A d \in A \cap Reports[t] : \E j \in DOMAIN deps[t] :
    deps[t][j].name = d /\ deps[t][j].auto /\ ~deps[t][j].stale

TargetGood(u) ==
    /\ mtime[u] <= clock \/ mtime[u] = file_max_time
    /\ u \in Rule \ Phony => mtime[u] <= clock
    /\ u \in Phony => DOMAIN deps[u] = {}
    /\ u \in Sure \ (Rule \cup Listed) => mtime[u] \in 1..StartTime
    /\ u \in Rule /\ state[u] = "ok" => LiveIn(deps[u], Aged(mtime[u]))
    /\ u \in Rule /\ rechecking[u] => ToldIn(deps[u], Aged(mtime[u]))

\* What check_dependencies() of f has behind it is not newer than its
\* dependency_time, unless it has seen a target that runs or that failed.
Passed(f, d) == \/ f.running \/ f.result = "failed"
                \/ d.name \in Aged(f.dtime)
                \/ ~d.auto /\ (f.recheck \/ rechecking[f.target])
FrameGood(f) ==
    /\ \A j \in DOMAIN deps[f.target] :
         j < f.i /\ Live(deps[f.target][j]) => Passed(f, deps[f.target][j])
    /\ Known(f.target, f.autos)
    /\ f.recheck /\ f.target \in Rule =>
         ToldIn(deps[f.target], Aged(mtime[f.target]))

\* A job was started when all its target needs was made, and ended later.
EntryGood(e) == Active(e) =>
    /\ e.target \in Rule
    /\ LiveIn(deps[e.target], Made)
    /\ Known(e.target, e.autos)
    /\ e.exit = "ok" => /\ e.time <= clock
                        /\ LiveIn(deps[e.target], Aged(e.time))
                        /\ e.target \notin Phony => e.time > 0
    /\ e.st = "ok" => e.exit = "ok"

GoodInv ==
    /\ StartTime <= clock
    /\ \A u \in Target : TargetGood(u)
    /\ \A k \in Making : FrameGood(stack[k])
    /\ \A i \in DOMAIN running_list : EntryGood(running_list[i])

\* run_command() is reached when all the target needs is made.
WorkInv == TopIsMade /\ pc /= "deps" =>
    Top.target \in Rule /\ LiveIn(deps[Top.target], Made)

\* A hidden dependency that make can make is not given up: it was asked for,
\* and the answer was not "don't know".
Called(d)  == \E k \in DOMAIN stack : stack[k].target = d
Visited(d) == state[d] /= "dont_know" \/ Called(d)
VisitInv == \A t \in Target : state[t] /= "dont_know" =>
    \A j \in DOMAIN deps[t] :
       deps[t][j].auto /\ deps[t][j].built /\ deps[t][j].name \in Sure =>
         Visited(deps[t][j].name)
AnswerSure == pc = "check" /\ Top.result = "dont_know" => Top.target \notin Sure

FreshInv == GoodInv /\ WorkInv /\ VisitInv /\ AnswerSure
-----------------------------------------------------------------------------
(* What a step leaves alone *)

\* The dependencies of u are the same; some may count no more, but no hidden
\* one that the recipe reports.
Shrinks(u) ==
    /\ DOMAIN deps'[u] = DOMAIN deps[u]
    /\ \A j \in DOMAIN deps[u] :
         /\ deps'[u][j].name = deps[u][j].name
         /\ deps'[u][j].auto = deps[u][j].auto
         /\ deps[u][j].stale => deps'[u][j].stale
         /\ deps'[u][j].stale => \/ deps[u][j].stale \/ ~deps[u][j].auto
                                 \/ deps[u][j].name \notin Reports[u]

\* make does nothing to u, or asks again for the time of a goal without a file.
SameTime(u) == mtime'[u] = mtime[u] \/ (mtime[u] = file_max_time /\ mtime'[u] = 0)
Kept(u) == /\ Shrinks(u) /\ SameTime(u)
           /\ rechecking'[u] = rechecking[u]
           /\ state'[u] = "ok" => state[u] = "ok"

\* A target that is made stays made, and gets no newer.
Steady == \A d \in Target : state[d] = "ok" => state'[d] = "ok" /\ SameTime(d)

LEMMA ShrinksSame ==
  ASSUME NEW u, deps'[u] = deps[u]
  PROVE  Shrinks(u)
BY DEF Shrinks

LEMMA AgedStays ==
  ASSUME TypeOK, Steady, NEW time \in Nat
  PROVE  Aged(time) \subseteq Aged(time)' /\ Made \subseteq Made'
<1>1. Made \subseteq Made'
  BY DEF Made, Steady
<1>2. ASSUME NEW d \in Aged(time) PROVE d \in Aged(time)'
  <2>1. d \in Target /\ state[d] = "ok" /\ (mtime[d] <= time \/ mtime[d] = file_max_time)
    BY DEF Aged, Made
  <2>2. SameTime(d)
    BY <2>1 DEF Steady
  <2>3. mtime'[d] <= time \/ mtime'[d] = file_max_time
    BY <2>1, <2>2 DEF SameTime
  <2>. QED  BY <1>1, <2>1, <2>3 DEF Aged, Made
<1>. QED  BY <1>1, <1>2

LEMMA AgedUp ==
  ASSUME TypeOK, NEW s \in Nat, NEW t \in Nat, s <= t
  PROVE  Aged(s) \subseteq Aged(t)
BY DEF Aged, Made, TypeOK

\* Nothing that is made is newer than the clock.
LEMMA MadeIsAged ==
  ASSUME TypeOK, GoodInv, NEW t \in Nat, clock <= t
  PROVE  Made \subseteq Aged(t)
<1>. SUFFICES ASSUME NEW d \in Made PROVE d \in Aged(t)
  OBVIOUS
<1>1. d \in Target /\ (mtime[d] <= clock \/ mtime[d] = file_max_time)
  BY DEF Made, GoodInv, TargetGood
<1>2. mtime[d] \in Nat /\ clock \in Nat
  BY <1>1 DEF TypeOK
<1>. QED  BY <1>1, <1>2 DEF Aged

LEMMA LiveStays ==
  ASSUME NEW u, Shrinks(u), NEW S, NEW T, S \subseteq T
  PROVE  /\ LiveIn(deps[u], S) => LiveIn(deps'[u], T)
         /\ ToldIn(deps[u], S) => ToldIn(deps'[u], T)
BY DEF Shrinks, LiveIn, ToldIn, Live

LEMMA KnownStays ==
  ASSUME NEW u, Shrinks(u), NEW A, Known(u, A)
  PROVE  Known(u, A)'
<1>. SUFFICES ASSUME NEW d \in A \cap Reports[u]
              PROVE  \E j \in DOMAIN deps'[u] :
                        deps'[u][j].name = d /\ deps'[u][j].auto /\ ~deps'[u][j].stale
  BY DEF Known
<1>1. PICK j \in DOMAIN deps[u] : deps[u][j].name = d /\ deps[u][j].auto /\ ~deps[u][j].stale
  BY DEF Known
<1>. QED  BY <1>1 DEF Shrinks

LEMMA TargetKept ==
  ASSUME TypeOK, TypeOK', Steady, NEW u \in Target, Kept(u), TargetGood(u),
         StartTime <= clock, clock <= clock', clock < file_max_time
  PROVE  TargetGood(u)'
<1>. USE GraphAssumption, OptionAssumption
<1>1. mtime[u] \in Nat /\ mtime'[u] \in Nat /\ clock \in Nat /\ clock' \in Nat
      /\ StartTime \in Nat /\ file_max_time \in Nat
  BY DEF TypeOK
<1>2. SameTime(u) /\ Shrinks(u)
  BY DEF Kept
<1>3. /\ mtime'[u] <= clock' \/ mtime'[u] = file_max_time
      /\ u \in Rule \ Phony => mtime'[u] <= clock'
      /\ u \in Sure \ (Rule \cup Listed) => mtime'[u] \in 1..StartTime
  BY <1>1, <1>2 DEF SameTime, TargetGood
<1>4. u \in Phony => DOMAIN deps'[u] = {}
  BY <1>2 DEF Shrinks, TargetGood
<1>5. CASE mtime'[u] = mtime[u]
  <2>1. PICK m \in Nat : m = mtime[u] /\ m = mtime'[u]
    BY <1>1, <1>5
  <2>2. Aged(m) \subseteq Aged(m)'
    BY AgedStays
  <2>3. /\ u \in Rule /\ state'[u] = "ok" => LiveIn(deps'[u], Aged(m)')
        /\ u \in Rule /\ rechecking'[u] => ToldIn(deps'[u], Aged(m)')
    BY <1>2, <2>1, <2>2, LiveStays DEF TargetGood, Kept
  <2>. QED  BY <1>3, <1>4, <2>1, <2>3 DEF TargetGood
<1>6. CASE mtime[u] = file_max_time
  <2>1. u \in Rule => DOMAIN deps'[u] = {}
    BY <1>1, <1>4, <1>6 DEF TargetGood
  <2>. QED  BY <1>3, <1>4, <2>1 DEF TargetGood, LiveIn, ToldIn
<1>. QED  BY <1>2, <1>5, <1>6 DEF SameTime

LEMMA FrameKept ==
  ASSUME TypeOK, TypeOK', Steady, NEW f \in Frame, Kept(f.target), FrameGood(f),
         TargetGood(f.target), clock < file_max_time
  PROVE  FrameGood(f)'
<1>. DEFINE t == f.target
<1>. USE OptionAssumption
<1>1. t \in Target /\ f.dtime \in Nat /\ f.i \in Nat
  BY DEF Frame
<1>2. /\ Shrinks(t) /\ SameTime(t) /\ rechecking'[t] = rechecking[t]
      /\ mtime[t] \in Nat /\ mtime'[t] \in Nat /\ clock \in Nat
  BY <1>1 DEF Kept, TypeOK
<1>3. Aged(f.dtime) \subseteq Aged(f.dtime)'
  BY <1>1, AgedStays
<1>4. ASSUME NEW j \in DOMAIN deps'[t], j < f.i, Live(deps'[t][j])
      PROVE  Passed(f, deps[t][j])'
  <2>1. j \in DOMAIN deps[t] /\ Live(deps[t][j])
        /\ deps'[t][j].name = deps[t][j].name /\ deps'[t][j].auto = deps[t][j].auto
    BY <1>2, <1>4 DEF Shrinks, Live
  <2>2. Passed(f, deps[t][j])
    BY <1>4, <2>1 DEF FrameGood
  <2>. QED  BY <1>2, <1>3, <2>1, <2>2 DEF Passed
<1>5. Known(t, f.autos)'
  BY <1>2, KnownStays DEF FrameGood
<1>6. f.recheck /\ t \in Rule => ToldIn(deps[t], Aged(mtime[t]))'
  <2>1. CASE mtime'[t] = mtime[t]
    <3>1. PICK m \in Nat : m = mtime[t] /\ m = mtime'[t]
      BY <1>2, <2>1
    <3>2. Aged(m) \subseteq Aged(m)'
      BY AgedStays
    <3>3. f.recheck /\ t \in Rule => ToldIn(deps'[t], Aged(m)')
      BY <1>2, <3>1, <3>2, LiveStays DEF FrameGood
    <3>. QED  BY <3>1, <3>3
  <2>2. CASE mtime[t] = file_max_time
    <3>1. t \in Rule => DOMAIN deps'[t] = {}
      BY <1>2, <2>2 DEF TargetGood, Shrinks
    <3>. QED  BY <3>1 DEF ToldIn
  <2>. QED  BY <1>2, <2>1, <2>2 DEF SameTime
<1>. QED  BY <1>4, <1>5, <1>6 DEF FrameGood

LEMMA EntryKept ==
  ASSUME TypeOK, TypeOK', Steady, NEW e \in Entry, Shrinks(e.target), EntryGood(e),
         clock <= clock'
  PROVE  EntryGood(e)'
<1>1. /\ e.target \in Target /\ e.time \in Nat /\ clock \in Nat /\ clock' \in Nat
  BY DEF Entry, TypeOK
<1>2. Aged(e.time) \subseteq Aged(e.time)' /\ Made \subseteq Made'
  BY <1>1, AgedStays
<1>3. /\ LiveIn(deps[e.target], Made) => LiveIn(deps'[e.target], Made')
      /\ LiveIn(deps[e.target], Aged(e.time)) => LiveIn(deps'[e.target], Aged(e.time)')
  BY <1>2, LiveStays
<1>4. Known(e.target, e.autos) => Known(e.target, e.autos)'
  BY KnownStays
<1>. QED  BY <1>1, <1>3, <1>4 DEF EntryGood, Active
-----------------------------------------------------------------------------
(* A step, put together *)

LEMMA SteadyIs ==
  ASSUME Forward, \A u \in Target : Kept(u) \/ state[u] /= "ok"
  PROVE  Steady
BY DEF Forward, Kept, Steady

\* A step that changes few targets, activations and entries, and those well.
LEMMA GoodStep ==
  ASSUME TypeOK, TypeOK', Forward, GoodInv, clock <= clock', clock < file_max_time,
         \A u \in Target : Kept(u) \/ (state[u] /= "ok" /\ TargetGood(u)'),
         \A k \in Making' : \/ FrameGood(stack[k])'
                            \/ \E l \in Making : /\ stack'[k] = stack[l]
                                                 /\ Kept(stack[l].target),
         \A i \in DOMAIN running_list' :
            \/ EntryGood(running_list[i])'
            \/ \E l \in DOMAIN running_list : /\ running_list'[i] = running_list[l]
                                              /\ Shrinks(running_list[l].target)
  PROVE  GoodInv'
<1>1. Steady
  BY SteadyIs
<1>2. StartTime <= clock'
  BY GraphAssumption DEF GoodInv, TypeOK
<1>3. \A u \in Target : TargetGood(u)'
  BY <1>1, TargetKept DEF GoodInv
<1>4. ASSUME NEW k \in Making' PROVE FrameGood(stack[k])'
  <2>1. CASE \E l \in Making : stack'[k] = stack[l] /\ Kept(stack[l].target)
    <3>1. PICK l \in Making : stack'[k] = stack[l] /\ Kept(stack[l].target)
      BY <2>1
    <3>2. PICK f : f = stack[l]
      OBVIOUS
    <3>3. f \in Frame /\ f.target \in Target /\ FrameGood(f)
      BY <3>2, StackFrames DEF Making, GoodInv
    <3>4. FrameGood(f)'
      BY <1>1, <3>1, <3>2, <3>3, FrameKept DEF GoodInv
    <3>. QED  BY <3>1, <3>2, <3>4
  <2>. QED  BY <2>1
<1>5. ASSUME NEW i \in DOMAIN running_list' PROVE EntryGood(running_list[i])'
  <2>1. CASE \E l \in DOMAIN running_list : /\ running_list'[i] = running_list[l]
                                            /\ Shrinks(running_list[l].target)
    <3>1. PICK l \in DOMAIN running_list : /\ running_list'[i] = running_list[l]
                                           /\ Shrinks(running_list[l].target)
      BY <2>1
    <3>2. PICK e : e = running_list[l]
      OBVIOUS
    <3>3. e \in Entry /\ EntryGood(e)
      BY <3>2, ElementOfSeq, LenProperties DEF TypeOK, GoodInv
    <3>4. EntryGood(e)'
      BY <1>1, <3>1, <3>2, <3>3, EntryKept
    <3>. QED  BY <3>1, <3>2, <3>4
  <2>. QED  BY <1>5, <2>1
<1>. QED  BY <1>2, <1>3, <1>4, <1>5 DEF GoodInv

\* What counts after a report: the makefile's dependencies as before, and hidden
\* ones that were dependencies when all of them were made.
LEMMA ReportLive ==
  ASSUME TypeOK, NEW t \in Target, NEW list \in Reported(t, deps[t]), NEW S
  PROVE  /\ ToldIn(deps[t], S) => ToldIn(list, S)
         /\ LiveIn(deps[t], S) => ToldIn(list, S)
         /\ \A A : LiveIn(deps[t], S) /\ Known(t, A) /\ ~NewAutos(list, A) => LiveIn(list, S)
         /\ Reports[t] = {} => list = deps[t]
<1>1. deps[t] \in Seq(Dependency) /\ list \in Seq(Dependency)
  BY ReportedType DEF TypeOK
<1>2. /\ list = deps[t] \/ (KeepState /\ Reports[t] /= {})
      /\ \A j \in DOMAIN list :
            /\ ~list[j].auto => j \in DOMAIN deps[t] /\ list[j] = deps[t][j]
            /\ list[j].auto /\ ~list[j].stale => list = deps[t] \/ list[j].name \in Reports[t]
  BY <1>1, ReportedGrows
<1>3. /\ ToldIn(deps[t], S) => ToldIn(list, S)
      /\ LiveIn(deps[t], S) => ToldIn(list, S)
  BY <1>2 DEF ToldIn, LiveIn
<1>4. ASSUME NEW A, LiveIn(deps[t], S), Known(t, A), ~NewAutos(list, A), list /= deps[t],
             NEW j \in DOMAIN list, Live(list[j])
      PROVE  list[j].name \in S
  <2>1. CASE ~list[j].auto
    BY <1>2, <1>4, <2>1 DEF LiveIn
  <2>2. CASE list[j].auto
    <3>1. list[j].name \in AutosOf(list)
      BY <1>4, <2>2 DEF AutosOf, LiveAuto, Live
    <3>2. list[j].name \in A \cap Reports[t]
      BY <1>2, <1>4, <2>2, <3>1 DEF NewAutos, Live
    <3>3. PICK k \in DOMAIN deps[t] : deps[t][k].name = list[j].name /\ ~deps[t][k].stale
      BY <1>4, <3>2 DEF Known
    <3>. QED  BY <1>4, <3>3 DEF LiveIn, Live
  <2>3. list[j] \in Dependency
    BY <1>1, ElementOfSeq, LenProperties
  <2>. QED  BY <2>1, <2>2, <2>3 DEF Dependency
<1>5. \A A : LiveIn(deps[t], S) /\ Known(t, A) /\ ~NewAutos(list, A) => LiveIn(list, S)
  BY <1>4 DEF LiveIn
<1>. QED  BY <1>2, <1>3, <1>5

\* No hidden dependency of a target that make made something of is newly marked
\* as built, unless it was visited.
LEMMA VisitStays ==
  ASSUME TypeOK, VisitInv,
         \A t \in Target : Grows(deps[t], deps'[t]),
         \A t \in Target : state[t] = "dont_know" /\ state'[t] /= "dont_know" =>
            \A j \in DOMAIN deps'[t] : ~deps'[t][j].built,
         \A t \in Target : \A j \in DOMAIN deps'[t] :
            deps'[t][j].auto /\ deps'[t][j].built =>
               \/ j \in DOMAIN deps[t] /\ deps[t][j].built
               \/ \A d \in Sure : d = deps'[t][j].name => Visited(d)',
         \A d \in Sure : Visited(d) => Visited(d)'
  PROVE  VisitInv'
<1>. SUFFICES ASSUME NEW t \in Target, state'[t] /= "dont_know",
                     NEW j \in DOMAIN deps'[t], deps'[t][j].auto, deps'[t][j].built,
                     NEW d \in Sure, d = deps'[t][j].name
              PROVE  Visited(d)'
  BY DEF VisitInv
<1>1. CASE j \in DOMAIN deps[t] /\ deps[t][j].built
  <2>1. deps[t][j].auto /\ deps[t][j].name = d /\ state[t] /= "dont_know"
    BY <1>1 DEF Grows
  <2>. QED  BY <1>1, <2>1 DEF VisitInv
<1>2. CASE \A x \in Sure : x = deps'[t][j].name => Visited(x)'
  BY <1>2
<1>. QED  BY <1>1, <1>2

\* The top activation stays the top one.
LEMMA TopCalls ==
  ASSUME TypeOK, stack /= <<>>, NEW f, stack' = AsTop(f), f.target = Top.target
  PROVE  /\ \A d : Called(d)' <=> Called(d)
         /\ \A d : d = Top.target => Called(d)'
<1>. DEFINE n == Len(stack)
<1>1. /\ n \in Nat \ {0} /\ DOMAIN stack = 1..n /\ DOMAIN stack' = 1..n
      /\ stack'[n] = f /\ \A k \in 1..(n - 1) : stack'[k] = stack[k]
  BY AsTopIs DEF TypeOK
<1>2. stack[n] = Top
  BY DEF Top
<1>0. n \in Nat \ {0}
  BY <1>1
<1>. HIDE DEF n
<1>3. n \in 1..n /\ \A k \in 1..n : k = n \/ k \in 1..(n - 1)
  BY <1>0
<1>4. \A k \in 1..n : stack'[k].target = stack[k].target
  BY <1>1, <1>2, <1>3
<1>5. \A d : Called(d)' <=> Called(d)
  BY <1>1, <1>4 DEF Called
<1>6. \A d : d = Top.target => Called(d)'
  BY <1>1, <1>3 DEF Called
<1>. QED  BY <1>5, <1>6

-----------------------------------------------------------------------------
(* Steps of the top activation, and steps that leave the targets alone *)

LEMMA KeptSame ==
  ASSUME NEW u, deps'[u] = deps[u], mtime'[u] = mtime[u], rechecking'[u] = rechecking[u],
         state'[u] = "ok" => state[u] = "ok"
  PROVE  Kept(u)
BY ShrinksSame DEF Kept, SameTime

\* What the entries of the new list must be for GoodStep.
EntriesGood == \A i \in DOMAIN running_list' :
    \/ EntryGood(running_list[i])'
    \/ \E l \in DOMAIN running_list : /\ running_list'[i] = running_list[l]
                                      /\ Shrinks(running_list[l].target)

LEMMA AppendGood ==
  ASSUME TypeOK, \A l \in DOMAIN running_list : Shrinks(running_list[l].target),
         NEW e \in Entry, running_list' = Append(running_list, e), EntryGood(e)'
  PROVE  EntriesGood
<1>. DEFINE n == Len(running_list)
<1>1. /\ n \in Nat /\ DOMAIN running_list = 1..n
      /\ DOMAIN running_list' = 1..(n + 1) /\ running_list'[n + 1] = e
      /\ \A j \in 1..n : running_list'[j] = running_list[j]
  BY AppendProperties, LenProperties DEF TypeOK
<1>2. \A i \in 1..(n + 1) : i = n + 1 \/ i \in 1..n
  BY <1>1
<1>. HIDE DEF n
<1>. QED  BY <1>1, <1>2 DEF EntriesGood

LEMMA OtherKept ==
  ASSUME Acyclic, Sound, stack /= <<>>,
         \A u \in Target : Kept(u) \/ u = Top.target
  PROVE  \A k \in DOMAIN stack : k < Len(stack) => Kept(stack[k].target)
BY HigherBelow, StackFrames DEF Sound, OrderInv

\* What the target of the top activation makes is not on the list.
LEMMA OffList ==
  ASSUME Sound, stack /= <<>>, TopIsMade,
         \A u \in Target : Kept(u) \/ u = Top.target
  PROVE  \A l \in DOMAIN running_list : Shrinks(running_list[l].target)
<1>1. ASSUME NEW l \in DOMAIN running_list PROVE Shrinks(running_list[l].target)
  <2>1. running_list[l] \in Entry
    BY ElementOfSeq, LenProperties DEF Sound, TypeOK
  <2>2. running_list[l].target \in Target
    BY <2>1 DEF Entry
  <2>3. state[running_list[l].target] = "running"
    BY <2>2 DEF Sound, BuildInv, ListInv, Waits
  <2>4. running_list[l].target /= Top.target
    BY <2>3, MakesTop
  <2>. QED  BY <2>2, <2>4 DEF Kept
<1>. QED  BY <1>1

LEMMA TopStep ==
  ASSUME Acyclic, Sound, FreshInv, TypeOK', Forward, clock <= clock', clock < file_max_time,
         stack /= <<>>, NEW f, stack' = AsTop(f), f.target = Top.target,
         \A u \in Target : Kept(u) \/ (u = Top.target /\ state[u] /= "ok" /\ TargetGood(u)'),
         TopIsMade' => FrameGood(f)',
         EntriesGood,
         \A u \in Target : state'[u] = state[u] \/ u = Top.target,
         state[Top.target] = "dont_know" /\ state'[Top.target] /= "dont_know" =>
            \A j \in DOMAIN deps'[Top.target] : ~deps'[Top.target][j].built,
         \A t \in Target : \A j \in DOMAIN deps'[t] :
            deps'[t][j].auto /\ deps'[t][j].built =>
               \/ j \in DOMAIN deps[t] /\ deps[t][j].built
               \/ \A d \in Sure : d = deps'[t][j].name => Visited(d)'
  PROVE  GoodInv' /\ VisitInv'
<1>. DEFINE n == Len(stack)
<1>1. /\ n \in Nat \ {0} /\ DOMAIN stack = 1..n
      /\ Len(stack') = n /\ DOMAIN stack' = 1..n
      /\ stack'[n] = f /\ \A k \in 1..(n - 1) : stack'[k] = stack[k]
  BY AsTopIs DEF Sound, TypeOK
<1>2. TypeOK /\ GoodInv /\ VisitInv
  BY DEF Sound, FreshInv
<1>3. ASSUME NEW k \in Making'
      PROVE  FrameGood(stack[k])' \/ \E l \in Making : /\ stack'[k] = stack[l]
                                                       /\ Kept(stack[l].target)
  <2>1. k \in 1..n /\ (k < n \/ TopIsMade')
    BY <1>1 DEF Making
  <2>2. CASE k < n
    <3>1. k \in 1..(n - 1) /\ k \in DOMAIN stack
      BY <1>1, <2>1, <2>2
    <3>2. Kept(stack[k].target)
      BY <2>2, <3>1, OtherKept
    <3>3. k \in Making
      BY <2>2, <3>1 DEF Making
    <3>. QED  BY <1>1, <3>1, <3>2, <3>3
  <2>3. CASE ~(k < n)
    <3>1. k = n
      <4>1. n \in Nat /\ k \in 1..n /\ ~(k < n)
        BY <1>1, <2>1, <2>3
      <4>. HIDE DEF n
      <4>. QED  BY <4>1
    <3>2. TopIsMade' /\ stack'[k] = f
      BY <1>1, <2>1, <2>3, <3>1
    <3>. QED  BY <3>2
  <2>. QED  BY <2>2, <2>3
<1>4. GoodInv'
  BY <1>2, <1>3, GoodStep DEF EntriesGood
<1>5. VisitInv'
  <2>1. \A d \in Sure : Visited(d) => Visited(d)'
    <3>1. Sure \subseteq Target
      BY DEF Sure
    <3>2. /\ \A d : Called(d)' <=> Called(d)
          /\ \A d : d = Top.target => Called(d)'
      BY <1>2, TopCalls
    <3>. QED  BY <3>1, <3>2 DEF Visited
  <2>2. \A u \in Target : state[u] = "dont_know" /\ state'[u] /= "dont_know" =>
            \A j \in DOMAIN deps'[u] : ~deps'[u][j].built
    <3>1. ASSUME NEW u \in Target, state[u] = "dont_know", state'[u] /= "dont_know"
          PROVE  \A j \in DOMAIN deps'[u] : ~deps'[u][j].built
      <4>1. u = Top.target
        BY <3>1
      <4>. QED  BY <3>1, <4>1
    <3>. QED  BY <3>1
  <2>. QED  BY <1>2, <2>1, <2>2, VisitStays DEF Forward
<1>. QED  BY <1>4, <1>5

LEMMA QuietFresh ==
  ASSUME Sound, FreshInv, TypeOK', Forward, clock <= clock', clock < file_max_time,
         UNCHANGED <<state, deps, mtime, rechecking, stack>>,
         TopIsMade' => TopIsMade, EntriesGood,
         TopIsMade' /\ pc' /= "deps" =>
            Top.target \in Rule /\ LiveIn(deps[Top.target], Made),
         pc' = "check" => pc = "check"
  PROVE  FreshInv'
<1>1. TypeOK /\ GoodInv /\ VisitInv
  BY DEF Sound, FreshInv
<1>2. \A u \in Target : Kept(u)
  BY KeptSame
<1>3. \A k \in Making' : k \in Making /\ stack'[k] = stack[k] /\ Kept(stack[k].target)
  BY <1>1, <1>2, StackFrames DEF Making
<1>4. GoodInv'
  BY <1>1, <1>2, <1>3, GoodStep DEF EntriesGood
<1>5. VisitInv'
  BY <1>1 DEF VisitInv, Visited, Called
<1>6. Top' = Top /\ Made' = Made
  BY DEF Top, Made
<1>7. WorkInv'
  BY <1>6 DEF WorkInv, LiveIn
<1>8. AnswerSure'
  BY <1>6 DEF FreshInv, AnswerSure
<1>. QED  BY <1>4, <1>5, <1>7, <1>8 DEF FreshInv

LEMMA SameEntries ==
  ASSUME UNCHANGED running_list, \A l \in DOMAIN running_list : Shrinks(running_list[l].target)
  PROVE  EntriesGood
BY DEF EntriesGood

-----------------------------------------------------------------------------
(* doname() begins, and ends on the running list *)

\* What the steps of an orderly build start from.
FreshSound == Orderly /\ Dutiful /\ Sound /\ FreshInv /\ clock < file_max_time

LEMMA UnbuiltShrinks ==
  ASSUME NEW u, deps[u] \in Seq(Dependency), deps'[u] = Unbuilt(deps[u])
  PROVE  Shrinks(u)
<1>1. \A j \in DOMAIN deps[u] : deps[u][j] \in Dependency
  BY ElementOfSeq, LenProperties
<1>2. /\ DOMAIN Unbuilt(deps[u]) = DOMAIN deps[u]
      /\ \A j \in DOMAIN deps[u] : /\ Unbuilt(deps[u])[j].name = deps[u][j].name
                                   /\ Unbuilt(deps[u])[j].auto = deps[u][j].auto
                                   /\ Unbuilt(deps[u])[j].stale = deps[u][j].stale
  BY <1>1 DEF Unbuilt, Dependency
<1>. QED  BY <1>2 DEF Shrinks

LEMMA KnownAutos ==
  ASSUME NEW t
  PROVE  Known(t, AutosOf(deps[t])) /\ Known(t, {})
BY DEF Known, AutosOf, LiveAuto

\* check_dependencies() begins.
LEMMA StartGood ==
  ASSUME TypeOK', NEW f \in Frame, f.i = 1, Known(f.target, f.autos)',
         f.recheck /\ f.target \in Rule =>
            ToldIn(deps[f.target], Aged(mtime[f.target]))'
  PROVE  FrameGood(f)'
<1>1. deps'[f.target] \in Seq(Dependency)
  BY DEF TypeOK, Frame
<1>2. \A j \in DOMAIN deps'[f.target] : ~(j < f.i)
  BY <1>1, LenProperties
<1>. QED  BY <1>2 DEF FrameGood

LEMMA EnterEarlyFresh ==
  ASSUME FreshSound, EnterEarly, TypeOK', Forward
  PROVE  FreshInv'
<1>. DEFINE t == Top.target
<1>1. stack /= <<>> /\ t \in Target /\ Top \in Frame /\ TypeOK
  BY TopTarget DEF EnterEarly, Activated, Sound, FreshSound
<1>2. ~GroupRunning(t)
  BY <1>1 DEF FreshSound, Orderly, NoGroups, GroupRunning
<1>3. /\ state[t] \in {"ok", "running"}
      /\ UNCHANGED <<state, running_list, deps, mtime, rechecking, clock>>
      /\ stack' = AsTop([Top EXCEPT !.result = state[t]]) /\ pc' = "check"
  BY <1>2 DEF EnterEarly, Returns
<1>4. PICK f : f = [Top EXCEPT !.result = state[t]]
  OBVIOUS
<1>5. f.target = t /\ f.auto = Top.auto /\ f.result = state[t]
  BY <1>1, <1>4 DEF Frame
<1>6. ~TopIsMade' /\ stack' = AsTop(f)
  BY <1>3, <1>4 DEF TopIsMade
<1>7. \A u : Kept(u) /\ Shrinks(u)
  BY <1>3, KeptSame DEF Kept
<1>8. EntriesGood
  BY <1>3, <1>7, SameEntries
<1>9. clock <= clock'
  BY <1>1, <1>3 DEF TypeOK
<1>10. GoodInv' /\ VisitInv'
  BY <1>1, <1>3, <1>5, <1>6, <1>7, <1>8, <1>9, TopStep DEF FreshSound, Orderly
<1>11. Top' = f
  BY <1>1, <1>5, <1>6, TopAgain
<1>. QED  BY <1>3, <1>5, <1>6, <1>10, <1>11 DEF FreshInv, WorkInv, AnswerSure

LEMMA EnterFullFresh ==
  ASSUME FreshSound, EnterFull, TypeOK', Forward, ReadyInv'
  PROVE  FreshInv'
<1>. DEFINE t == Top.target
<1>1. stack /= <<>> /\ t \in Target /\ Top \in Frame /\ TypeOK /\ pc = "enter"
  BY TopTarget DEF EnterFull, Activated, Sound, FreshSound
<1>2. state[t] /= "in_progress"
  <2>. SUFFICES ASSUME state[t] = "in_progress" PROVE FALSE
    OBVIOUS
  <2>1. PICK k \in Making : stack[k].target = t
    BY <1>1 DEF FreshSound, Sound, ReadyInv, TargetInv, MadeBy
  <2>2. ~TopIsMade
    BY <1>1 DEF TopIsMade
  <2>3. k \in DOMAIN stack /\ k < Len(stack)
    BY <2>2 DEF Making
  <2>. QED  BY <1>1, <2>1, <2>3, HigherBelow DEF FreshSound, Orderly, Sound, OrderInv
<1>3. PICK f : f = [Activation(t, Top.auto) EXCEPT
                      !.second = Top.second, !.restart = (state[t] = "pending"),
                      !.autos = IF KeepState THEN AutosOf(deps[t]) ELSE {}]
  OBVIOUS
<1>4. /\ f.target = t /\ f.auto = Top.auto /\ f.i = 1 /\ ~f.recheck
      /\ f.autos \in {AutosOf(deps[t]), {}}
  BY <1>3 DEF Activation
<1>5. /\ state' = [state EXCEPT ![t] = "in_progress"]
      /\ stack' = AsTop(f) /\ pc' = "deps" /\ state[t] \notin {"ok", "running"}
      /\ UNCHANGED <<mtime, rechecking, running_list, clock>>
  BY <1>2, <1>3 DEF EnterFull, listVars
<1>6. \A u \in Target : deps'[u] = deps[u] \/ (u = t /\ deps'[u] = Unbuilt(deps[u]))
  BY <1>1 DEF EnterFull, TypeOK
<1>7. \A u \in Target : state'[u] = IF u = t THEN "in_progress" ELSE state[u]
  BY <1>1, <1>5 DEF TypeOK
<1>8. \A u \in Target : Shrinks(u)
  <2>1. \A u \in Target : deps[u] \in Seq(Dependency)
    BY <1>1 DEF TypeOK
  <2>. QED  BY <1>6, <2>1, UnbuiltShrinks, ShrinksSame
<1>9. \A u \in Target : Kept(u)
  BY <1>5, <1>7, <1>8 DEF Kept, SameTime
<1>10. EntriesGood
  <2>1. \A l \in DOMAIN running_list : running_list[l] \in Entry
    BY <1>1, ElementOfSeq, LenProperties DEF TypeOK
  <2>. QED  BY <1>5, <1>8, <2>1, SameEntries DEF Entry
<1>11. f \in Frame
  <2>1. Len(stack) \in DOMAIN stack' /\ stack'[Len(stack)] = f
    BY <1>1, <1>5, AsTopIs DEF TypeOK
  <2>. QED  BY <2>1, ElementOfSeq, LenProperties DEF TypeOK
<1>12. FrameGood(f)'
  <2>1. Known(t, f.autos)
    BY <1>4, KnownAutos
  <2>2. Known(f.target, f.autos)'
    BY <1>1, <1>4, <1>8, <2>1, KnownStays
  <2>. QED  BY <1>4, <1>11, <2>2, StartGood
<1>13. clock <= clock'
  BY <1>1, <1>5 DEF TypeOK
<1>14. state[t] = "dont_know" => \A j \in DOMAIN deps'[t] : ~deps'[t][j].built
  <2>1. deps[t] \in Seq(Dependency)
    BY <1>1 DEF TypeOK
  <2>2. state[t] = "dont_know" => deps'[t] = Unbuilt(deps[t])
    BY <1>1 DEF EnterFull, TypeOK
  <2>. QED  BY <2>1, <2>2, UnbuiltGrows
<1>15. \A u \in Target : \A j \in DOMAIN deps'[u] :
         deps'[u][j].built => j \in DOMAIN deps[u] /\ deps[u][j].built
  <2>1. deps[t] \in Seq(Dependency)
    BY <1>1 DEF TypeOK
  <2>. QED  BY <1>6, <2>1, UnbuiltGrows
<1>16. GoodInv' /\ VisitInv'
  BY <1>1, <1>4, <1>5, <1>7, <1>9, <1>10, <1>12, <1>13, <1>14, <1>15, TopStep
     DEF FreshSound, Orderly
<1>. QED  BY <1>5, <1>16 DEF FreshInv, WorkInv, AnswerSure

\* The target of the top activation goes to the running list.
LEMMA ToListFresh ==
  ASSUME FreshSound, TypeOK', Forward, stack /= <<>>, TopIsMade,
         NEW e \in Entry, EntryGood(e),
         running_list' = Append(running_list, e),
         state' = [state EXCEPT ![Top.target] = "running"],
         Returns("running"), UNCHANGED <<deps, mtime, rechecking, clock>>
  PROVE  FreshInv'
<1>. DEFINE t == Top.target
<1>1. t \in Target /\ Top \in Frame /\ TypeOK
  BY TopTarget DEF Sound, FreshSound
<1>2. PICK f : f = [Top EXCEPT !.result = "running"]
  OBVIOUS
<1>3. /\ f.target = t /\ f.auto = Top.auto /\ f.result = "running"
      /\ stack' = AsTop(f) /\ pc' = "check" /\ ~TopIsMade'
  BY <1>1, <1>2 DEF Frame, Returns, TopIsMade
<1>4. \A u \in Target : state'[u] = IF u = t THEN "running" ELSE state[u]
  BY <1>1 DEF TypeOK
<1>5. \A u \in Target : Kept(u)
  BY <1>4, KeptSame
<1>6. clock <= clock'
  BY <1>1 DEF TypeOK
<1>7. EntriesGood
  <2>1. Steady
    BY <1>5, SteadyIs
  <2>2. \A u : Shrinks(u)
    BY ShrinksSame
  <2>3. EntryGood(e)'
    BY <1>1, <1>6, <2>1, <2>2, EntryKept
  <2>. QED  BY <1>1, <2>2, <2>3, AppendGood
<1>8. GoodInv' /\ VisitInv'
  <2>1. state[t] /= "dont_know"
    BY MakesTop DEF FreshSound
  <2>. QED  BY <1>1, <1>3, <1>4, <1>5, <1>6, <1>7, <2>1, TopStep DEF FreshSound, Orderly
<1>9. Top' = f
  BY <1>1, <1>3, TopAgain
<1>. QED  BY <1>3, <1>8, <1>9 DEF FreshInv, WorkInv, AnswerSure

LEMMA TopGood ==
  ASSUME FreshSound, stack /= <<>>, TopIsMade
  PROVE  /\ Top \in Frame /\ Top.target \in Target
         /\ FrameGood(Top) /\ TargetGood(Top.target)
BY MakesTop DEF FreshSound, FreshInv, GoodInv, Top

\* When check_dependencies() saw nothing running or failed, all is made, and not
\* newer than what the time of the target is compared with.
LEMMA ScannedGood ==
  ASSUME FreshSound, stack /= <<>>, Scanned, ~Top.running, Top.result /= "failed",
         Top.target \in Rule
  PROVE  /\ LiveIn(deps[Top.target], Made)
         /\ Top.dtime <= mtime[Top.target] =>
              LiveIn(deps[Top.target], Aged(mtime[Top.target]))
<1>. DEFINE t == Top.target
<1>1. TopIsMade /\ TypeOK
  BY DEF Scanned, TopIsMade, FreshSound, Sound
<1>2. Top \in Frame /\ t \in Target /\ FrameGood(Top) /\ TargetGood(t)
  BY <1>1, TopGood
<1>3. /\ Top.i \in Nat \ {0} /\ Top.i \notin 1..Len(deps[t]) /\ Len(deps[t]) \in Nat
      /\ DOMAIN deps[t] = 1..Len(deps[t])
  BY <1>1, <1>2, LenProperties DEF Scanned, Frame, TypeOK
<1>4. \A j \in DOMAIN deps[t] : j < Top.i
  BY <1>3
<1>5. Top.recheck \/ rechecking[t] => ToldIn(deps[t], Aged(mtime[t]))
  BY <1>2 DEF FrameGood, TargetGood
<1>6. mtime[t] \in Nat /\ Top.dtime \in Nat
  BY <1>1, <1>2 DEF TypeOK, Frame
<1>7. ASSUME NEW j \in DOMAIN deps[t], Live(deps[t][j])
      PROVE  \/ deps[t][j].name \in Aged(Top.dtime)
             \/ deps[t][j].name \in Aged(mtime[t])
  <2>1. Passed(Top, deps[t][j])
    BY <1>2, <1>4, <1>7 DEF FrameGood
  <2>. QED  BY <1>5, <1>7, <2>1 DEF Passed, ToldIn
<1>8. LiveIn(deps[t], Made)
  BY <1>7 DEF LiveIn, Aged
<1>9. Top.dtime <= mtime[t] => Aged(Top.dtime) \subseteq Aged(mtime[t])
  BY <1>1, <1>6, AgedUp
<1>. QED  BY <1>7, <1>8, <1>9 DEF LiveIn

LEMMA AddPendingFresh ==
  ASSUME FreshSound, AddPending, TypeOK', Forward
  PROVE  FreshInv'
<1>1. stack /= <<>> /\ TopIsMade
  BY DEF AddPending, Scanned, Activated, TopIsMade, Sound, FreshSound
<1>2. PICK e : e = Waiting(Top.target, "pending", FALSE)
  OBVIOUS
<1>3. e \in Entry /\ ~Active(e)
  BY <1>1, <1>2, MakesTop, WaitingType DEF Waiting, Active, FreshSound
<1>. QED  BY <1>1, <1>2, <1>3, ToListFresh DEF AddPending, EntryGood

\* make goes on with run_command() for the target of the top activation.
LEMMA GoesOnFresh ==
  ASSUME FreshSound, TypeOK', Forward, TopIsMade,
         Top.target \in Rule, LiveIn(deps[Top.target], Made), pc' /= "check",
         UNCHANGED <<state, deps, mtime, rechecking, stack, running_list, clock>>
  PROVE  FreshInv'
<1>1. EntriesGood
  BY SameEntries, ShrinksSame
<1>2. clock <= clock'
  BY DEF FreshSound, Sound, TypeOK
<1>. QED  BY <1>1, <1>2, QuietFresh DEF FreshSound

LEMMA BuildAloneFresh ==
  ASSUME FreshSound, TypeOK', Forward, stack /= <<>>, TopIsMade,
         Top.target \in Rule, LiveIn(deps[Top.target], Made), BuildAlone,
         UNCHANGED <<deps, mtime, rechecking, clock>>
  PROVE  FreshInv'
<1>1. CASE pc' = "serial" /\ UNCHANGED <<state, running_list, stack>>
  BY <1>1, GoesOnFresh
<1>2. CASE /\ state' = [state EXCEPT ![Top.target] = "running"]
           /\ running_list' = Append(running_list, Waiting(Top.target, "serial", FALSE))
           /\ Returns("running")
  <2>1. PICK e : e = Waiting(Top.target, "serial", FALSE)
    OBVIOUS
  <2>2. e \in Entry /\ ~Active(e)
    BY <2>1, MakesTop, WaitingType DEF Waiting, Active, FreshSound
  <2>. QED  BY <1>2, <2>1, <2>2, ToListFresh DEF EntryGood
<1>. QED  BY <1>1, <1>2 DEF BuildAlone

LEMMA RunCommandFresh ==
  ASSUME FreshSound, RunCommand, TypeOK', Forward
  PROVE  FreshInv'
<1>1. /\ stack /= <<>> /\ TopIsMade /\ Scanned /\ ~Top.running /\ Top.target \in Rule
      /\ Top.result /= "failed" /\ UNCHANGED <<deps, mtime, rechecking, clock>>
  BY DEF RunCommand, Scanned, Activated, TopIsMade, Sound, FreshSound
<1>2. LiveIn(deps[Top.target], Made)
  BY <1>1, ScannedGood
<1>3. CASE BuildAlone
  BY <1>1, <1>2, <1>3, BuildAloneFresh
<1>4. CASE pc' = "slots" /\ UNCHANGED <<state, running_list, stack>>
  BY <1>1, <1>2, <1>4, GoesOnFresh
<1>. QED  BY <1>3, <1>4 DEF RunCommand

LEMMA DistributeProcessFresh ==
  ASSUME FreshSound, DistributeProcess, TypeOK', Forward
  PROVE  FreshInv'
<1>1. /\ stack /= <<>> /\ TopIsMade /\ pc \in {"slots", "retry"}
      /\ UNCHANGED <<deps, mtime, rechecking, clock>>
  BY DEF DistributeProcess, Activated, TopIsMade, Sound, FreshSound
<1>2. Top.target \in Rule /\ LiveIn(deps[Top.target], Made)
  BY <1>1 DEF FreshSound, FreshInv, WorkInv
<1>3. CASE StartJob
  <2>1. PICK e : e = Job(Top)
    OBVIOUS
  <2>2. Top \in Frame /\ FrameGood(Top)
    BY <1>1, TopGood
  <2>3. /\ e \in Entry /\ e.target = Top.target /\ e.st = "running" /\ e.exit = "none"
        /\ e.autos = Top.autos
    BY <2>1, <2>2, JobType DEF Job, Waiting
  <2>4. EntryGood(e)
    BY <1>2, <2>2, <2>3 DEF EntryGood, FrameGood
  <2>. QED  BY <1>1, <1>3, <2>1, <2>3, <2>4, ToListFresh DEF StartJob
<1>4. CASE NoSlot
  BY <1>1, <1>2, <1>4, BuildAloneFresh DEF NoSlot
<1>5. CASE UNCHANGED <<state, running_list, stack>> /\ pc' \in {"slots", "await"}
  BY <1>1, <1>2, <1>5, GoesOnFresh
<1>. QED  BY <1>3, <1>4, <1>5 DEF DistributeProcess, AwaitFor, AdjustError

-----------------------------------------------------------------------------
(* doname_check() and check_dependencies() *)

\* A dependency is given up when nobody can make it, and no other.
LEMMA MarkBuiltShrinks ==
  ASSUME TypeOK, NEW f \in Frame, NEW r, deps' = MarkBuilt(f, r),
         f.i \in DOMAIN deps[f.target],
         r = "dont_know" => \/ ~deps[f.target][f.i].auto
                            \/ deps[f.target][f.i].name \notin Reports[f.target]
  PROVE  /\ \A u \in Target : Shrinks(u)
         /\ \A u \in Target : \A j \in DOMAIN deps'[u] : deps'[u][j].built =>
              (j \in DOMAIN deps[u] /\ deps[u][j].built) \/ (u = f.target /\ j = f.i)
         /\ r = "dont_know" => deps'[f.target][f.i].stale
<1>. DEFINE ds == deps[f.target]
            Mark(d) == [d EXCEPT !.built = TRUE, !.stale = d.stale \/ r = "dont_know"]
            new == [j \in DOMAIN ds |-> IF j = f.i THEN Mark(ds[j]) ELSE ds[j]]
<1>1. f.target \in Target /\ ds \in Seq(Dependency)
  BY DEF TypeOK, Frame
<1>2. \A j \in DOMAIN ds : ds[j] \in Dependency
  BY <1>1, ElementOfSeq, LenProperties
<1>3. /\ DOMAIN new = DOMAIN ds
      /\ \A j \in DOMAIN ds : /\ new[j].name = ds[j].name /\ new[j].auto = ds[j].auto
                              /\ new[j].built => ds[j].built \/ j = f.i
                              /\ ds[j].stale => new[j].stale
                              /\ new[j].stale => ds[j].stale \/ (j = f.i /\ r = "dont_know")
                              /\ j = f.i /\ r = "dont_know" => new[j].stale
  BY <1>2 DEF Dependency
<1>4. deps' = [deps EXCEPT ![f.target] = new]
  BY Zenon DEF MarkBuilt
<1>. HIDE DEF new
<1>5. \A u \in Target : deps'[u] = IF u = f.target THEN new ELSE deps[u]
  BY <1>1, <1>4 DEF TypeOK
<1>6. \A j \in DOMAIN ds : new[j].stale =>
         ds[j].stale \/ ~ds[j].auto \/ ds[j].name \notin Reports[f.target]
  BY <1>3
<1>7. Shrinks(f.target)
  BY <1>1, <1>3, <1>5, <1>6 DEF Shrinks
<1>. QED  BY <1>1, <1>3, <1>5, <1>7, ShrinksSame

\* check_dependencies() goes on when it has an answer for a dependency.
LEMMA DoneGood ==
  ASSUME TypeOK, TypeOK', NEW f \in Frame, FrameGood(f), f.i \in DOMAIN deps[f.target],
         NEW d \in Target, deps[f.target][f.i].name = d,
         NEW r \in {"ok", "running", "failed", "dont_know"}, state[d] = r,
         UNCHANGED <<state, mtime, rechecking>>, Shrinks(f.target),
         r = "dont_know" => deps'[f.target][f.i].stale,
         NEW g, g = DependencyDone(f, d, r)
  PROVE  /\ FrameGood(g)' /\ g.target = f.target
<1>. DEFINE t == f.target
<1>1. /\ t \in Target /\ f.dtime \in Nat /\ f.i \in Nat /\ mtime[d] \in Nat
      /\ deps[t] \in Seq(Dependency)
  BY DEF Frame, TypeOK
<1>2. /\ g.target = t /\ g.i = f.i + 1 /\ g.running = (f.running \/ r = "running")
      /\ g.result = (IF r = "failed" THEN r ELSE f.result)
      /\ g.recheck = f.recheck /\ g.autos = f.autos
      /\ g.dtime = IF r = "running" THEN f.dtime ELSE Later(f.dtime, mtime[d])
  BY DEF DependencyDone, Frame
<1>3. PICK s \in Nat : /\ s = g.dtime /\ f.dtime <= s
                       /\ r = "ok" => mtime[d] <= s
  <2>1. /\ g.dtime \in Nat /\ f.dtime <= g.dtime
        /\ r = "ok" => mtime[d] <= g.dtime
    BY <1>1, <1>2 DEF Later
  <2>. QED  BY <2>1
<1>4. Aged(f.dtime) \subseteq Aged(s) /\ Aged(s)' = Aged(s)
  BY <1>1, <1>3, AgedUp DEF Aged, Made
<1>5. ASSUME NEW j \in DOMAIN deps'[t], j < g.i, Live(deps'[t][j])
      PROVE  Passed(g, deps[t][j])'
  <2>1. /\ j \in DOMAIN deps[t] /\ Live(deps[t][j])
        /\ deps'[t][j].name = deps[t][j].name /\ deps'[t][j].auto = deps[t][j].auto
    BY <1>5 DEF Shrinks, Live
  <2>2. j = f.i \/ j < f.i
    <3>1. j \in Nat
      BY <1>1, <2>1, LenProperties
    <3>. QED  BY <1>1, <1>2, <1>5, <3>1
  <2>3. CASE j < f.i
    <3>1. Passed(f, deps[t][j])
      BY <2>1, <2>3 DEF FrameGood
    <3>. QED  BY <1>2, <1>3, <1>4, <2>1, <3>1 DEF Passed
  <2>4. CASE j = f.i
    <3>1. r /= "dont_know"
      BY <1>5, <2>4 DEF Live
    <3>2. r = "ok" => d \in Aged(s)
      BY <1>3 DEF Aged, Made
    <3>. QED  BY <1>2, <1>3, <1>4, <2>1, <2>4, <3>1, <3>2 DEF Passed
  <2>. QED  BY <2>2, <2>3, <2>4
<1>6. Known(t, g.autos)'
  <2>1. Known(t, f.autos)
    BY DEF FrameGood
  <2>. QED  BY <1>2, <2>1, KnownStays
<1>7. g.recheck /\ t \in Rule => ToldIn(deps[t], Aged(mtime[t]))'
  <2>1. PICK m \in Nat : m = mtime[t] /\ m = mtime'[t]
    BY <1>1 DEF TypeOK
  <2>2. Aged(m)' = Aged(m)
    BY DEF Aged, Made
  <2>3. g.recheck /\ t \in Rule => ToldIn(deps[t], Aged(m))
    BY <1>2, <2>1 DEF FrameGood
  <2>. QED  BY <2>1, <2>2, <2>3, LiveStays
<1>. QED  BY <1>2, <1>5, <1>6, <1>7 DEF FrameGood

\* Who asked for a target that is made, or that make could make, was answered.
LEMMA AnswerVisits ==
  ASSUME FreshSound, pc = "check", stack /= <<>>, UNCHANGED state,
         \A k \in DOMAIN stack : k < Len(stack) =>
            k \in DOMAIN stack' /\ stack'[k].target = stack[k].target
  PROVE  \A d \in Sure : /\ Visited(d) => Visited(d)'
                         /\ d = Top.target => Visited(d)'
<1>1. AnswerSure /\ state[Top.target] = Top.result
  BY DEF FreshSound, FreshInv, Sound, ReadyInv, AnswerInv
<1>2. \A d \in Sure : d = Top.target => Visited(d)'
  BY <1>1 DEF Visited, AnswerSure
<1>3. ASSUME NEW d \in Sure, Called(d) PROVE Visited(d)'
  <2>1. PICK k \in DOMAIN stack : stack[k].target = d
    BY <1>3 DEF Called
  <2>2. k < Len(stack) \/ k = Len(stack)
    <3>1. Len(stack) \in Nat /\ k \in 1..Len(stack)
      BY StackFrames DEF FreshSound, Sound
    <3>. QED  BY <3>1
  <2>3. CASE k < Len(stack)
    BY <2>1, <2>3 DEF Visited, Called
  <2>4. CASE k = Len(stack)
    BY <1>2, <2>1, <2>4 DEF Top
  <2>. QED  BY <2>2, <2>3, <2>4
<1>. QED  BY <1>2, <1>3 DEF Visited

LEMMA PassOnFresh ==
  ASSUME FreshSound, pc = "check", stack /= <<>>, TypeOK', Forward,
         NEW r \in {"ok", "running", "failed", "dont_know"}, Top.result = r,
         r = "dont_know" => Top.auto, NEW failed, PassOn(r, failed),
         UNCHANGED <<state, rechecking, running_list, clock>>
  PROVE  FreshInv'
<1>. DEFINE t == Top.target
<1>1. /\ t \in Target /\ Top \in Frame /\ TypeOK /\ GoodInv /\ VisitInv /\ ReadyInv
      /\ AnswerSure /\ clock <= clock' /\ clock < file_max_time
  BY TopTarget DEF Sound, FreshSound, FreshInv, TypeOK
<1>2. PICK n : n = Len(stack)
  OBVIOUS
<1>3. n \in Nat \ {0} /\ DOMAIN stack = 1..n
  BY <1>1, <1>2, AsTopIs DEF TypeOK
<1>4. state[t] = r
  BY <1>1 DEF ReadyInv, AnswerInv
<1>5. CASE n = 1
  <2>1. /\ stack' = <<>> /\ pc' = caller /\ UNCHANGED deps /\ DOMAIN stack' = {}
        /\ mtime' = LookAgain(t, r)
    BY <1>2, <1>5 DEF PassOn
  <2>2. \A u \in Target : Kept(u)
    <3>1. \A u \in Target : SameTime(u)
      BY <1>1, <2>1 DEF LookAgain, SameTime, TypeOK
    <3>. QED  BY <2>1, <3>1, ShrinksSame DEF Kept
  <2>3. Making' = {} /\ ~TopIsMade' /\ pc' /= "check"
    BY <1>1, <2>1 DEF TopIsMade, TypeOK, Making
  <2>4. EntriesGood
    BY <2>1, ShrinksSame, SameEntries
  <2>5. GoodInv'
    BY <1>1, <2>2, <2>3, <2>4, GoodStep DEF EntriesGood
  <2>6. \A d \in Sure : Visited(d) => Visited(d)'
    <3>1. ~\E k \in DOMAIN stack : k < Len(stack)
      BY <1>2, <1>3, <1>5
    <3>. QED  BY <3>1, AnswerVisits
  <2>7. VisitInv'
    BY <1>1, <2>1, <2>6, VisitStays DEF Forward
  <2>. QED  BY <2>3, <2>5, <2>7 DEF FreshInv, WorkInv, AnswerSure
<1>6. CASE n /= 1
  <2>1. n > 1 /\ n - 1 \in 1..(n - 1) /\ n - 1 \in DOMAIN stack /\ n - 1 < n
    BY <1>3, <1>6
  <2>2. PICK f : f = stack[n - 1]
    OBVIOUS
  <2>3. PICK g : g = DependencyDone(f, t, r)
    OBVIOUS
  <2>4. f \in Frame /\ f.target \in Target
    BY <1>1, <2>1, <2>2, StackFrames
  <2>5. /\ Below \in Seq(Frame) /\ Len(Below) = n - 1
        /\ \A k \in 1..(n - 1) : Below[k] = stack[k]
    <3>1. n - 1 \in 0..n
      BY <1>3
    <3>2. stack \in Seq(Frame)
      BY <1>1 DEF TypeOK
    <3>. QED  BY <1>2, <2>1, <2>2, <3>1, <3>2, PrefixType DEF Below
  <2>6. /\ stack' = [Below EXCEPT ![n - 1] = g] /\ deps' = MarkBuilt(f, r)
        /\ pc' = "deps" /\ UNCHANGED mtime
    BY <1>2, <1>6, <2>1, <2>2, <2>3, <2>5 DEF PassOn
  <2>7. /\ DOMAIN stack' = 1..(n - 1) /\ stack'[n - 1] = g
        /\ \A k \in 1..(n - 1) : k /= n - 1 => stack'[k] = stack[k]
    <3>1. DOMAIN Below = 1..(n - 1)
      BY <2>5, LenProperties
    <3>. QED  BY <2>1, <2>5, <2>6, <3>1
  <2>8. /\ f.i \in DOMAIN deps[f.target]
        /\ deps[f.target][f.i].name = t /\ deps[f.target][f.i].auto = Top.auto
    <3>1. Calls(stack[n - 1], stack[(n - 1) + 1])
      BY <1>1, <1>2, <2>1 DEF ReadyInv, StackInv
    <3>2. (n - 1) + 1 = n
      BY <1>3
    <3>. QED  BY <1>2, <2>2, <3>1, <3>2 DEF Calls, Top
  <2>9. r = "dont_know" => t \notin Sure /\ t \notin Reports[f.target]
    BY <1>1, <2>4 DEF AnswerSure, FreshSound, Dutiful
  <2>10. /\ \A u \in Target : Shrinks(u)
         /\ \A u \in Target : \A j \in DOMAIN deps'[u] : deps'[u][j].built =>
              (j \in DOMAIN deps[u] /\ deps[u][j].built) \/ (u = f.target /\ j = f.i)
         /\ r = "dont_know" => deps'[f.target][f.i].stale
    BY <1>1, <2>4, <2>6, <2>8, <2>9, MarkBuiltShrinks
  <2>11. \A u \in Target : Kept(u)
    BY <2>6, <2>10 DEF Kept, SameTime
  <2>12. FrameGood(g)' /\ g.target = f.target
    <3>1. FrameGood(f)
      BY <1>1, <1>2, <2>1, <2>2 DEF GoodInv, Making
    <3>. QED  BY <1>1, <1>4, <2>3, <2>4, <2>6, <2>8, <2>10, <3>1, DoneGood
  <2>13. ASSUME NEW k \in Making'
         PROVE  FrameGood(stack[k])' \/ \E l \in Making : /\ stack'[k] = stack[l]
                                                          /\ Kept(stack[l].target)
    <3>1. k \in 1..(n - 1)
      BY <2>7 DEF Making
    <3>2. CASE k = n - 1
      BY <2>7, <2>12, <3>2
    <3>3. CASE k /= n - 1
      <4>1. k \in DOMAIN stack /\ k < Len(stack)
        BY <1>2, <1>3, <3>1
      <4>2. k \in Making /\ stack[k].target \in Target
        BY <1>1, <4>1, StackFrames DEF Making
      <4>. QED  BY <2>7, <2>11, <3>1, <3>3, <4>2
    <3>. QED  BY <3>2, <3>3
  <2>14. EntriesGood
    <3>1. \A l \in DOMAIN running_list : running_list[l] \in Entry
      BY <1>1, ElementOfSeq, LenProperties DEF TypeOK
    <3>. QED  BY <2>10, <3>1, SameEntries DEF Entry
  <2>15. GoodInv'
    BY <1>1, <2>11, <2>13, <2>14, GoodStep DEF EntriesGood
  <2>16. \A d \in Sure : /\ Visited(d) => Visited(d)'
                         /\ d = t => Visited(d)'
    <3>1. ASSUME NEW k \in DOMAIN stack, k < Len(stack)
          PROVE  k \in DOMAIN stack' /\ stack'[k].target = stack[k].target
      <4>1. k \in 1..(n - 1)
        BY <1>2, <1>3, <3>1
      <4>2. CASE k = n - 1
        BY <2>2, <2>7, <2>12, <4>1, <4>2
      <4>3. CASE k /= n - 1
        BY <2>7, <4>1, <4>3
      <4>. QED  BY <4>2, <4>3
    <3>. QED  BY <3>1, AnswerVisits
  <2>17. VisitInv'
    <3>1. ASSUME NEW u \in Target, NEW j \in DOMAIN deps'[u], deps'[u][j].built
          PROVE  \/ j \in DOMAIN deps[u] /\ deps[u][j].built
                 \/ \A d \in Sure : d = deps'[u][j].name => Visited(d)'
      <4>1. u = f.target /\ j = f.i => deps'[u][j].name = t
        BY <2>8, <2>10 DEF Shrinks
      <4>. QED  BY <2>10, <2>16, <3>1, <4>1
    <3>. QED  BY <1>1, <2>16, <3>1, VisitStays DEF Forward
  <2>. QED  BY <2>6, <2>15, <2>17 DEF FreshInv, WorkInv, AnswerSure
<1>. QED  BY <1>5, <1>6

LEMMA DonameCheckFresh ==
  ASSUME FreshSound, DonameCheck, TypeOK', Forward, ~fatal_in_progress'
  PROVE  FreshInv'
<1>1. /\ stack /= <<>> /\ Top.target \in Target /\ Top \in Frame /\ pc = "check"
      /\ TypeOK /\ ReadyInv
  BY TopTarget DEF DonameCheck, Activated, Sound, FreshSound
<1>2. UNCHANGED <<state, rechecking, running_list, clock>>
  BY DEF DonameCheck, listVars
<1>3. PICK r : Top.result = r
  OBVIOUS
<1>4. r \in {"ok", "running", "failed", "dont_know"}
      /\ (KeepGoing => r /= "dont_know") /\ (r = "failed" => KeepGoing)
  <2>1. Len(stack) \in DOMAIN stack
    BY <1>1, AsTopIs DEF TypeOK
  <2>. QED  BY <1>1, <1>3, <2>1
            DEF ReadyInv, AnswerInv, StackInv, FrameOk, Top, FreshSound, Orderly
<1>5. CASE r \in {"ok", "running"} \/ (r = "dont_know" /\ Top.auto) \/ r = "failed"
  <2>1. \E failed \in BOOLEAN : PassOn(r, failed)
    BY <1>3, <1>4, <1>5 DEF DonameCheck, FreshSound, Sound
  <2>. QED  BY <1>1, <1>2, <1>3, <1>4, <1>5, <2>1, PassOnFresh
<1>6. CASE r = "dont_know" /\ ~Top.auto
  <2>1. /\ stack' = AsTop([Top EXCEPT !.second = TRUE]) /\ pc' = "enter"
        /\ UNCHANGED <<deps, mtime>>
    BY <1>3, <1>4, <1>6 DEF DonameCheck, Fatal
  <2>2. PICK f : f = [Top EXCEPT !.second = TRUE]
    OBVIOUS
  <2>3. f.target = Top.target /\ stack' = AsTop(f) /\ ~TopIsMade' /\ clock <= clock'
    BY <1>1, <1>2, <2>1, <2>2 DEF Frame, TopIsMade, TypeOK
  <2>4. \A u : Kept(u) /\ Shrinks(u)
    BY <1>2, <2>1, KeptSame DEF Kept
  <2>5. EntriesGood
    BY <1>2, <2>4, SameEntries
  <2>6. GoodInv' /\ VisitInv'
    BY <1>1, <1>2, <2>1, <2>3, <2>4, <2>5, TopStep DEF FreshSound, Orderly
  <2>. QED  BY <2>1, <2>3, <2>6 DEF FreshInv, WorkInv, AnswerSure
<1>. QED  BY <1>4, <1>5, <1>6

\* check_dependencies() goes past dependencies without asking for them.
LEMMA PassedGood ==
  ASSUME TypeOK, NEW f \in Frame, FrameGood(f), UNCHANGED <<state, deps, mtime, rechecking>>,
         NEW g, g.target = f.target, g.running = f.running, g.result = f.result,
         g.autos = f.autos, g.recheck = f.recheck, g.dtime = f.dtime,
         \A j \in DOMAIN deps[f.target] : j < g.i /\ Live(deps[f.target][j]) =>
            j < f.i \/ Passed(f, deps[f.target][j])
  PROVE  FrameGood(g)'
<1>1. \A d : Passed(f, d) => Passed(g, d)'
  BY DEF Passed, Aged, Made
<1>2. \A j \in DOMAIN deps[f.target] : j < g.i /\ Live(deps[f.target][j]) =>
         Passed(f, deps[f.target][j])
  BY DEF FrameGood
<1>3. \A j \in DOMAIN deps'[g.target] : j < g.i /\ Live(deps'[g.target][j]) =>
         Passed(g, deps[g.target][j])'
  BY <1>1, <1>2
<1>4. Known(g.target, g.autos)'
  BY DEF FrameGood, Known
<1>5. g.recheck /\ g.target \in Rule =>
         ToldIn(deps[g.target], Aged(mtime[g.target]))'
  BY DEF FrameGood, ToldIn, Aged, Made
<1>. QED  BY <1>3, <1>4, <1>5 DEF FrameGood

LEMMA ScanDependencyFresh ==
  ASSUME FreshSound, ScanDependency, TypeOK', Forward
  PROVE  FreshInv'
<1>. DEFINE t == Top.target
            dep == deps[t][Top.i]
<1>1. /\ stack /= <<>> /\ t \in Target /\ Top \in Frame /\ pc = "deps"
      /\ TypeOK /\ ReadyInv /\ GoodInv /\ VisitInv /\ Top.i \in DOMAIN deps[t]
      /\ TopIsMade /\ clock < file_max_time
  <2>1. /\ TypeOK /\ Activated /\ ReadyInv /\ GoodInv /\ VisitInv
        /\ clock < file_max_time
    BY DEF FreshSound, FreshInv, Sound
  <2>2. pc = "deps" /\ Top.i \in DOMAIN deps[t]
    BY DEF ScanDependency
  <2>3. stack /= <<>> /\ TopIsMade
    BY <2>1, <2>2 DEF Activated, TopIsMade
  <2>. QED  BY <2>1, <2>2, <2>3, TopTarget DEF TypeOK
<1>2. UNCHANGED <<state, mtime, rechecking, running_list, clock>> /\ clock <= clock'
  BY <1>1 DEF ScanDependency, listVars, TypeOK
<1>3. deps[t] \in Seq(Dependency) /\ dep \in Dependency /\ Top.i \in Nat
  <2>1. deps[t] \in Seq(Dependency)
    BY <1>1 DEF TypeOK
  <2>. QED  BY <1>1, <2>1, ElementOfSeq, LenProperties DEF Frame
<1>4. state[t] = "in_progress" /\ FrameGood(Top) /\ Top.target \in Target
  BY <1>1, MakesTop, TopGood DEF FreshSound
<1>. DEFINE Skip == /\ ~dep.auto /\ (Top.recheck \/ rechecking[t])
                    /\ stack' = AsTop([Top EXCEPT !.i = @ + 1])
                    /\ UNCHANGED <<deps, pc>>
            Pause == /\ dep.name = Wait
                     /\ stack' = AsTop([Top EXCEPT !.i = IF Top.running
                                          THEN Len(deps[t]) + 1 ELSE @ + 1])
                     /\ UNCHANGED <<deps, pc>>
            Done == /\ dep.name /= Wait
                    /\ dep.built \/ state[dep.name] = "failed"
                    /\ stack' = AsTop(DependencyDone(Top, dep.name, state[dep.name]))
                    /\ deps' = MarkBuilt(Top, state[dep.name])
                    /\ UNCHANGED pc
            Call == /\ dep.name /= Wait
                    /\ stack' = Append(stack, Activation(dep.name, dep.auto))
                    /\ pc' = "enter" /\ UNCHANGED deps
<1>5. Skip \/ Pause \/ Done \/ Call
  BY DEF ScanDependency
<1>6. \* The top activation goes on with f.
      ASSUME NEW f, stack' = AsTop(f), UNCHANGED pc, f.target = t, FrameGood(f)',
             \A u \in Target : Shrinks(u),
             \A u \in Target : \A j \in DOMAIN deps'[u] : deps'[u][j].built =>
               \/ j \in DOMAIN deps[u] /\ deps[u][j].built
               \/ \A d \in Sure : d = deps'[u][j].name => Visited(d)'
      PROVE  FreshInv'
  <2>1. \A u \in Target : Kept(u)
    BY <1>2, <1>6 DEF Kept, SameTime
  <2>2. EntriesGood
    <3>1. \A l \in DOMAIN running_list : running_list[l] \in Entry
      BY <1>1, ElementOfSeq, LenProperties DEF TypeOK
    <3>. QED  BY <1>2, <1>6, <3>1, SameEntries DEF Entry
  <2>3. GoodInv' /\ VisitInv'
    BY <1>1, <1>2, <1>6, <2>1, <2>2, TopStep DEF FreshSound, Orderly
  <2>. QED  BY <1>1, <1>6, <2>3 DEF FreshInv, WorkInv, AnswerSure
<1>7. ASSUME UNCHANGED deps
      PROVE  /\ \A u \in Target : Shrinks(u)
             /\ \A u \in Target : \A j \in DOMAIN deps'[u] : deps'[u][j].built =>
                  j \in DOMAIN deps[u] /\ deps[u][j].built
  BY <1>7, ShrinksSame
<1>8. CASE Skip
  <2>1. PICK f : f = [Top EXCEPT !.i = @ + 1]
    OBVIOUS
  <2>2. /\ f.target = t /\ f.recheck = Top.recheck /\ f.autos = Top.autos
        /\ f.dtime = Top.dtime
        /\ f.result = Top.result /\ f.running = Top.running /\ f.i = Top.i + 1
    BY <1>1, <2>1 DEF Frame
  <2>3. ASSUME NEW j \in DOMAIN deps[t], j < f.i
        PROVE  j < Top.i \/ Passed(Top, deps[t][j])
    <3>1. j < Top.i \/ j = Top.i
      <4>1. j \in Nat
        BY <1>3, LenProperties
      <4>. QED  BY <1>3, <2>2, <2>3, <4>1
    <3>2. Passed(Top, dep)
      BY <1>8 DEF Passed
    <3>. QED  BY <3>1, <3>2
  <2>4. FrameGood(f)'
    BY <1>1, <1>2, <1>4, <1>8, <2>2, <2>3, PassedGood
  <2>. QED  BY <1>6, <1>7, <1>8, <2>1, <2>2, <2>4
<1>9. CASE Pause
  <2>1. PICK f : f = [Top EXCEPT !.i = IF Top.running THEN Len(deps[t]) + 1 ELSE @ + 1]
    OBVIOUS
  <2>2. /\ f.target = t /\ f.recheck = Top.recheck /\ f.autos = Top.autos
        /\ f.dtime = Top.dtime
        /\ f.result = Top.result /\ f.running = Top.running
        /\ f.i = Top.i + 1 \/ f.running
    BY <1>1, <2>1 DEF Frame
  <2>3. ASSUME NEW j \in DOMAIN deps[t], j < f.i, Live(deps[t][j])
        PROVE  j < Top.i \/ Passed(Top, deps[t][j])
    <3>1. j /= Top.i
      BY <1>9, <2>3 DEF Live
    <3>2. j < Top.i \/ Top.running
      <4>1. j \in Nat
        BY <1>3, LenProperties
      <4>. QED  BY <1>3, <2>2, <2>3, <3>1, <4>1
    <3>. QED  BY <3>2 DEF Passed
  <2>4. FrameGood(f)'
    BY <1>1, <1>2, <1>4, <1>9, <2>2, <2>3, PassedGood
  <2>. QED  BY <1>6, <1>7, <1>9, <2>1, <2>2, <2>4
<1>10. CASE Done
  <2>1. PICK d \in Target : /\ dep.name = d /\ d /= Wait
                            /\ \A k \in DOMAIN stack : stack[k].target /= d
    <3>1. PICK d : d = dep.name
      OBVIOUS
    <3>2. Acyclic /\ Sound /\ stack /= <<>> /\ Top.i \in DOMAIN deps[t]
      BY <1>1 DEF FreshSound, Orderly
    <3>3. d /= Wait
      <4>1. dep.name /= Wait
        BY <1>10
      <4>. QED  BY <3>1, <4>1
    <3>4. d \in Target /\ \A k \in DOMAIN stack : stack[k].target /= d
      BY <3>1, <3>2, <3>3, DependencyIsOff
    <3>. QED  BY <3>1, <3>3, <3>4
  <2>2. PICK r : state[d] = r
    OBVIOUS
  <2>3. PICK f : f = DependencyDone(Top, d, r)
    OBVIOUS
  <2>4. /\ dep.built \/ r = "failed"
        /\ stack' = AsTop(f) /\ deps' = MarkBuilt(Top, r) /\ UNCHANGED pc
    BY <1>10, <2>1, <2>2, <2>3
  <2>5. ~Called(d) /\ ~OnStack(d) /\ ~MadeBy(d)
    BY <2>1 DEF Called, OnStack, MadeBy, Making
  <2>6. r \in {"ok", "running", "failed", "dont_know"}
    <3>1. r /= "in_progress"
      BY <1>1, <2>2, <2>5 DEF ReadyInv, TargetInv
    <3>2. r /= "pending"
      BY <1>1, <2>2 DEF FreshSound, Sound, BuildInv, PendingInv
    <3>. QED  BY <1>1, <2>2, <3>1, <3>2 DEF TypeOK, Doname
  <2>7. r = "dont_know" => d \notin Sure
    <3>. SUFFICES ASSUME r = "dont_know", d \in Sure PROVE FALSE
      OBVIOUS
    <3>1. dep.built
      BY <2>4
    <3>2. ~Visited(d) /\ ~Settled(d)
      BY <2>2, <2>5 DEF Visited, Settled
    <3>3. dep.auto
      BY <1>1, <1>4, <2>1, <3>1, <3>2 DEF ReadyInv, BuiltInv, Told
    <3>. QED  BY <1>1, <1>4, <2>1, <3>1, <3>2, <3>3 DEF VisitInv
  <2>8. r = "dont_know" => d \notin Reports[t]
    BY <1>1, <2>7 DEF FreshSound, Dutiful
  <2>9. /\ \A u \in Target : Shrinks(u)
        /\ \A u \in Target : \A j \in DOMAIN deps'[u] : deps'[u][j].built =>
             (j \in DOMAIN deps[u] /\ deps[u][j].built) \/ (u = t /\ j = Top.i)
        /\ r = "dont_know" => deps'[t][Top.i].stale
    BY <1>1, <2>1, <2>4, <2>8, MarkBuiltShrinks
  <2>10. FrameGood(f)' /\ f.target = t
    BY <1>1, <1>2, <1>4, <2>1, <2>2, <2>3, <2>6, <2>9, DoneGood
  <2>11. ASSUME NEW u \in Target, NEW j \in DOMAIN deps'[u], deps'[u][j].built
         PROVE  \/ j \in DOMAIN deps[u] /\ deps[u][j].built
                \/ \A x \in Sure : x = deps'[u][j].name => Visited(x)'
    <3>1. CASE j \in DOMAIN deps[u] /\ deps[u][j].built
      BY <3>1
    <3>2. CASE u = t /\ j = Top.i
      <4>1. deps'[u][j].name = d
        BY <1>1, <2>1, <2>9, <3>2 DEF Shrinks
      <4>2. dep.built \/ state'[d] = "failed"
        BY <1>2, <2>2, <2>4
      <4>. QED  BY <1>1, <3>2, <4>1, <4>2 DEF Visited
    <3>. QED  BY <2>9, <2>11, <3>1, <3>2
  <2>. QED  BY <1>6, <2>4, <2>9, <2>10, <2>11
<1>11. CASE Call
  <2>1. dep.name \in Target /\ dep.auto \in BOOLEAN
    BY <1>3, <1>11 DEF Dependency
  <2>2. PICK f : f = Activation(dep.name, dep.auto)
    OBVIOUS
  <2>3. f \in Frame /\ stack' = Append(stack, f)
    BY <1>11, <2>1, <2>2, ActivationType
  <2>4. ~TopIsMade' /\ pc' = "enter" /\ UNCHANGED deps
    BY <1>11 DEF TopIsMade
  <2>5. /\ Len(stack) \in Nat /\ DOMAIN stack = 1..Len(stack)
        /\ Len(stack') = Len(stack) + 1
        /\ \A k \in 1..Len(stack) : k \in DOMAIN stack' /\ stack'[k] = stack[k]
    <3>1. stack \in Seq(Frame)
      BY <1>1 DEF TypeOK
    <3>2. /\ Len(stack') = Len(stack) + 1 /\ DOMAIN stack' = 1..(Len(stack) + 1)
          /\ \A k \in 1..Len(stack) : stack'[k] = stack[k]
      BY <2>3, <3>1, AppendProperties, LenProperties
    <3>. QED  BY <1>1, <3>2, StackFrames
  <2>6. \A u : Kept(u) /\ Shrinks(u)
    BY <1>2, <2>4, KeptSame DEF Kept
  <2>7. \A k \in Making' : k \in Making /\ stack'[k] = stack[k]
    <3>1. \A k \in Making' : k \in DOMAIN stack' /\ k < Len(stack')
      BY <2>4 DEF Making
    <3>2. DOMAIN stack' = 1..Len(stack')
      BY LenProperties DEF TypeOK
    <3>3. \A k \in Making' : k \in DOMAIN stack
      BY <2>5, <3>1, <3>2
    <3>. QED  BY <1>1, <2>5, <3>3 DEF Making
  <2>8. EntriesGood
    BY <1>2, <2>6, SameEntries
  <2>9. GoodInv'
    BY <1>1, <1>2, <2>6, <2>7, <2>8, GoodStep DEF EntriesGood
  <2>10. VisitInv'
    <3>1. \A d \in Sure : Visited(d) => Visited(d)'
      BY <1>2, <2>5 DEF Visited, Called
    <3>. QED  BY <1>1, <1>2, <2>4, <3>1, VisitStays DEF Forward
  <2>. QED  BY <2>4, <2>9, <2>10 DEF FreshInv, WorkInv, AnswerSure
<1>. HIDE DEF Skip, Pause, Done, Call
<1>. QED  BY <1>5, <1>8, <1>9, <1>10, <1>11

-----------------------------------------------------------------------------
(* doname() knows its result *)

LEMMA UnbuiltLive ==
  ASSUME NEW ds \in Seq(Dependency)
  PROVE  /\ DOMAIN Unbuilt(ds) = DOMAIN ds
         /\ AutosOf(Unbuilt(ds)) = AutosOf(ds)
         /\ \A S : ToldIn(ds, S) => ToldIn(Unbuilt(ds), S)
<1>1. \A j \in DOMAIN ds : ds[j] \in Dependency
  BY ElementOfSeq, LenProperties
<1>2. /\ DOMAIN Unbuilt(ds) = DOMAIN ds
      /\ \A j \in DOMAIN ds : /\ Unbuilt(ds)[j].name = ds[j].name
                              /\ Unbuilt(ds)[j].auto = ds[j].auto
                              /\ Unbuilt(ds)[j].stale = ds[j].stale
  BY <1>1 DEF Unbuilt, Dependency
<1>3. \A x : x \in AutosOf(Unbuilt(ds)) <=> x \in AutosOf(ds)
  <2>1. \A list, x : x \in AutosOf(list) <=>
           \E j \in DOMAIN list : list[j].auto /\ ~list[j].stale /\ x = list[j].name
    BY DEF AutosOf, LiveAuto
  <2>. QED  BY <1>2, <2>1
<1>. QED  BY <1>2, <1>3 DEF ToldIn, Live

\* No other target than t is changed.
OthersSame(t, times, ds) == \A u \in Target : u /= t =>
    ds[u] = deps[u] /\ times[u] = mtime[u] /\ rechecking'[u] = rechecking[u]

\* The time and the dependencies of t are right for the result r, A being the
\* hidden dependencies doname() knew when it began.
Judged(t, r, time, ds, A) ==
    /\ \A j \in DOMAIN ds : ds[j].built => j \in DOMAIN deps[t] /\ deps[t][j].built
    /\ time <= clock' \/ (t \notin Rule \ Phony /\ time = file_max_time)
    /\ t \in Phony => DOMAIN ds = {}
    /\ t \in Sure \ (Rule \cup Listed) => time \in 1..StartTime
    /\ t \in Rule /\ r = "ok" => /\ ToldIn(ds, Aged(time))
                                 /\ ~NewAutos(ds, A) => LiveIn(ds, Aged(time))
    /\ t \in Rule /\ rechecking'[t] => ToldIn(ds, Aged(time))
    /\ r = "dont_know" => t \notin Sure

LEMMA JudgedIs ==
  ASSUME NEW t, NEW r, NEW time, NEW ds, NEW A, Judged(t, r, time, ds, A), t \in Rule
  PROVE  /\ r = "ok" \/ rechecking'[t] => ToldIn(ds, Aged(time))
         /\ r = "ok" /\ ~NewAutos(ds, A) => LiveIn(ds, Aged(time))
BY DEF Judged

\* The target of the top activation is judged.
LEMMA ConcludeFresh ==
  ASSUME FreshSound, TypeOK', Forward, stack /= <<>>, TopIsMade,
         NEW r \in {"ok", "failed", "dont_know"}, NEW times \in [Target -> Nat],
         NEW ds \in [Target -> Seq(Dependency)],
         Conclude(r, times, ds), UNCHANGED running_list, clock <= clock',
         NEW t, t = Top.target, OthersSame(t, times, ds),
         Judged(t, r, times[t], ds[t], Top.autos)
  PROVE  FreshInv'
<1>1. /\ t \in Target /\ Top \in Frame /\ TypeOK /\ GoodInv /\ VisitInv
      /\ state[t] = "in_progress" /\ clock < file_max_time
  BY MakesTop DEF FreshSound, Sound, FreshInv
<1>2. PICK m \in Nat :
        m = times[t] /\ m = mtime'[t] /\ Judged(t, r, m, ds[t], Top.autos)
  BY <1>1 DEF Conclude
<1>3. PICK again \in BOOLEAN : again = (r = "ok" /\ NewAutos(ds[t], Top.autos))
  OBVIOUS
<1>4. PICK f : f = IF again
                     THEN [Activation(t, Top.auto) EXCEPT
                             !.second = Top.second, !.restart = Top.restart,
                             !.recheck = TRUE, !.autos = AutosOf(ds[t])]
                     ELSE [Top EXCEPT !.result = r]
  OBVIOUS
<1>5. /\ f.target = t /\ f.auto = Top.auto
      /\ again => f.i = 1 /\ f.recheck /\ f.autos = AutosOf(ds[t])
      /\ ~again => f.result = r
  BY <1>1, <1>4 DEF Activation, Frame
<1>6. /\ mtime' = times /\ stack' = AsTop(f)
      /\ state' = [state EXCEPT ![t] = IF again THEN "in_progress" ELSE r]
      /\ deps' = ds \/ (again /\ deps' = [ds EXCEPT ![t] = Unbuilt(ds[t])])
      /\ pc' = IF again THEN "deps" ELSE "check"
  BY <1>3, <1>4 DEF Conclude, Returns
<1>7. /\ ds[t] \in Seq(Dependency)
      /\ deps'[t] = ds[t] \/ (again /\ deps'[t] = Unbuilt(ds[t]))
      /\ \A u \in Target : u /= t => deps'[u] = ds[u]
  BY <1>1, <1>6
<1>8. /\ DOMAIN deps'[t] = DOMAIN ds[t] /\ AutosOf(deps'[t]) = AutosOf(ds[t])
      /\ \A S : ToldIn(ds[t], S) => ToldIn(deps'[t], S)
      /\ \A j \in DOMAIN deps'[t] : deps'[t][j].built =>
            j \in DOMAIN deps[t] /\ deps[t][j].built
  <2>1. \A j \in DOMAIN Unbuilt(ds[t]) : ~Unbuilt(ds[t])[j].built
    BY <1>7, UnbuiltGrows
  <2>. QED  BY <1>7, <2>1, UnbuiltLive DEF Judged
<1>9. \A u \in Target : state'[u] = IF u = t THEN (IF again THEN "in_progress" ELSE r)
                                             ELSE state[u]
  BY <1>1, <1>6 DEF TypeOK
<1>10. ASSUME NEW u \in Target, u /= t PROVE Kept(u)
  <2>1. ds[u] = deps[u] /\ times[u] = mtime[u] /\ rechecking'[u] = rechecking[u]
    BY <1>10 DEF OthersSame
  <2>2. deps'[u] = deps[u] /\ mtime'[u] = mtime[u] /\ state'[u] = state[u]
    BY <1>6, <1>7, <1>9, <1>10, <2>1
  <2>. QED  BY <2>1, <2>2, KeptSame
<1>11. Aged(m) \subseteq Aged(m)'
  <2>1. Steady
    BY <1>1, <1>10, SteadyIs
  <2>. QED  BY <1>1, <2>1, AgedStays
<1>12. \A list, S, T : S \subseteq T =>
          /\ LiveIn(list, S) => LiveIn(list, T)
          /\ ToldIn(list, S) => ToldIn(list, T)
  BY DEF LiveIn, ToldIn
<1>13. t \in Rule /\ (r = "ok" \/ rechecking'[t]) => ToldIn(deps'[t], Aged(m)')
  <2>1. t \in Rule /\ (r = "ok" \/ rechecking'[t]) => ToldIn(ds[t], Aged(m))
    <3>1. PICK list, A : list = ds[t] /\ Judged(t, r, m, list, A)
      BY <1>2
    <3>2. t \in Rule /\ (r = "ok" \/ rechecking'[t]) => ToldIn(list, Aged(m))
      BY <3>1, JudgedIs
    <3>. QED  BY <3>1, <3>2
  <2>. QED  BY <1>8, <1>11, <1>12, <2>1
<1>14. t \in Rule /\ state'[t] = "ok" => LiveIn(deps'[t], Aged(m)')
  <2>1. t \in Rule /\ state'[t] = "ok" => LiveIn(ds[t], Aged(m)) /\ deps'[t] = ds[t]
    <3>1. PICK list, A : list = ds[t] /\ A = Top.autos /\ Judged(t, r, m, list, A)
      BY <1>2
    <3>2. state'[t] = "ok" => r = "ok" /\ ~again
      BY <1>1, <1>9
    <3>3. state'[t] = "ok" => r = "ok" /\ ~NewAutos(list, A) /\ deps'[t] = ds[t]
      BY <1>3, <1>7, <3>1, <3>2
    <3>4. t \in Rule /\ r = "ok" /\ ~NewAutos(list, A) => LiveIn(list, Aged(m))
      BY <3>1, JudgedIs
    <3>. QED  BY <3>1, <3>3, <3>4
  <2>. QED  BY <1>11, <1>12, <2>1
<1>15. TargetGood(t)'
  <2>1. mtime'[t] = m /\ (m <= clock' \/ (t \notin Rule \ Phony /\ m = file_max_time))
        /\ (t \in Sure \ (Rule \cup Listed) => m \in 1..StartTime)
    BY <1>2 DEF Judged
  <2>2. t \in Phony => DOMAIN deps'[t] = {}
    BY <1>8 DEF Judged
  <2>. QED  BY <1>13, <1>14, <2>1, <2>2 DEF TargetGood
<1>16. TopIsMade' => FrameGood(f)'
  <2>. SUFFICES ASSUME TopIsMade' PROVE FrameGood(f)'
    OBVIOUS
  <2>1. again
    BY <1>6 DEF TopIsMade
  <2>2. Known(t, AutosOf(deps[t]))'
    BY DEF Known, AutosOf, LiveAuto
  <2>3. Known(f.target, f.autos)'
    <3>1. PICK A : A = AutosOf(deps[t])'
      OBVIOUS
    <3>2. Known(t, A)'
      BY <2>2, <3>1
    <3>. QED  BY <1>5, <1>8, <2>1, <3>1, <3>2
  <2>4. f \in Frame
    <3>1. Len(stack) \in DOMAIN stack' /\ stack'[Len(stack)] = f
      BY <1>1, <1>6, AsTopIs DEF TypeOK
    <3>. QED  BY <3>1, ElementOfSeq, LenProperties DEF TypeOK
  <2>5. f.target \in Rule => ToldIn(deps[f.target], Aged(mtime[f.target]))'
    BY <1>2, <1>3, <1>5, <1>13, <2>1
  <2>. QED  BY <1>5, <2>1, <2>3, <2>4, <2>5, StartGood
<1>17. EntriesGood
  <2>1. \A u \in Target : Kept(u) \/ u = Top.target
    BY <1>10
  <2>. QED  BY <2>1, OffList, SameEntries DEF FreshSound
<1>18. \A u \in Target : \A j \in DOMAIN deps'[u] :
         deps'[u][j].built => j \in DOMAIN deps[u] /\ deps[u][j].built
  <2>1. \A u \in Target : u /= t => deps'[u] = deps[u]
    BY <1>7 DEF OthersSame
  <2>. QED  BY <1>8, <2>1
<1>19. GoodInv' /\ VisitInv'
  <2>1. /\ \A u \in Target : Kept(u) \/ (u = Top.target /\ state[u] /= "ok" /\ TargetGood(u)')
        /\ \A u \in Target : state'[u] = state[u] \/ u = Top.target
        /\ state[Top.target] /= "dont_know" /\ f.target = Top.target
    BY <1>1, <1>5, <1>9, <1>10, <1>15
  <2>. QED  BY <1>1, <1>6, <1>16, <1>17, <1>18, <2>1, TopStep DEF FreshSound, Orderly
<1>20. Top' = f
  BY <1>1, <1>5, <1>6, TopAgain
<1>21. WorkInv'
  BY <1>6 DEF WorkInv, TopIsMade
<1>22. AnswerSure'
  BY <1>5, <1>6, <1>20 DEF AnswerSure, Judged
<1>. QED  BY <1>19, <1>21, <1>22 DEF FreshInv

LEMMA NoCommandFresh ==
  ASSUME FreshSound, NoCommand, TypeOK', Forward
  PROVE  FreshInv'
<1>. USE OptionAssumption
<1>1. /\ stack /= <<>> /\ TopIsMade /\ Scanned /\ ~Top.running
      /\ Top.target \notin Rule /\ UNCHANGED <<rechecking, running_list, clock>>
      /\ TypeOK
  BY DEF NoCommand, Scanned, Activated, TopIsMade, Sound, FreshSound, listVars
<1>2. PICK t \in Target : t = Top.target /\ TargetGood(t)
  BY <1>1, TopGood
<1>3. Top.result = "dont_know"
  BY <1>1, <1>2, MakesTop DEF FreshSound, Orderly
<1>4. mtime[t] \in Nat /\ clock \in Nat /\ clock <= clock'
  BY <1>1, <1>2 DEF TypeOK
<1>5. PICK r \in {"ok", "dont_know"}, times \in [Target -> Nat] :
        /\ Conclude(r, times, deps)
        /\ r = "dont_know" => t \notin Listed /\ mtime[t] = 0
        /\ \A u \in Target : u /= t => times[u] = mtime[u]
        /\ times[t] = mtime[t] \/ (t \in Listed /\ times[t] = file_max_time)
  <2>1. PICK r, times :
          /\ Conclude(r, times, deps)
          /\ r = IF t \in Listed THEN "ok" ELSE IF mtime[t] /= 0 THEN "ok" ELSE "dont_know"
          /\ times = IF t \in Listed THEN Nice(mtime, t) ELSE mtime
    BY <1>2, <1>3 DEF NoCommand
  <2>2. /\ times \in [Target -> Nat]
        /\ \A u \in Target : u /= t => times[u] = mtime[u]
        /\ times[t] = mtime[t] \/ (t \in Listed /\ times[t] = file_max_time)
    BY <1>1, <2>1 DEF Nice, TypeOK
  <2>. QED  BY <2>1, <2>2
<1>6. times[t] <= clock' \/ (t \notin Rule \ Phony /\ times[t] = file_max_time)
  BY <1>1, <1>2, <1>4, <1>5 DEF TargetGood
<1>7. t \in Phony => DOMAIN deps[t] = {}
  BY <1>2 DEF TargetGood
<1>8. t \in Sure \ (Rule \cup Listed) => times[t] \in 1..StartTime
  BY <1>2, <1>5 DEF TargetGood
<1>9. r = "dont_know" => t \notin Sure
  BY <1>1, <1>2, <1>5 DEF TargetGood
<1>10. deps \in [Target -> Seq(Dependency)]
  BY <1>1 DEF TypeOK
<1>11. PICK ds : ds = deps
  OBVIOUS
<1>12. OthersSame(t, times, ds) /\ Judged(t, r, times[t], ds[t], Top.autos)
  BY <1>1, <1>2, <1>5, <1>6, <1>7, <1>8, <1>9, <1>11 DEF OthersSame, Judged
<1>13. Conclude(r, times, ds) /\ ds \in [Target -> Seq(Dependency)]
  BY <1>5, <1>10, <1>11
<1>. QED  BY <1>1, <1>2, <1>4, <1>12, <1>13, ConcludeFresh

LEMMA CommandNotRunFresh ==
  ASSUME FreshSound, CommandNotRun, TypeOK', Forward
  PROVE  FreshInv'
<1>1. /\ stack /= <<>> /\ TopIsMade /\ Scanned /\ ~Top.running
      /\ Top.target \in Rule /\ UNCHANGED <<running_list, clock>> /\ TypeOK
  BY DEF CommandNotRun, Scanned, Activated, TopIsMade, Sound, FreshSound, listVars
<1>2. PICK t \in Target : t = Top.target /\ TargetGood(t) /\ Top \in Frame
  BY <1>1, TopGood
<1>3. /\ mtime[t] \in Nat /\ clock \in Nat /\ clock <= clock' /\ Top.dtime \in Nat
      /\ mtime \in [Target -> Nat]
      /\ deps \in [Target -> Seq(Dependency)] /\ rechecking \in [Target -> BOOLEAN]
  <2>1. mtime[t] \in Nat /\ clock \in Nat /\ clock <= clock'
    BY <1>1 DEF TypeOK
  <2>2. Top.dtime \in Nat
    BY <1>2 DEF Frame
  <2>. QED  BY <1>1, <2>1, <2>2 DEF TypeOK
<1>4. PICK r \in {"ok", "failed"} :
        /\ Conclude(r, mtime, deps)
        /\ rechecking' = IF r = "ok" THEN [rechecking EXCEPT ![t] = FALSE] ELSE rechecking
        /\ r = "ok" => Top.result /= "failed" /\ Top.dtime <= mtime[t]
  <2>1. CASE Top.result = "failed"
    BY <2>1 DEF CommandNotRun
  <2>2. CASE Top.result /= "failed"
    <3>1. ~OutOfDate(mtime[t], Top.dtime)
      BY <1>2, <2>2 DEF CommandNotRun, OutOfDateTop
    <3>2. Top.dtime <= mtime[t] /\ mtime[t] /= 0
      BY <1>3, <3>1 DEF OutOfDate
    <3>3. Nice(mtime, t) = mtime
      BY <3>2 DEF Nice
    <3>. QED  BY <1>2, <2>2, <3>2, <3>3 DEF CommandNotRun
  <2>. QED  BY <2>1, <2>2
<1>5. /\ \A u \in Target : u /= t => rechecking'[u] = rechecking[u]
      /\ rechecking'[t] => rechecking[t]
  BY <1>2, <1>3, <1>4
<1>6. t \in Rule /\ r = "ok" =>
         LiveIn(deps[t], Aged(mtime[t])) /\ ToldIn(deps[t], Aged(mtime[t]))
  <2>1. r = "ok" => LiveIn(deps[t], Aged(mtime[t]))
    BY <1>1, <1>2, <1>4, ScannedGood
  <2>. QED  BY <2>1 DEF LiveIn, ToldIn
<1>7. t \in Rule /\ rechecking'[t] => ToldIn(deps[t], Aged(mtime[t]))
  BY <1>2, <1>5 DEF TargetGood
<1>8. mtime[t] <= clock' \/ (t \notin Rule \ Phony /\ mtime[t] = file_max_time)
  BY <1>1, <1>2, <1>3 DEF TargetGood
<1>9. (t \in Phony => DOMAIN deps[t] = {}) /\ t \in Rule
  BY <1>1, <1>2 DEF TargetGood
<1>10. PICK ds, times : ds = deps /\ times = mtime
  OBVIOUS
<1>11. OthersSame(t, times, ds)
  BY <1>5, <1>10 DEF OthersSame
<1>12. Judged(t, r, times[t], ds[t], Top.autos)
  BY <1>4, <1>6, <1>7, <1>8, <1>9, <1>10 DEF Judged
<1>13. /\ Conclude(r, times, ds)
       /\ ds \in [Target -> Seq(Dependency)] /\ times \in [Target -> Nat]
  BY <1>3, <1>4, <1>10
<1>. QED  BY <1>1, <1>2, <1>3, <1>11, <1>12, <1>13, ConcludeFresh

\* Without groups a recipe gives its time to its own target only.
LEMMA NiceTime ==
  ASSUME TypeOK, NoGroups, NEW t \in Target, NEW time \in Nat
  PROVE  /\ Nice(TimeFor(t, time), t) \in [Target -> Nat]
         /\ \A u \in Target : u /= t => Nice(TimeFor(t, time), t)[u] = mtime[u]
         /\ Nice(TimeFor(t, time), t)[t] = IF time = 0 THEN file_max_time ELSE time
BY OptionAssumption DEF NoGroups, TypeOK, TimeFor, Nice

\* The time of a recipe that ends now.
LEMMA RecipeTimeIs ==
  ASSUME TypeOK, NEW t \in Target, TargetGood(t), clock < file_max_time
  PROVE  /\ RecipeTime(t) \in Nat
         /\ t \notin Phony => RecipeTime(t) = clock + 1
         /\ RecipeTime(t) <= Later(clock, RecipeTime(t)) /\ clock <= Later(clock, RecipeTime(t))
BY DEF TypeOK, RecipeTime, Later

LEMMA SerialExitFresh ==
  ASSUME FreshSound, SerialExit, TypeOK', Forward, ~fatal_in_progress'
  PROVE  FreshInv'
<1>1. /\ stack /= <<>> /\ TopIsMade /\ pc = "serial"
      /\ UNCHANGED <<rechecking, running_list>> /\ TypeOK /\ GoodInv /\ NoGroups
      /\ clock < file_max_time /\ Dutiful /\ clock \in Nat
  BY DEF SerialExit, Activated, TopIsMade, Sound, FreshSound, FreshInv, Orderly, listVars,
         TypeOK
<1>2. PICK t \in Target : t = Top.target /\ TargetGood(t) /\ FrameGood(Top)
  BY <1>1, TopGood
<1>3. t \in Rule /\ LiveIn(deps[t], Made) /\ Known(t, Top.autos)
  BY <1>1, <1>2 DEF FreshSound, FreshInv, WorkInv, FrameGood
<1>4. PICK time \in Nat : /\ time = RecipeTime(t) /\ (t \notin Phony => time = clock + 1)
                          /\ time <= Later(clock, time) /\ clock <= Later(clock, time)
  BY <1>1, <1>2, RecipeTimeIs
<1>5. PICK list \in Reported(t, deps[t]), r \in {"ok", "failed"}, times \in [Target -> Nat] :
        /\ Conclude(r, times, [deps EXCEPT ![t] = list])
        /\ r = "ok" => times = Nice(TimeFor(t, time), t) /\ clock' = Later(clock, time)
        /\ r = "failed" => times = mtime /\ clock' = clock
  <2>1. mtime \in [Target -> Nat] /\ Nice(TimeFor(t, time), t) \in [Target -> Nat]
    BY <1>1, NiceTime DEF TypeOK
  <2>. QED  BY <1>2, <1>4, <2>1 DEF SerialExit, Fatal
<1>6. PICK ds : ds = [deps EXCEPT ![t] = list]
  OBVIOUS
<1>7. /\ list \in Seq(Dependency)
      /\ \A j \in DOMAIN list : list[j].built => j \in DOMAIN deps[t] /\ deps[t][j].built
  BY <1>1, ReportedType, ReportedGrows DEF TypeOK
<1>8. /\ ds \in [Target -> Seq(Dependency)] /\ ds[t] = list
      /\ \A u \in Target : u /= t => ds[u] = deps[u]
  BY <1>1, <1>6, <1>7 DEF TypeOK
<1>9. /\ \A u \in Target : u /= t => times[u] = mtime[u]
      /\ times[t] = IF r = "failed" THEN mtime[t] ELSE
                    IF time = 0 THEN file_max_time ELSE time
      /\ clock <= clock'
  <2>1. CASE r = "failed"
    BY <1>1, <1>5, <2>1
  <2>2. CASE r = "ok"
    <3>1. /\ \A u \in Target : u /= t => Nice(TimeFor(t, time), t)[u] = mtime[u]
          /\ Nice(TimeFor(t, time), t)[t] = IF time = 0 THEN file_max_time ELSE time
      BY <1>1, NiceTime
    <3>. QED  BY <1>4, <1>5, <2>2, <3>1
  <2>. QED  BY <2>1, <2>2
<1>10. t \in Phony => list = deps[t] /\ DOMAIN list = {}
  BY <1>1, <1>2, ReportLive DEF TargetGood, Dutiful
<1>11. times[t] <= clock' \/ (t \notin Rule \ Phony /\ times[t] = file_max_time)
  <2>1. CASE r = "failed"
    BY <1>1, <1>2, <1>3, <1>5, <1>9, <2>1 DEF TargetGood
  <2>2. CASE r = "ok"
    BY <1>1, <1>4, <1>5, <1>9, <2>2
  <2>. QED  BY <2>1, <2>2
<1>12. r = "ok" => /\ ToldIn(list, Aged(times[t]))
                   /\ ~NewAutos(list, Top.autos) => LiveIn(list, Aged(times[t]))
  <2>1. CASE t \in Phony
    BY <1>10, <2>1 DEF LiveIn, ToldIn
  <2>2. CASE t \notin Phony
    <3>. SUFFICES ASSUME r = "ok" PROVE /\ ToldIn(list, Aged(times[t]))
                                        /\ ~NewAutos(list, Top.autos) => LiveIn(list, Aged(times[t]))
      OBVIOUS
    <3>1. time = clock + 1 /\ time \in Nat /\ times[t] = time /\ clock <= time
      BY <1>1, <1>4, <1>9, <2>2
    <3>2. Made \subseteq Aged(time)
      BY <1>1, <3>1, MadeIsAged
    <3>3. LiveIn(deps[t], Aged(time))
      BY <1>3, <3>2 DEF LiveIn
    <3>. QED  BY <1>1, <1>3, <3>1, <3>3, ReportLive
  <2>. QED  BY <2>1, <2>2
<1>13. rechecking'[t] => ToldIn(list, Aged(times[t]))
  <2>1. CASE r = "ok"
    BY <1>12, <2>1
  <2>2. CASE r = "failed"
    <3>1. rechecking'[t] => ToldIn(deps[t], Aged(mtime[t]))
      BY <1>1, <1>2, <1>3 DEF TargetGood
    <3>. QED  BY <1>1, <1>9, <2>2, <3>1, ReportLive
  <2>. QED  BY <2>1, <2>2
<1>14. OthersSame(t, times, ds) /\ Judged(t, r, times[t], ds[t], Top.autos)
  BY <1>1, <1>3, <1>7, <1>8, <1>9, <1>10, <1>11, <1>12, <1>13 DEF OthersSame, Judged
<1>15. Conclude(r, times, ds)
  BY <1>5, <1>6
<1>. QED  BY <1>1, <1>2, <1>8, <1>9, <1>14, <1>15, ConcludeFresh

-----------------------------------------------------------------------------
(* Jobs end, are reaped, and are finished *)

\* Targets and activations are as they were, and so is what waits for a job.
LEMMA ListFresh ==
  ASSUME FreshSound, TypeOK', Forward, clock <= clock', UNCHANGED <<targetVars, stack>>,
         pc' = "check" => pc = "check", TopIsMade' => TopIsMade,
         pc = "deps" => pc' = "deps",
         DOMAIN running_list' = DOMAIN running_list,
         \A j \in DOMAIN running_list :
            running_list'[j] = running_list[j] \/ EntryGood(running_list[j])'
  PROVE  FreshInv'
<1>1. UNCHANGED <<state, deps, mtime, rechecking, stack>>
  BY DEF targetVars
<1>2. \A u : Shrinks(u)
  BY <1>1, ShrinksSame
<1>3. EntriesGood
  BY <1>2 DEF EntriesGood
<1>. QED  BY <1>1, <1>3, QuietFresh DEF FreshSound, FreshInv, WorkInv

LEMMA JobExitFresh ==
  ASSUME FreshSound, NEW t \in Target, JobExit(t), TypeOK', Forward
  PROVE  FreshInv'
<1>1. PICK i \in DOMAIN running_list :
        /\ running_list[i].target = t /\ running_list[i].st = "running"
        /\ \E exit \in {"ok"} \cup (IF t \in MayFail THEN {"failed"} ELSE {}),
              out \in {TRUE} \cup (IF t \in MayLose THEN {FALSE} ELSE {}) :
             /\ running_list' = [running_list EXCEPT
                    ![i] = [running_list[i] EXCEPT !.exit = exit, !.out = out,
                                                   !.time = RecipeTime(t)]]
             /\ clock' = IF exit = "ok" THEN Later(clock, RecipeTime(t)) ELSE clock
  BY Zenon DEF JobExit
<1>2. PICK exit \in {"ok", "failed"}, out \in BOOLEAN :
        /\ running_list' = [running_list EXCEPT
              ![i] = [running_list[i] EXCEPT !.exit = exit, !.out = out,
                                             !.time = RecipeTime(t)]]
        /\ clock' = IF exit = "ok" THEN Later(clock, RecipeTime(t)) ELSE clock
  BY <1>1, Zenon
<1>3. PICK e : e = running_list[i]
  OBVIOUS
<1>4. PICK new : new = [e EXCEPT !.exit = exit, !.out = out, !.time = RecipeTime(t)]
  OBVIOUS
<1>5. /\ e = running_list[i] /\ e.target = t /\ e.st = "running"
      /\ running_list' = [running_list EXCEPT ![i] = new]
  BY <1>1, <1>2, <1>3, <1>4, Zenon
<1>6. e \in Entry /\ TypeOK /\ GoodInv /\ TargetGood(t) /\ EntryGood(e) /\ clock \in Nat
  BY <1>5, ElementOfSeq, LenProperties DEF FreshSound, Sound, FreshInv, GoodInv, TypeOK
<1>7. PICK time \in Nat : /\ time = RecipeTime(t) /\ (t \notin Phony => time = clock + 1)
                          /\ time <= Later(clock, time) /\ clock <= Later(clock, time)
  BY <1>6, RecipeTimeIs DEF FreshSound
<1>8. /\ UNCHANGED <<targetVars, stack, pc>> /\ clock <= clock'
      /\ exit = "ok" => time <= clock'
  BY <1>6, <1>7, <1>2 DEF JobExit
<1>9. /\ new.target = t /\ new.st = "running" /\ new.autos = e.autos
      /\ new.exit = exit /\ new.time = time
  BY <1>5, <1>6, <1>7, <1>4 DEF Entry
<1>10. LiveIn(deps[t], Aged(time)) /\ (t \notin Phony => time > 0)
  <2>1. CASE t \in Phony
    BY <1>6, <2>1 DEF TargetGood, LiveIn
  <2>2. CASE t \notin Phony
    <3>1. clock <= time /\ time > 0
      BY <1>6, <1>7, <2>2
    <3>2. Made \subseteq Aged(time)
      BY <1>6, <3>1, MadeIsAged
    <3>3. LiveIn(deps[t], Made)
      BY <1>5, <1>6 DEF EntryGood, Active
    <3>. QED  BY <3>1, <3>2, <3>3 DEF LiveIn
  <2>. QED  BY <2>1, <2>2
<1>11. EntryGood(new)'
  <2>1. t \in Rule /\ LiveIn(deps[t], Made) /\ Known(t, e.autos)
    BY <1>5, <1>6 DEF EntryGood, Active
  <2>2. Made' = Made /\ Aged(time)' = Aged(time) /\ UNCHANGED deps
    BY <1>8 DEF targetVars, Made, Aged
  <2>3. LiveIn(deps[t], Made)' /\ LiveIn(deps[t], Aged(time))' /\ Known(t, e.autos)'
    BY <1>10, <2>1, <2>2 DEF LiveIn, Known
  <2>. QED  BY <1>8, <1>9, <1>10, <2>1, <2>3 DEF EntryGood
<1>12. /\ DOMAIN running_list' = DOMAIN running_list
       /\ \A j \in DOMAIN running_list :
             running_list'[j] = running_list[j] \/ running_list'[j] = new
  BY <1>5, Zenon
<1>13. back' = back /\ (TopIsMade' <=> TopIsMade)
  BY <1>8 DEF JobExit, TopIsMade
<1>14. ASSUME NEW j \in DOMAIN running_list
       PROVE  running_list'[j] = running_list[j] \/ EntryGood(running_list[j])'
  BY <1>11, <1>12
<1>. QED  BY <1>8, <1>12, <1>13, <1>14, ListFresh

LEMMA AwaitParallelFresh ==
  ASSUME FreshSound, AwaitParallel, TypeOK', Forward
  PROVE  FreshInv'
<1>1. /\ DOMAIN running_list' = DOMAIN running_list
      /\ \A i \in DOMAIN running_list : running_list'[i] =
            IF i \in Exited THEN [running_list[i] EXCEPT !.st = running_list[i].exit]
                            ELSE running_list[i]
      /\ UNCHANGED <<targetVars, stack, clock, back>> /\ pc = "await" /\ pc' = "finish"
  BY DEF AwaitParallel
<1>2. TypeOK /\ clock <= clock'
  BY <1>1 DEF FreshSound, Sound, TypeOK
<1>3. ASSUME NEW i \in Exited
      PROVE  EntryGood(running_list[i])'
  <2>1. PICK e, new : e = running_list[i] /\ new = running_list'[i]
    OBVIOUS
  <2>2. /\ e \in Entry /\ e.st = "running" /\ e.exit \in {"ok", "failed"}
        /\ EntryGood(e) /\ new = [e EXCEPT !.st = e.exit]
    <3>1. e \in Entry /\ EntryGood(e)
      BY <2>1, ElementOfSeq, LenProperties DEF Exited, FreshSound, Sound, FreshInv, GoodInv, TypeOK
    <3>2. e.st = "running" /\ e.exit /= "none"
      BY <2>1 DEF Exited
    <3>. QED  BY <1>1, <2>1, <3>1, <3>2 DEF Entry, Exited
  <2>3. /\ new.target = e.target /\ new.st = e.exit /\ new.autos = e.autos
        /\ new.exit = e.exit /\ new.time = e.time
    BY <2>2 DEF Entry
  <2>4. EntryGood(new)
    BY <2>2, <2>3 DEF EntryGood, Active
  <2>5. new \in Entry
    BY <1>1, <2>1, ElementOfSeq, LenProperties DEF TypeOK, Exited
  <2>6. Steady
    BY <1>1, KeptSame, SteadyIs DEF targetVars
  <2>7. Shrinks(new.target)
    BY <1>1, ShrinksSame DEF targetVars
  <2>8. EntryGood(new)'
    BY <1>2, <2>4, <2>5, <2>6, <2>7, EntryKept
  <2>. QED  BY <2>1, <2>8
<1>4. \A j \in DOMAIN running_list :
         running_list'[j] = running_list[j] \/ EntryGood(running_list[j])'
  BY <1>1, <1>3
<1>5. TopIsMade' => TopIsMade
  BY <1>1 DEF TopIsMade
<1>. QED  BY <1>1, <1>2, <1>4, <1>5, ListFresh DEF Sound

LEMMA SameListFresh ==
  ASSUME FreshSound, FinishChildrenReturns \/ FinishRunning, TypeOK', Forward
  PROVE  FreshInv'
<1>1. UNCHANGED <<targetVars, stack, running_list, clock>>
  BY DEF FinishChildrenReturns, FinishRunning, listVars
<1>2. TypeOK /\ FatalInv /\ ~fatal_in_progress
  BY DEF FreshSound, Sound
<1>3. clock <= clock'
  BY <1>1, <1>2 DEF TypeOK
<1>4. /\ pc \in {"finish", "finish_running"}
      /\ pc' \in {"next1", "goals", "slots", "retry", "finish_running", "await"}
      /\ TopIsMade' => TopIsMade
  <2>1. CASE FinishChildrenReturns
    <3>1. back \in {"goals", "slots", "retry", "finish_running"} /\ pc = "finish"
      BY <1>2, <2>1 DEF FinishChildrenReturns, FatalInv, Draining, TypeOK
    <3>2. pc' \in {"next1", back} /\ back' = back
      BY <2>1, Zenon DEF FinishChildrenReturns
    <3>. QED  BY <3>1, <3>2 DEF TopIsMade
  <2>2. CASE FinishRunning
    BY <2>2 DEF FinishRunning, TopIsMade
  <2>. QED  BY <2>1, <2>2
<1>. QED  BY <1>1, <1>3, <1>4, ListFresh

\* Of the entry that leaves the list, none is like it.
LEMMA RestGood ==
  ASSUME TypeOK, Once(running_list), NEW i \in DOMAIN running_list,
         \A u \in Target : u /= running_list[i].target => Shrinks(u),
         \/ running_list' = Unlink(i)
         \/ \E e \in Entry : ~Active(e) /\ running_list' = Append(Unlink(i), e)
  PROVE  EntriesGood
<1>. DEFINE n == Len(running_list)
            from(j) == IF j < i THEN j ELSE j + 1
<1>1. n \in Nat /\ DOMAIN running_list = 1..n /\ i \in 1..n
  BY LenProperties DEF TypeOK
<1>2. /\ Unlink(i) \in Seq(Entry) /\ Len(Unlink(i)) = n - 1
      /\ DOMAIN Unlink(i) = 1..(n - 1)
      /\ \A j \in 1..(n - 1) : Unlink(i)[j] = running_list[from(j)]
  BY UnlinkType, LenProperties DEF TypeOK
<1>3. \A j \in 1..(n - 1) : from(j) \in 1..n /\ from(j) /= i
  BY <1>1
<1>4. \A l \in 1..n : l /= i => Shrinks(running_list[l].target)
  <2>1. \A l \in 1..n : running_list[l].target \in Target
    <3>1. \A l \in 1..n : running_list[l] \in Entry
      BY <1>1, ElementOfSeq DEF TypeOK
    <3>. QED  BY <3>1 DEF Entry
  <2>. QED  BY <1>1, <2>1 DEF Once
<1>5. \A j \in 1..(n - 1) : \E l \in DOMAIN running_list :
         Unlink(i)[j] = running_list[l] /\ Shrinks(running_list[l].target)
  <2>. HIDE DEF n, from
  <2>. QED  BY <1>1, <1>2, <1>3, <1>4
<1>. HIDE DEF n, from
<1>6. CASE running_list' = Unlink(i)
  BY <1>2, <1>5, <1>6 DEF EntriesGood
<1>7. ASSUME NEW e \in Entry, ~Active(e), running_list' = Append(Unlink(i), e)
      PROVE  EntriesGood
  <2>1. PICK rest : rest = Unlink(i)
    OBVIOUS
  <2>2. rest \in Seq(Entry) /\ Len(rest) = n - 1 /\ n - 1 \in Nat
    BY <1>1, <1>2, <2>1, LenProperties
  <2>3. /\ DOMAIN running_list' = 1..((n - 1) + 1)
        /\ \A j \in 1..(n - 1) : running_list'[j] = rest[j]
        /\ running_list'[(n - 1) + 1] = e
    BY <1>7, <2>1, <2>2, AppendProperties, LenProperties
  <2>4. \A j \in 1..((n - 1) + 1) : j = (n - 1) + 1 \/ j \in 1..(n - 1)
    BY <2>2
  <2>5. \A j \in DOMAIN running_list' : j \in 1..(n - 1) \/ ~Active(running_list'[j])
    BY <1>7, <2>3, <2>4
  <2>6. \A j \in DOMAIN running_list' : ~Active(running_list'[j]) => EntryGood(running_list[j])'
    BY DEF EntryGood, Active
  <2>. QED  BY <1>5, <2>1, <2>3, <2>5, <2>6 DEF EntriesGood
<1>. QED  BY <1>6, <1>7

LEMMA FinishChildFresh ==
  ASSUME FreshSound, FinishChild, TypeOK', Forward, ~fatal_in_progress'
  PROVE  FreshInv'
<1>1. PICK i \in DOMAIN running_list :
        LET f == running_list[i] IN
        /\ f \in Entry /\ f.st \in {"ok", "failed"}
        /\ pc = "finish" /\ UNCHANGED <<pc, back, stack>>
        /\ \E list \in Reported(f.target, deps[f.target]) :
              /\ deps' = [deps EXCEPT ![f.target] = list]
              /\ FinishDoname(f, list, Unlink(i))
  BY FinishChildIs, Zenon DEF FreshSound
<1>2. PICK e \in Entry : e = running_list[i]
  BY <1>1
<1>3. PICK list \in Reported(e.target, deps[e.target]) :
        /\ e = running_list[i] /\ e.st \in {"ok", "failed"}
        /\ pc = "finish" /\ UNCHANGED <<pc, back, stack>>
        /\ deps' = [deps EXCEPT ![e.target] = list]
        /\ FinishDoname(e, list, Unlink(i))
  BY <1>1, <1>2, Zenon
<1>4. PICK t \in Target : t = e.target
  BY DEF Entry
<1>5. /\ TypeOK /\ GoodInv /\ VisitInv /\ WorkInv /\ NoGroups /\ ListInv /\ MakingInv
      /\ Dutiful /\ TargetGood(t) /\ EntryGood(e) /\ state[t] = "running"
      /\ clock < file_max_time /\ Activated
  <2>1. state[t] = "running"
    BY <1>3, <1>4 DEF FreshSound, Sound, BuildInv, ListInv, Waits
  <2>. QED  BY <1>3, <2>1 DEF FreshSound, Sound, BuildInv, FreshInv, GoodInv, Orderly
<1>6. clock' = clock /\ clock \in Nat /\ clock <= clock' /\ e.time \in Nat
  BY <1>5 DEF FinishChild, TypeOK, Entry
<1>7. /\ list \in Seq(Dependency)
      /\ \A j \in DOMAIN list : list[j].built => j \in DOMAIN deps[t] /\ deps[t][j].built
  <2>1. deps[t] \in Seq(Dependency) /\ list \in Reported(t, deps[t])
    BY <1>4, <1>5 DEF TypeOK
  <2>. QED  BY <2>1, ReportedType, ReportedGrows
<1>8. \A u \in Target : deps'[u] = IF u = t THEN list ELSE deps[u]
  BY <1>3, <1>4, <1>5 DEF TypeOK
<1>9. PICK s \in {"ok", "failed", "running"}, again \in BOOLEAN :
        /\ state' = [state EXCEPT ![t] = s]
        /\ s = "failed" => UNCHANGED <<mtime, rechecking>>
        /\ s /= "failed" => /\ e.st = "ok" /\ mtime' = Nice(TimeFor(t, e.time), t)
                            /\ rechecking' \in {rechecking, [rechecking EXCEPT ![t] = TRUE]}
        /\ s = "ok" => ~NewAutos(list, e.autos)
        /\ \/ running_list' = Unlink(i)
           \/ running_list' = Append(Unlink(i), Waiting(t, "pending", TRUE))
  BY <1>3, <1>4 DEF FinishDoname
<1>10. \A u \in Target : state'[u] = IF u = t THEN s ELSE state[u]
  BY <1>5, <1>9 DEF TypeOK
<1>11. /\ \A u \in Target : u /= t => mtime'[u] = mtime[u] /\ rechecking'[u] = rechecking[u]
       /\ mtime'[t] = IF s = "failed" THEN mtime[t] ELSE
                      IF e.time = 0 THEN file_max_time ELSE e.time
       /\ s = "failed" => rechecking'[t] = rechecking[t]
  <2>1. CASE s = "failed"
    BY <1>9, <2>1
  <2>2. CASE s /= "failed"
    <3>1. /\ \A u \in Target : u /= t => Nice(TimeFor(t, e.time), t)[u] = mtime[u]
          /\ Nice(TimeFor(t, e.time), t)[t] = IF e.time = 0 THEN file_max_time ELSE e.time
      BY <1>5, <1>6, NiceTime
    <3>2. rechecking \in [Target -> BOOLEAN]
      BY <1>5 DEF TypeOK
    <3>. QED  BY <1>9, <2>2, <3>1, <3>2
  <2>. QED  BY <2>1, <2>2
<1>12. \A u \in Target : u /= t => Kept(u)
  BY <1>8, <1>10, <1>11, KeptSame
<1>13. Steady
  BY <1>5, <1>12, SteadyIs
<1>14. /\ t \in Rule /\ LiveIn(deps[t], Made) /\ Known(t, e.autos)
       /\ s /= "failed" => /\ e.time <= clock /\ LiveIn(deps[t], Aged(e.time))
                           /\ t \notin Phony => e.time > 0
  BY <1>3, <1>4, <1>5, <1>9 DEF EntryGood, Active
<1>15. t \in Phony => DOMAIN list = {}
  BY <1>4, <1>5, ReportLive DEF TargetGood, Dutiful
<1>16. PICK m \in Nat : /\ mtime'[t] = m
                        /\ s = "failed" => m = mtime[t]
                        /\ s /= "failed" => m = e.time \/ t \in Phony
                        /\ s /= "failed" => m <= clock \/ (t \in Phony /\ m = file_max_time)
  <2>1. CASE s = "failed"
    <3>1. mtime'[t] = mtime[t] /\ mtime[t] \in Nat
      BY <1>5, <1>11, <2>1 DEF TypeOK
    <3>. QED  BY <2>1, <3>1
  <2>2. CASE s /= "failed" /\ e.time = 0
    <3>1. mtime'[t] = file_max_time /\ t \in Phony /\ file_max_time \in Nat
      BY <1>6, <1>11, <1>14, <2>2, OptionAssumption
    <3>. QED  BY <2>2, <3>1
  <2>3. CASE s /= "failed" /\ e.time /= 0
    <3>1. mtime'[t] = e.time /\ e.time <= clock
      BY <1>11, <1>14, <2>3
    <3>. QED  BY <1>6, <2>3, <3>1
  <2>. QED  BY <2>1, <2>2, <2>3
<1>17. Aged(m) \subseteq Aged(m)'
  BY <1>5, <1>13, AgedStays
<1>18. s /= "failed" => /\ ToldIn(list, Aged(m))
                        /\ s = "ok" => LiveIn(list, Aged(m))
  <2>. SUFFICES ASSUME s /= "failed" PROVE ToldIn(list, Aged(m)) /\ (s = "ok" => LiveIn(list, Aged(m)))
    OBVIOUS
  <2>1. CASE t \in Phony
    BY <1>15, <2>1 DEF LiveIn, ToldIn
  <2>2. CASE t \notin Phony
    <3>1. m = e.time
      BY <1>16, <2>2
    <3>2. LiveIn(deps[t], Aged(m))
      BY <1>14, <3>1
    <3>3. s = "ok" => ~NewAutos(list, e.autos)
      BY <1>9
    <3>4. list \in Reported(t, deps[t])
      BY <1>4
    <3>. QED  BY <1>5, <1>14, <3>2, <3>3, <3>4, ReportLive
  <2>. QED  BY <2>1, <2>2
<1>19. rechecking'[t] => ToldIn(list, Aged(m))
  <2>1. CASE s = "failed"
    <3>1. m = mtime[t] /\ (rechecking'[t] => rechecking[t])
      BY <1>11, <1>16, <2>1
    <3>2. rechecking'[t] => ToldIn(deps[t], Aged(m))
      BY <1>5, <1>14, <3>1 DEF TargetGood
    <3>3. list \in Reported(t, deps[t])
      BY <1>4
    <3>. QED  BY <1>5, <3>2, <3>3, ReportLive
  <2>. QED  BY <1>18, <2>1
<1>20. TargetGood(t)'
  <2>1. m <= clock' \/ m = file_max_time
    BY <1>5, <1>6, <1>16 DEF TargetGood
  <2>2. t \notin Phony => m <= clock'
    BY <1>5, <1>6, <1>14, <1>16 DEF TargetGood
  <2>3. \A S, T : S \subseteq T => /\ LiveIn(list, S) => LiveIn(list, T)
                                   /\ ToldIn(list, S) => ToldIn(list, T)
    BY DEF LiveIn, ToldIn
  <2>4. (state'[t] = "ok" => LiveIn(list, Aged(m)')) /\ (rechecking'[t] => ToldIn(list, Aged(m)'))
    BY <1>10, <1>17, <1>18, <1>19, <2>3
  <2>5. deps'[t] = list
    BY <1>8
  <2>. QED  BY <1>14, <1>15, <1>16, <2>1, <2>2, <2>4, <2>5 DEF TargetGood
<1>21. EntriesGood
  <2>1. Waiting(t, "pending", TRUE) \in Entry /\ ~Active(Waiting(t, "pending", TRUE))
    BY WaitingType DEF Waiting, Active
  <2>2. \A u \in Target : u /= running_list[i].target => Shrinks(u)
    BY <1>3, <1>4, <1>12 DEF Kept
  <2>. QED  BY <1>5, <1>9, <2>1, <2>2, RestGood DEF ListInv
<1>22. Making' = Making /\ (TopIsMade' <=> TopIsMade) /\ UNCHANGED stack
  BY <1>3 DEF Making, TopIsMade
<1>23. \A k \in Making : stack[k].target \in Target /\ Kept(stack[k].target)
  BY <1>5, <1>12, StackFrames DEF MakingInv, Making
<1>24. GoodInv'
  <2>1. \A k \in Making' : \E l \in Making : stack'[k] = stack[l] /\ Kept(stack[l].target)
    BY <1>22, <1>23
  <2>2. \A u \in Target : Kept(u) \/ (state[u] /= "ok" /\ TargetGood(u)')
    BY <1>5, <1>12, <1>20
  <2>. QED  BY <1>5, <1>6, <1>21, <2>1, <2>2, GoodStep DEF EntriesGood
<1>25. VisitInv'
  <2>1. \A d \in Sure : Visited(d) => Visited(d)'
    BY <1>10, <1>22 DEF Visited, Called, Sure
  <2>2. \A u \in Target : ~(state[u] = "dont_know" /\ state'[u] /= "dont_know")
    BY <1>5, <1>10
  <2>3. \A u \in Target : \A j \in DOMAIN deps'[u] : deps'[u][j].built =>
           j \in DOMAIN deps[u] /\ deps[u][j].built
    BY <1>7, <1>8
  <2>. QED  BY <1>5, <2>1, <2>2, <2>3, VisitStays DEF Forward
<1>26. WorkInv'
  <2>. SUFFICES ASSUME TopIsMade' PROVE (Top.target \in Rule /\ LiveIn(deps[Top.target], Made))'
    BY DEF WorkInv
  <2>1. PICK u : u = Top.target /\ u = Top'.target
    BY <1>22 DEF Top
  <2>2. Len(stack) \in Making /\ stack[Len(stack)].target = u /\ u \in Rule /\ LiveIn(deps[u], Made)
    <3>1. TopIsMade /\ pc /= "deps" /\ stack /= <<>>
      BY <1>3, <1>5, <1>22 DEF Activated, TopIsMade
    <3>2. Len(stack) \in Making
      BY <1>5, <3>1, AsTopIs DEF Making, TypeOK
    <3>. QED  BY <1>5, <2>1, <3>1, <3>2 DEF WorkInv, Top
  <2>3. Shrinks(u)
    BY <1>23, <2>2 DEF Kept
  <2>4. Made \subseteq Made'
    BY <1>5, <1>6, <1>13, AgedStays
  <2>5. LiveIn(deps'[u], Made')
    BY <2>2, <2>3, <2>4, LiveStays
  <2>. QED  BY <2>1, <2>2, <2>5
<1>. QED  BY <1>3, <1>24, <1>25, <1>26 DEF FreshInv, AnswerSure

-----------------------------------------------------------------------------
(* process_next(), make_targets(), and every step *)

\* A doname() of its own for the target t.
LEMMA SingleFresh ==
  ASSUME FreshSound, TypeOK', Forward, stack = <<>>, NEW t \in Target,
         stack' = <<Activation(t, FALSE)>>, pc' = "enter",
         UNCHANGED <<deps, mtime, rechecking, clock>>,
         NEW s \in {"pending", "dont_know"},
         state' \in {state, [state EXCEPT ![t] = s]},
         state' = state \/ state[t] = "running", EntriesGood
  PROVE  FreshInv'
<1>1. TypeOK /\ GoodInv /\ VisitInv /\ clock <= clock' /\ clock < file_max_time
  BY DEF FreshSound, Sound, FreshInv, TypeOK
<1>2. \A u \in Target : \/ state'[u] = state[u]
                        \/ u = t /\ state[u] = "running" /\ state'[u] = s
  BY <1>1 DEF TypeOK
<1>3. \A u \in Target : Kept(u)
  BY <1>2, KeptSame
<1>4. PICK f : f = Activation(t, FALSE)
  OBVIOUS
<1>5. f.target = t /\ stack' = <<f>>
  BY <1>4 DEF Activation
<1>6. DOMAIN stack = {} /\ DOMAIN stack' = {1} /\ stack'[1] = f /\ Len(stack') = 1
  <2>1. DOMAIN <<f>> = {1} /\ <<f>>[1] = f /\ Len(<<f>>) = 1
    OBVIOUS
  <2>2. DOMAIN stack = {}
    OBVIOUS
  <2>. QED  BY <1>5, <2>1, <2>2, Zenon
<1>7. ~TopIsMade' /\ Making' = {}
  <2>1. ~TopIsMade'
    BY DEF TopIsMade
  <2>. QED  BY <1>6, <2>1 DEF Making
<1>8. GoodInv'
  BY <1>1, <1>3, <1>7, GoodStep DEF EntriesGood
<1>9. VisitInv'
  <2>1. \A d \in Sure : Visited(d) => Visited(d)'
    <3>1. \A d : d = t => Called(d)'
      BY <1>5, <1>6 DEF Called
    <3>2. \A d : ~Called(d)
      BY <1>6 DEF Called
    <3>. QED  BY <1>2, <3>1, <3>2 DEF Visited, Sure
  <2>2. \A u \in Target : ~(state[u] = "dont_know" /\ state'[u] /= "dont_know")
    BY <1>2
  <2>. QED  BY <1>1, <2>1, <2>2, VisitStays DEF Forward
<1>. QED  BY <1>7, <1>8, <1>9 DEF FreshInv, WorkInv, AnswerSure

LEMMA ResumeFresh ==
  ASSUME FreshSound, TypeOK', Forward, pc \in {"next1", "next2"},
         NEW i \in DOMAIN running_list, NEW s \in {"pending", "dont_know"}, NEW where,
         Resume(i, s, where), UNCHANGED <<deps, mtime, rechecking, clock>>
  PROVE  FreshInv'
<1>1. TypeOK /\ ReadyInv /\ ListInv
  BY DEF FreshSound, Sound, BuildInv
<1>2. PICK t \in Target : t = running_list[i].target /\ state[t] = "running"
  <2>1. running_list[i] \in Entry
    BY <1>1, ElementOfSeq, LenProperties DEF TypeOK
  <2>2. running_list[i].target \in Target
    BY <2>1 DEF Entry
  <2>. QED  BY <1>1, <2>2 DEF ListInv, Waits
<1>3. stack = <<>>
  BY <1>1 DEF ReadyInv, StackInv, InDoname, TopIsMade
<1>4. /\ state' = [state EXCEPT ![t] = s] /\ running_list' = Unlink(i)
      /\ stack' = <<Activation(t, FALSE)>> /\ pc' = "enter"
  BY <1>2 DEF Resume
<1>5. EntriesGood
  <2>1. \A u \in Target : Shrinks(u)
    BY ShrinksSame
  <2>. QED  BY <1>1, <1>4, <2>1, RestGood DEF ListInv
<1>. QED  BY <1>2, <1>3, <1>4, <1>5, SingleFresh

\* No activation of doname(), and none begins.
LEMMA IdleFresh ==
  ASSUME FreshSound, TypeOK', Forward, UNCHANGED <<targetVars, stack, running_list, clock>>,
         pc' \in {"goals", "next2", "finish_running", "done"}
  PROVE  FreshInv'
<1>1. UNCHANGED <<state, deps, mtime, rechecking, stack>> /\ ~TopIsMade'
  BY DEF targetVars, TopIsMade
<1>2. EntriesGood
  BY <1>1, ShrinksSame, SameEntries
<1>3. clock <= clock'
  BY DEF FreshSound, Sound, TypeOK
<1>. QED  BY <1>1, <1>2, <1>3, QuietFresh DEF FreshSound

LEMMA ProcessNextFresh ==
  ASSUME FreshSound, NextSerial \/ NextPending, TypeOK', Forward, ~fatal_in_progress'
  PROVE  FreshInv'
<1>1. pc \in {"next1", "next2"} /\ UNCHANGED <<deps, mtime, rechecking, clock>>
  BY DEF NextSerial, NextPending
<1>2. \/ \E i \in Serials \cup Startable, s \in {"pending", "dont_know"} : \E where :
            Resume(i, s, where)
      \/ UNCHANGED <<state, running_list, stack>> /\ pc' \in {"next2", "finish_running"}
  BY DEF NextSerial, NextPending, Fatal
<1>3. \A i \in Serials \cup Startable : i \in DOMAIN running_list
  BY DEF Serials, Startable
<1>4. CASE UNCHANGED <<state, running_list, stack>> /\ pc' \in {"next2", "finish_running"}
  BY <1>1, <1>4, IdleFresh DEF targetVars
<1>. QED  BY <1>1, <1>2, <1>3, <1>4, ResumeFresh

LEMMA MakeTargetsFresh ==
  ASSUME FreshSound, MakeTargets, TypeOK', Forward
  PROVE  FreshInv'
<1>1. UNCHANGED <<targetVars, running_list, clock>> /\ pc = "goals"
  BY DEF MakeTargets, listVars
<1>2. CASE UNCHANGED stack /\ pc' \in {"finish_running", "goals", "done"}
  BY <1>1, <1>2, IdleFresh
<1>3. CASE /\ gi <= Len(Goals) /\ Goals[gi] /= Wait
           /\ stack' = <<Activation(Goals[gi], FALSE)>> /\ pc' = "enter"
  <2>1. Goals[gi] \in Target
    <3>1. gi \in 1..Len(Goals)
      BY <1>3, GraphAssumption, LenProperties DEF FreshSound, Sound, TypeOK
    <3>2. Goals[gi] \in Target \cup {Wait}
      BY <3>1, GraphAssumption, ElementOfSeq
    <3>. QED  BY <1>3, <3>2
  <2>2. stack = <<>>
    BY <1>1 DEF FreshSound, Sound, ReadyInv, StackInv, InDoname, TopIsMade
  <2>3. UNCHANGED <<state, deps, mtime, rechecking>>
    BY <1>1 DEF targetVars
  <2>4. EntriesGood
    BY <1>1, <2>3, ShrinksSame, SameEntries
  <2>. QED  BY <1>1, <1>3, <2>1, <2>2, <2>3, <2>4, SingleFresh
<1>. QED  BY <1>2, <1>3 DEF MakeTargets

\* Every step before a fatal error and the end of time keeps FreshInv.
LEMMA FreshStep ==
  ASSUME FreshSound, TypeOK', [Next]_vars, ~fatal_in_progress'
  PROVE  FreshInv'
<1>1. Forward /\ ReadyInv'
  BY ReadyStep DEF FreshSound
<1>2. CASE MakeStep
  <2>1. ~Drain
    BY DEF Drain, FreshSound, Sound, FatalInv, Draining
  <2>. QED  BY <1>1, <1>2, <2>1, EnterEarlyFresh, EnterFullFresh, DonameCheckFresh,
            ScanDependencyFresh, AddPendingFresh, NoCommandFresh, CommandNotRunFresh,
            RunCommandFresh, DistributeProcessFresh, AwaitParallelFresh,
            FinishChildFresh, SameListFresh, ProcessNextFresh, MakeTargetsFresh
       DEF MakeStep
<1>3. CASE SerialExit
  BY <1>1, <1>3, SerialExitFresh
<1>4. CASE \E t \in Target : JobExit(t)
  BY <1>1, <1>4, JobExitFresh
<1>5. CASE Over \/ UNCHANGED vars
  <2>1. UNCHANGED <<targetVars, stack, running_list, clock, pc, back>>
    BY <1>5 DEF Over, vars, listVars
  <2>2. TopIsMade' <=> TopIsMade
    BY <2>1 DEF TopIsMade
  <2>3. clock <= clock'
    BY <2>1 DEF FreshSound, Sound, TypeOK
  <2>. QED  BY <1>1, <2>1, <2>2, <2>3, ListFresh
<1>. QED  BY <1>2, <1>3, <1>4, <1>5 DEF Next

\* The clock never goes back.
LEMMA ClockStep ==
  ASSUME TypeOK, TypeOK', [Next]_vars
  PROVE  clock <= clock'
<1>. SUFFICES ASSUME clock' /= clock PROVE clock <= clock'
  BY DEF TypeOK
<1>1. ~UNCHANGED vars /\ ~Over
  BY DEF Over, vars
<1>2. /\ ~EnterEarly /\ ~EnterFull /\ ~DonameCheck /\ ~ScanDependency /\ ~AddPending
      /\ ~NoCommand /\ ~CommandNotRun /\ ~RunCommand
  BY Zenon DEF EnterEarly, EnterFull, DonameCheck, ScanDependency, AddPending, NoCommand,
     CommandNotRun, RunCommand
<1>3. /\ ~DistributeProcess /\ ~AwaitParallel /\ ~FinishChild /\ ~FinishChildrenReturns
      /\ ~FinishRunning /\ ~NextSerial /\ ~NextPending /\ ~MakeTargets /\ ~Drain
  BY Zenon DEF DistributeProcess, AwaitParallel, FinishChild, FinishChildrenReturns,
     FinishRunning, NextSerial, NextPending, MakeTargets, Drain
<1>4. CASE SerialExit
  <2>1. PICK time : time = RecipeTime(Top.target)
    OBVIOUS
  <2>2. clock' = Later(clock, time)
    BY <1>4, <2>1, Zenon DEF SerialExit
  <2>. QED  BY <2>2 DEF Later, TypeOK
<1>5. CASE \E t \in Target : JobExit(t)
  <2>1. PICK t \in Target : JobExit(t)
    BY <1>5
  <2>2. PICK time : time = RecipeTime(t)
    OBVIOUS
  <2>3. clock' = Later(clock, time)
    BY <2>1, <2>2, Zenon DEF JobExit
  <2>. QED  BY <2>3 DEF Later, TypeOK
<1>. QED  BY <1>1, <1>2, <1>3, <1>4, <1>5, Zenon DEF Next, MakeStep

LEMMA FreshInit ==
  ASSUME Dutiful, Init
  PROVE  FreshInv
<1>1. /\ TypeOK /\ clock = StartTime /\ StartTime \in Nat /\ deps \in Makefiles
      /\ mtime \in Times /\ mtime \in [Target -> 0..StartTime]
  BY RunningInit, GraphAssumption DEF Init, RunningInv, IInv, TypeInv
<1>2. /\ DOMAIN stack = {} /\ DOMAIN running_list = {} /\ pc = "goals"
  BY DEF Init
<1>3. ASSUME NEW u \in Target PROVE TargetGood(u)
  <2>1. mtime[u] \in 0..StartTime /\ mtime[u] <= clock
    BY <1>1
  <2>2. u \in Phony => DOMAIN deps[u] = {}
    BY <1>1 DEF Dutiful
  <2>3. u \in Sure \ (Rule \cup Listed) => mtime[u] \in 1..StartTime
    BY <1>1, <2>1 DEF Sure
  <2>4. state[u] = "dont_know" /\ ~rechecking[u]
    BY DEF Init
  <2>. QED  BY <2>1, <2>2, <2>3, <2>4 DEF TargetGood
<1>4. GoodInv
  BY <1>1, <1>2, <1>3 DEF GoodInv, Making
<1>5. VisitInv
  BY DEF VisitInv, Init
<1>. QED  BY <1>2, <1>4, <1>5 DEF FreshInv, WorkInv, AnswerSure, TopIsMade
-----------------------------------------------------------------------------
(* The theorem *)

\* What holds in every reachable state of an orderly and dutiful build.
UpToDateInv == /\ OrderlyInv
               /\ ~fatal_in_progress /\ clock < file_max_time => FreshInv

LEMMA UpToDateStep ==
  ASSUME Orderly, Dutiful, UpToDateInv, [Next]_vars
  PROVE  UpToDateInv'
<1>1. OrderlyInv /\ OrderlyInv'
  BY OrderlyStep DEF UpToDateInv
<1>2. TypeOK /\ TypeOK' /\ FatalInv
  BY <1>1 DEF OrderlyInv, RunningInv, IInv, TypeInv
<1>3. ASSUME ~fatal_in_progress', clock' < file_max_time PROVE FreshInv'
  <2>1. ~fatal_in_progress
    BY <1>2, <1>3, FatalStep
  <2>2. clock < file_max_time
    <3>1. clock <= clock' /\ clock \in Nat /\ clock' \in Nat /\ file_max_time \in Nat
      BY <1>2, ClockStep, OptionAssumption DEF TypeOK
    <3>. QED  BY <1>3, <3>1
  <2>3. FreshSound
    BY <1>1, <2>1, <2>2, OrderlySound DEF FreshSound, UpToDateInv
  <2>. QED  BY <1>2, <1>3, <2>3, FreshStep
<1>. QED  BY <1>1, <1>3 DEF UpToDateInv

LEMMA UpToDateSound ==
  ASSUME UpToDateInv
  PROVE  clock < file_max_time => EndsUpToDate
<1>. SUFFICES ASSUME clock < file_max_time, pc = "done", NEW t \in Rule, state[t] = "ok",
                     NEW j \in DOMAIN deps[t], Live(deps[t][j])
              PROVE  deps[t][j].name \in Aged(mtime[t])
  BY DEF EndsUpToDate, Live, Aged, Made
<1>1. ~fatal_in_progress
  BY DEF UpToDateInv, OrderlyInv, RunningInv, FatalInv, Draining
<1>2. t \in Target
  BY GraphAssumption
<1>3. TargetGood(t)
  BY <1>1, <1>2 DEF UpToDateInv, FreshInv, GoodInv
<1>. QED  BY <1>3 DEF TargetGood, LiveIn

\* When no target depends on itself or is in a group (and under -k each has a
\* recipe), recipes report only targets make can make or find, those that do not
\* touch their target have no dependencies, and the files stay older than
\* file_max_time, a build that ends without an error leaves no target with a
\* recipe older than one of its dependencies.  This is so whichever jobs run at a
\* time, and however often a report sends make back to its target.
\* (doname.cc 352-1141, parallel.cc 690-1010 and 1403-1560)
THEOREM UpToDate ==
  ASSUME Orderly, Dutiful
  PROVE  Spec => [](clock < file_max_time => EndsUpToDate)
<1>1. Init => UpToDateInv
  BY RunningInit, ReadyInit, FreshInit DEF UpToDateInv, OrderlyInv
<1>2. UpToDateInv /\ [Next]_vars => UpToDateInv'
  BY UpToDateStep
<1>3. UpToDateInv => (clock < file_max_time => EndsUpToDate)
  BY UpToDateSound
<1>. QED  BY <1>1, <1>2, <1>3, PTL DEF Spec
=============================================================================
