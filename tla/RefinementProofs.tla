-------------------------- MODULE RefinementProofs --------------------------
(***************************************************************************)
(* JobScheduler implements BuildOrder: every step of make begins a target  *)
(* whose dependencies are made, ends one, finds one up to date, or changes *)
(* nothing that BuildOrder knows.                                          *)
(***************************************************************************)
EXTENDS JobSchedulerProofs

\* What the makefile says of a target, not what a recipe reported.
Told(d)  == ~d.auto /\ d.name /= Wait
Needs(t) == {deps[t][j].name : j \in {k \in DOMAIN deps[t] : ~deps[t][k].auto}} \ {Wait}
Made     == {t \in Target : state[t] = "ok"}
Ready(t) == Needs(t) \subseteq Made

\* The targets whose commands run, or ran and are not finished.
Active(e)      == e.st \in {"running", "ok", "failed"}
ActiveOf(list) == {list[i].target : i \in {j \in DOMAIN list : Active(list[j])}}
InWork == ActiveOf(running_list) \cup (IF pc = "serial" THEN {Top.target} ELSE {})

\* A list of dependencies only gets longer, by dependencies that were reported.
Grows(old, new) ==
    /\ DOMAIN old \subseteq DOMAIN new
    /\ \A j \in DOMAIN old : new[j].name = old[j].name /\ new[j].auto = old[j].auto
    /\ \A j \in DOMAIN new : j \notin DOMAIN old => new[j].auto

\* No dependency of the makefile is newly marked as built.
NotMarked(old, new) == \A j \in DOMAIN new :
    Told(new[j]) /\ new[j].built => j \in DOMAIN old /\ old[j].built

\* What check_dependencies() of f has behind it: dependencies that are made,
\* unless it has seen one running or one that failed.
Scan(f) == \A j \in DOMAIN deps[f.target] :
    LET d == deps[f.target][j] IN
    j < f.i /\ Told(d) => state[d.name] = "ok" \/ f.running \/ f.result = "failed"

\* g is the activation of doname() for the dependency f is at.
Calls(f, g) == /\ f.i \in DOMAIN deps[f.target]
               /\ deps[f.target][f.i].name = g.target
               /\ deps[f.target][f.i].auto = g.auto

FrameOk(f) == /\ f.recheck => Ready(f.target)
              /\ ~KeepGoing => f.result /= "failed"

StackInv ==
    /\ \A k \in DOMAIN stack : FrameOk(stack[k])
    /\ \A k \in Making : Scan(stack[k])
    /\ \A k \in DOMAIN stack : k < Len(stack) => Calls(stack[k], stack[k + 1])
    /\ stack /= <<>> => InDoname

\* The answer doname_check() looks at is the state of the target.
AnswerInv == pc = "check" =>
    /\ state[Top.target] = Top.result
    /\ Top.result \in {"ok", "running", "failed", "dont_know"}
    /\ Target \subseteq Rule => Top.result /= "dont_know"

MadeBy(t) == \E k \in Making : stack[k].target = t

TargetInv == \A t \in Target :
    /\ rechecking[t] => Ready(t)
    /\ ~KeepGoing => state[t] /= "failed"
    /\ state[t] = "in_progress" => MadeBy(t)

\* A dependency of the makefile that is marked as built was asked for, and is
\* made, or failed, or is on its way.
OnStack(d) == \E k \in DOMAIN stack :
    stack[k].target = d /\ (stack[k].auto => KeepGoing)
Settled(d) == state[d] \in {"ok", "running", "failed"} \/ OnStack(d)
BuiltInv == \A t \in Target : state[t] /= "dont_know" =>
    \A j \in DOMAIN deps[t] :
       Told(deps[t][j]) /\ deps[t][j].built => Settled(deps[t][j].name)

\* Commands run only for targets whose dependencies are made.
JobsInv ==
    /\ TopIsMade /\ pc /= "deps" => Ready(Top.target)
    /\ \A t \in ActiveOf(running_list) : Ready(t)
    /\ Finished /= {} => pc = "finish"

ReadyInv == StackInv /\ AnswerInv /\ TargetInv /\ BuiltInv /\ JobsInv

\* No target depends on itself or is in a group, and under -k every target has
\* a recipe.
Orderly == Acyclic /\ NoGroups /\ (KeepGoing => Target \subseteq Rule)
-----------------------------------------------------------------------------
(* The lists of dependencies *)

LEMMA GrowsOn ==
  ASSUME NEW a, NEW b, NEW c, Grows(a, b), Grows(b, c)
  PROVE  Grows(a, c) /\ (NotMarked(a, b) /\ NotMarked(b, c) => NotMarked(a, c))
BY DEF Grows, NotMarked, Told

LEMMA GrowsSame ==
  ASSUME NEW a
  PROVE  Grows(a, a) /\ NotMarked(a, a)
BY DEF Grows, NotMarked

LEMMA UnbuiltGrows ==
  ASSUME NEW ds \in Seq(Dependency)
  PROVE  /\ Grows(ds, Unbuilt(ds)) /\ NotMarked(ds, Unbuilt(ds))
         /\ \A j \in DOMAIN Unbuilt(ds) : ~Unbuilt(ds)[j].built
<1>1. \A j \in DOMAIN ds : ds[j] \in Dependency
  BY ElementOfSeq, LenProperties
<1>2. /\ DOMAIN Unbuilt(ds) = DOMAIN ds
      /\ \A j \in DOMAIN ds : /\ Unbuilt(ds)[j].name = ds[j].name
                              /\ Unbuilt(ds)[j].auto = ds[j].auto
                              /\ ~Unbuilt(ds)[j].built
  BY <1>1 DEF Unbuilt, Dependency
<1>. QED  BY <1>2 DEF Grows, NotMarked

LEMMA MarkBuiltGrows ==
  ASSUME TypeOK, NEW f \in Frame, NEW r
  PROVE  \A t \in Target :
           /\ Grows(deps[t], MarkBuilt(f, r)[t])
           /\ \A j \in DOMAIN MarkBuilt(f, r)[t] : MarkBuilt(f, r)[t][j].built =>
                deps[t][j].built \/ (t = f.target /\ j = f.i)
<1>. DEFINE ds == deps[f.target]
            Mark(d) == [d EXCEPT !.built = TRUE, !.stale = d.stale \/ r = "dont_know"]
            new == [j \in DOMAIN ds |-> IF j = f.i THEN Mark(ds[j]) ELSE ds[j]]
<1>1. f.target \in Target /\ ds \in Seq(Dependency)
  BY DEF TypeOK, Frame
<1>2. \A j \in DOMAIN ds : ds[j] \in Dependency
  BY <1>1, ElementOfSeq, LenProperties
<1>3. /\ DOMAIN new = DOMAIN ds
      /\ \A j \in DOMAIN ds : /\ new[j].name = ds[j].name /\ new[j].auto = ds[j].auto
                              /\ new[j].built => ds[j].built \/ j = f.i
  BY <1>2 DEF Dependency
<1>4. MarkBuilt(f, r) = [deps EXCEPT ![f.target] = new]
  BY Zenon DEF MarkBuilt
<1>. HIDE DEF new
<1>5. \A t \in Target : MarkBuilt(f, r)[t] = IF t = f.target THEN new ELSE deps[t]
  BY <1>1, <1>4 DEF TypeOK
<1>6. Grows(ds, new)
  BY <1>3 DEF Grows
<1>. QED  BY <1>1, <1>3, <1>5, <1>6, GrowsSame

\* A recipe's report leaves the dependencies of the makefile alone; of the hidden
\* ones those count that it reports.
LEMMA ReportedGrows ==
  ASSUME NEW t \in Target, NEW ds \in Seq(Dependency), NEW list \in Reported(t, ds)
  PROVE  /\ Grows(ds, list) /\ NotMarked(ds, list)
         /\ list = ds \/ (KeepState /\ Reports[t] /= {})
         /\ \A j \in DOMAIN list :
              /\ list[j].built => j \in DOMAIN ds /\ ds[j].built
              /\ ~list[j].auto => j \in DOMAIN ds /\ list[j] = ds[j]
              /\ list[j].auto /\ ~list[j].stale => list = ds \/ list[j].name \in Reports[t]
<1>. DEFINE R == Reports[t]
            Mark(d) == IF d.auto THEN [d EXCEPT !.stale = d.name \notin R,
                                                !.built = d.built /\ d.name \notin R]
                                 ELSE d
            known == {ds[j].name : j \in DOMAIN ds}
            marked == [j \in DOMAIN ds |-> Mark(ds[j])]
            added(q) == [j \in DOMAIN q |-> Depend(q[j], TRUE)]
<1>1. CASE ~(KeepState /\ R /= {})
  <2>1. Reported(t, ds) = {ds}
    BY <1>1, Zenon DEF Reported
  <2>. QED  BY <2>1, GrowsSame
<1>2. CASE KeepState /\ R /= {}
  <2>1. PICK q \in Orders(R \ known) : list = marked \o added(q)
    BY <1>2 DEF Reported
  <2>2. \A j \in DOMAIN ds : ds[j] \in Dependency
    BY ElementOfSeq, LenProperties
  <2>3. \A j \in DOMAIN ds :
           /\ marked[j] \in Dependency /\ marked[j].name = ds[j].name
           /\ marked[j].auto = ds[j].auto
           /\ marked[j].built => ds[j].built
           /\ ~ds[j].auto => marked[j] = ds[j]
           /\ ds[j].auto /\ ~marked[j].stale => marked[j].name \in R
    BY <2>2 DEF Dependency
  <2>4. marked \in Seq(Dependency) /\ Len(marked) = Len(ds)
    <3>1. marked = [j \in DOMAIN ds |-> marked[j]]
      OBVIOUS
    <3>. HIDE DEF marked
    <3>2. \A j \in DOMAIN ds : marked[j] \in Dependency
      BY <2>3
    <3>. QED  BY <3>1, <3>2, MapType
  <2>5. PICK n \in Nat : q \in [1..n -> R]
    <3>1. IsFiniteSet(R \ known)
      BY GraphAssumption, FS_Subset
    <3>2. Cardinality(R \ known) \in Nat
      BY <3>1, FS_CardinalityType
    <3>. QED  BY <3>2 DEF Orders
  <2>6. /\ added(q) \in [1..n -> Dependency]
        /\ \A j \in 1..n : /\ added(q)[j].auto /\ ~added(q)[j].built
                            /\ added(q)[j].name \in R
    BY <2>5, GraphAssumption DEF Depend, Dependency
  <2>7. added(q) \in Seq(Dependency) /\ Len(added(q)) = n
    <3>. HIDE DEF added
    <3>. QED  BY <2>5, <2>6, FunctionIsSeq
  <2>8. DOMAIN ds = 1..Len(ds) /\ Len(ds) \in Nat
    BY LenProperties
  <2>9. /\ list \in Seq(Dependency) /\ Len(list) = Len(ds) + n
        /\ \A j \in 1..(Len(ds) + n) :
             list[j] = IF j <= Len(ds) THEN marked[j] ELSE added(q)[j - Len(ds)]
    <3>. HIDE DEF marked, added
    <3>1. /\ marked \o added(q) \in Seq(Dependency)
          /\ Len(marked \o added(q)) = Len(marked) + Len(added(q))
          /\ \A j \in 1..(Len(marked) + Len(added(q))) : (marked \o added(q))[j] =
               IF j <= Len(marked) THEN marked[j] ELSE added(q)[j - Len(marked)]
      BY <2>4, <2>7, ConcatProperties
    <3>. QED  BY <2>1, <2>4, <2>7, <3>1
  <2>10. DOMAIN list = 1..(Len(ds) + n)
    <3>. HIDE DEF marked, added
    <3>1. list \in Seq(Dependency) /\ Len(list) = Len(ds) + n
      BY <2>9
    <3>. QED  BY <3>1, LenProperties
  <2>11. \A j \in DOMAIN ds : j \in DOMAIN list /\ list[j] = marked[j]
    <3>. HIDE DEF marked, added
    <3>. QED  BY <2>5, <2>8, <2>9, <2>10
  <2>12. \A j \in DOMAIN list : j \notin DOMAIN ds =>
            list[j].auto /\ ~list[j].built /\ list[j].name \in R
    <3>. TAKE j \in DOMAIN list
    <3>. HAVE j \notin DOMAIN ds
    <3>1. j - Len(ds) \in 1..n /\ ~(j <= Len(ds))
      BY <2>5, <2>8, <2>10
    <3>2. list[j] = added(q)[j - Len(ds)]
      <4>. HIDE DEF marked, added
      <4>. QED  BY <2>9, <2>10, <3>1
    <3>. QED  BY <2>6, <3>1, <3>2
  <2>. HIDE DEF marked, added
  <2>13. Grows(ds, list) /\ NotMarked(ds, list)
    BY <2>3, <2>11, <2>12 DEF Grows, NotMarked, Told
  <2>14. \A j \in DOMAIN list :
            /\ list[j].built => j \in DOMAIN ds /\ ds[j].built
            /\ ~list[j].auto => j \in DOMAIN ds /\ list[j] = ds[j]
            /\ list[j].auto /\ ~list[j].stale => list[j].name \in R
    BY <2>3, <2>11, <2>12
  <2>. QED  BY <1>2, <2>13, <2>14
<1>. QED  BY <1>1, <1>2
-----------------------------------------------------------------------------
(* What is made stays made                                                 *)

\* Dependencies are only added, and no target is unmade.
Forward == /\ \A t \in Target : Grows(deps[t], deps'[t])
           /\ \A t \in Target : state[t] = "ok" => state'[t] = "ok"

LEMMA NeedsSame ==
  ASSUME NEW t \in Target, Grows(deps[t], deps'[t])
  PROVE  Needs(t)' = Needs(t)
<1>1. \A x : x \in Needs(t) <=>
         x /= Wait /\ \E k \in DOMAIN deps[t] : ~deps[t][k].auto /\ deps[t][k].name = x
  BY DEF Needs
<1>2. \A x : x \in Needs(t)' <=>
         x /= Wait /\ \E k \in DOMAIN deps'[t] : ~deps'[t][k].auto /\ deps'[t][k].name = x
  BY DEF Needs
<1>3. \A k : k \in DOMAIN deps'[t] /\ ~deps'[t][k].auto =>
               /\ k \in DOMAIN deps[t] /\ ~deps[t][k].auto
               /\ deps[t][k].name = deps'[t][k].name
  BY DEF Grows
<1>4. \A k : k \in DOMAIN deps[t] /\ ~deps[t][k].auto =>
               /\ k \in DOMAIN deps'[t] /\ ~deps'[t][k].auto
               /\ deps[t][k].name = deps'[t][k].name
  BY DEF Grows
<1>. HIDE DEF Needs
<1>5. \A x : x \in Needs(t)' <=> x \in Needs(t)
  BY <1>1, <1>2, <1>3, <1>4
<1>. QED  BY <1>5

LEMMA ReadyStays ==
  ASSUME Forward, NEW t \in Target, Ready(t)
  PROVE  Ready(t)'
<1>1. Needs(t)' = Needs(t)
  BY NeedsSame DEF Forward
<1>2. Made \subseteq Made'
  BY DEF Made, Forward
<1>. QED  BY <1>1, <1>2 DEF Ready

LEMMA ScanStays ==
  ASSUME TypeOK, Forward, NEW f \in Frame, Scan(f)
  PROVE  Scan(f)'
<1>. DEFINE t == f.target
<1>1. t \in Target /\ Grows(deps[t], deps'[t]) /\ deps[t] \in Seq(Dependency)
  BY DEF Forward, Frame, TypeOK
<1>. SUFFICES ASSUME NEW j \in DOMAIN deps'[t], j < f.i, Told(deps'[t][j]),
                     ~f.running, f.result /= "failed"
              PROVE  state'[deps'[t][j].name] = "ok"
  BY DEF Scan
<1>2. j \in DOMAIN deps[t] /\ Told(deps[t][j]) /\ deps'[t][j].name = deps[t][j].name
  BY <1>1 DEF Grows, Told
<1>3. state[deps[t][j].name] = "ok"
  BY <1>2 DEF Scan
<1>4. deps[t][j].name \in Target
  <2>1. deps[t][j] \in Dependency
    BY <1>1, <1>2, ElementOfSeq, LenProperties
  <2>. QED  BY <1>2, <2>1 DEF Told, Dependency
<1>. QED  BY <1>2, <1>3, <1>4 DEF Forward

LEMMA CallsStays ==
  ASSUME Forward, NEW f \in Frame, NEW g, Calls(f, g)
  PROVE  Calls(f, g)'
<1>1. f.target \in Target /\ Grows(deps[f.target], deps'[f.target])
  BY DEF Forward, Frame
<1>. QED  BY <1>1 DEF Calls, Grows

LEMMA FrameStays ==
  ASSUME Forward, NEW f \in Frame, FrameOk(f)
  PROVE  FrameOk(f)'
BY ReadyStays DEF FrameOk, Frame

\* When everything behind it is made, a target is ready.
LEMMA ScannedReady ==
  ASSUME TypeOK, stack /= <<>>, Scan(Top), Scanned, ~Top.running,
         Top.result /= "failed"
  PROVE  Ready(Top.target)
<1>. DEFINE t == Top.target
<1>1. Top \in Frame /\ t \in Target /\ deps[t] \in Seq(Dependency)
  BY TopTarget DEF TypeOK
<1>2. Top.i \in Nat \ {0} /\ Top.i \notin 1..Len(deps[t]) /\ Len(deps[t]) \in Nat
      /\ DOMAIN deps[t] = 1..Len(deps[t])
  BY <1>1, LenProperties DEF Scanned, Frame
<1>3. \A j \in DOMAIN deps[t] : j < Top.i
  BY <1>2
<1>4. \A j \in DOMAIN deps[t] : deps[t][j] \in Dependency
  BY <1>1, ElementOfSeq, LenProperties
<1>5. ASSUME NEW j \in DOMAIN deps[t], ~deps[t][j].auto, deps[t][j].name /= Wait
      PROVE  deps[t][j].name \in Made
  BY <1>3, <1>4, <1>5 DEF Scan, Told, Made, Dependency
<1>. QED  BY <1>5 DEF Ready, Needs
-----------------------------------------------------------------------------
(* The stack *)

LEMMA StackFrames ==
  ASSUME TypeOK
  PROVE  /\ Len(stack) \in Nat /\ DOMAIN stack = 1..Len(stack)
         /\ \A k \in DOMAIN stack : stack[k] \in Frame /\ stack[k].target \in Target
<1>1. \A k \in DOMAIN stack : stack[k] \in Frame
  BY ElementOfSeq, LenProperties DEF TypeOK
<1>. QED  BY <1>1, LenProperties DEF TypeOK, Frame

LEMMA StackSame ==
  ASSUME TypeOK, Forward, StackInv, UNCHANGED stack, TopIsMade' => TopIsMade,
         stack /= <<>> => InDoname'
  PROVE  StackInv'
<1>1. \A k \in DOMAIN stack : FrameOk(stack[k])'
  BY StackFrames, FrameStays DEF StackInv
<1>2. \A k \in DOMAIN stack : k \in Making' => k \in Making
  BY DEF Making
<1>3. \A k \in DOMAIN stack : k \in Making' => Scan(stack[k])'
  BY <1>2, StackFrames, ScanStays DEF StackInv
<1>4. \A k \in DOMAIN stack : k < Len(stack) => Calls(stack[k], stack[k + 1])'
  BY StackFrames, CallsStays DEF StackInv
<1>. QED  BY <1>1, <1>3, <1>4 DEF StackInv, Making

\* The top activation goes on, returns, or starts again.
LEMMA StackTop ==
  ASSUME TypeOK, Forward, StackInv, stack /= <<>>, NEW f, stack' = AsTop(f),
         f.target = Top.target, f.auto = Top.auto,
         f.recheck => Ready(f.target)', ~KeepGoing => f.result /= "failed",
         TopIsMade' => Scan(f)', InDoname'
  PROVE  StackInv'
<1>. DEFINE n == Len(stack)
<1>1. /\ n \in Nat \ {0} /\ DOMAIN stack = 1..n
      /\ Len(stack') = n /\ DOMAIN stack' = 1..n
      /\ stack'[n] = f
      /\ \A k \in 1..(n - 1) : stack'[k] = stack[k]
  BY AsTopIs DEF TypeOK
<1>0. n \in Nat \ {0}
  BY <1>1
<1>3. \A k \in 1..(n - 1) : k \in DOMAIN stack /\ k \in Making /\ stack[k] \in Frame
  BY <1>1, StackFrames DEF Making
<1>. HIDE DEF n
<1>2. \A k \in 1..n : k = n \/ k \in 1..(n - 1)
  BY <1>0
<1>4. \A k \in 1..n : FrameOk(stack[k])'
  <2>1. FrameOk(f)'
    BY DEF FrameOk
  <2>2. \A k \in 1..(n - 1) : FrameOk(stack[k])'
    BY <1>1, <1>3, FrameStays DEF StackInv
  <2>. QED  BY <1>1, <1>2, <2>1, <2>2
<1>5. \A k \in Making' : Scan(stack[k])'
  <2>1. \A k \in 1..(n - 1) : Scan(stack[k])'
    BY <1>1, <1>3, ScanStays DEF StackInv
  <2>2. n \in Making' => TopIsMade'
    BY <1>1 DEF Making
  <2>3. \A k \in Making' : k \in 1..n
    BY <1>1 DEF Making
  <2>. QED  BY <1>1, <1>2, <2>1, <2>2, <2>3
<1>6. \A k \in 1..n : k < n => Calls(stack[k], stack[k + 1])'
  <2>. SUFFICES ASSUME NEW k \in 1..(n - 1) PROVE Calls(stack[k], stack[k + 1])'
    BY <1>1, <1>2
  <2>1. k < n /\ Calls(stack[k], stack[k + 1])
    <3>1. k < n /\ k \in DOMAIN stack
      BY <1>0, <1>3
    <3>2. k < Len(stack)
      BY <3>1 DEF n
    <3>. QED  BY <3>1, <3>2 DEF StackInv
  <2>2. \/ stack'[k + 1] = stack[k + 1]
        \/ stack'[k + 1] = f /\ stack[k + 1] = Top
    <3>1. k + 1 = n \/ k + 1 \in 1..(n - 1)
      BY <1>0
    <3>. QED  BY <1>1, <3>1 DEF Top, n
  <2>3. Calls(stack[k], stack'[k + 1])
    BY <2>1, <2>2 DEF Calls
  <2>. QED  BY <1>1, <1>3, <2>3, CallsStays
<1>. QED  BY <1>1, <1>4, <1>5, <1>6 DEF StackInv

\* check_dependencies() calls doname().
LEMMA StackPush ==
  ASSUME TypeOK, Forward, StackInv, stack /= <<>>, TopIsMade, NEW f \in Frame,
         stack' = Append(stack, f), Calls(Top, f), ~f.recheck, f.result = "dont_know",
         ~TopIsMade', InDoname'
  PROVE  StackInv'
<1>. DEFINE n == Len(stack)
<1>1. n \in Nat \ {0} /\ DOMAIN stack = 1..n
  BY AsTopIs DEF TypeOK
<1>2. /\ Len(stack') = n + 1 /\ DOMAIN stack' = 1..(n + 1)
      /\ stack'[n + 1] = f
      /\ \A k \in 1..n : stack'[k] = stack[k]
  BY <1>1, AppendProperties, LenProperties DEF TypeOK
<1>3. \A k \in 1..n : k \in DOMAIN stack /\ k \in Making /\ stack[k] \in Frame
  BY <1>1, StackFrames DEF Making
<1>0. n \in Nat \ {0}
  BY <1>1
<1>. HIDE DEF n
<1>4. \A k \in 1..(n + 1) : k = n + 1 \/ k \in 1..n
  BY <1>0
<1>5. \A k \in 1..(n + 1) : FrameOk(stack[k])'
  <2>1. FrameOk(f)'
    BY DEF FrameOk
  <2>2. \A k \in 1..n : FrameOk(stack[k])'
    BY <1>2, <1>3, FrameStays DEF StackInv
  <2>. QED  BY <1>2, <1>4, <2>1, <2>2
<1>6. \A k \in Making' : k \in 1..n
  BY <1>1, <1>2 DEF Making
<1>7. \A k \in Making' : Scan(stack[k])'
  BY <1>2, <1>3, <1>6, ScanStays DEF StackInv
<1>8. \A k \in 1..(n + 1) : k < n + 1 => Calls(stack[k], stack[k + 1])'
  <2>. SUFFICES ASSUME NEW k \in 1..n PROVE Calls(stack[k], stack[k + 1])'
    BY <1>2, <1>4
  <2>1. CASE k = n
    BY <1>2, <1>3, <2>1, CallsStays DEF Top, n
  <2>2. CASE k /= n
    <3>1. k < n /\ k + 1 \in 1..n
      BY <1>0, <2>2
    <3>. QED  BY <1>2, <1>3, <3>1, CallsStays DEF StackInv, n
  <2>. QED  BY <2>1, <2>2
<1>. QED  BY <1>2, <1>5, <1>7, <1>8 DEF StackInv

LEMMA StackSingle ==
  ASSUME NEW f, stack' = <<f>>, ~f.recheck, f.result = "dont_know", pc' = "enter"
  PROVE  StackInv'
<1>1. Len(stack') = 1 /\ DOMAIN stack' = {1} /\ stack'[1] = f
  BY SingletonIs
<1>2. \A k \in DOMAIN stack' : FrameOk(stack[k])'
  BY <1>1 DEF FrameOk
<1>3. Making' = {}
  BY <1>1 DEF Making, TopIsMade
<1>. QED  BY <1>1, <1>2, <1>3 DEF StackInv, InDoname

\* doname_check() returns to the check_dependencies() of the activation below.
LEMMA StackPassOn ==
  ASSUME TypeOK, Forward, StackInv, NEW n, n = Len(stack), n > 1,
         NEW f \in Frame, f = stack[n - 1],
         NEW g, stack' = [Below EXCEPT ![n - 1] = g],
         g.target = f.target, g.auto = f.auto, g.recheck = f.recheck,
         ~KeepGoing => g.result /= "failed", Scan(g)', pc' = "deps"
  PROVE  /\ StackInv'
         /\ DOMAIN stack' = 1..(n - 1) /\ TopIsMade'
         /\ \A k \in 1..(n - 1) : /\ k \in DOMAIN stack
                                /\ stack'[k].target = stack[k].target
                                /\ stack'[k].auto = stack[k].auto
<1>0. n \in Nat /\ DOMAIN stack = 1..n
  BY StackFrames
<1>1. n \in Nat /\ n - 1 \in Nat \ {0} /\ DOMAIN stack = 1..n /\ n - 1 \in 0..n
  BY <1>0
<1>2. /\ Below \in Seq(Frame) /\ Len(Below) = n - 1
      /\ \A k \in 1..(n - 1) : Below[k] = stack[k]
  BY <1>1, PrefixType DEF Below, TypeOK
<1>3. DOMAIN Below = 1..(n - 1)
  BY <1>2, LenProperties
<1>4. /\ stack' \in [1..(n - 1) -> Frame \cup {g}]
      /\ stack'[n - 1] = g
      /\ \A k \in 1..(n - 1) : k /= n - 1 => stack'[k] = stack[k]
  <2>1. n - 1 \in 1..(n - 1)
    BY <1>1
  <2>2. Below \in [1..(n - 1) -> Frame]
    BY <1>2, <1>3, ElementOfSeq, SeqDef
  <2>. QED  BY <1>2, <1>3, <2>1, <2>2
<1>5. Len(stack') = n - 1 /\ DOMAIN stack' = 1..(n - 1)
  <2>1. n - 1 \in Nat
    BY <1>1
  <2>. DEFINE S == Frame \cup {g}
  <2>2. stack' \in [1..(n - 1) -> S]
    BY <1>4
  <2>. HIDE DEF S
  <2>. QED  BY <2>1, <2>2, FunctionIsSeq
<1>6. \A k \in 1..(n - 1) : /\ k \in DOMAIN stack /\ k < n /\ k \in Making
                           /\ stack[k] \in Frame
  BY <1>1, StackFrames DEF Making
<1>7. TopIsMade' /\ InDoname'
  BY DEF TopIsMade, InDoname
<1>8. \A k \in 1..(n - 1) : /\ stack'[k].target = stack[k].target
                           /\ stack'[k].auto = stack[k].auto
  BY <1>4
<1>9. \A k \in 1..(n - 1) : FrameOk(stack[k])'
  <2>1. FrameOk(f) /\ f.target \in Target
    <3>1. n - 1 \in 1..(n - 1)
      BY <1>0
    <3>. QED  BY <1>6, <3>1 DEF StackInv, Frame
  <2>2. FrameOk(g)'
    BY <2>1, ReadyStays DEF FrameOk
  <2>3. \A k \in 1..(n - 1) : FrameOk(stack[k]) => FrameOk(stack[k])' \/ k = n - 1
    BY <1>4, <1>6, FrameStays
  <2>. QED  BY <1>4, <1>6, <2>2, <2>3 DEF StackInv
<1>10. \A k \in 1..(n - 1) : Scan(stack[k])'
  <2>1. \A k \in 1..(n - 1) : Scan(stack[k])' \/ k = n - 1
    BY <1>4, <1>6, ScanStays DEF StackInv
  <2>. QED  BY <1>4, <2>1
<1>11. \A k \in 1..(n - 1) : k < n - 1 => Calls(stack[k], stack[k + 1])'
  <2>. SUFFICES ASSUME NEW k \in 1..(n - 1), k < n - 1
                PROVE  Calls(stack[k], stack[k + 1])'
    OBVIOUS
  <2>1. k + 1 \in 1..(n - 1)
    BY <1>1
  <2>2. Calls(stack[k], stack[k + 1])
    BY <1>6 DEF StackInv
  <2>3. Calls(stack[k], stack'[k + 1])
    BY <1>8, <2>1, <2>2 DEF Calls
  <2>. QED  BY <1>4, <1>6, <2>3, CallsStays
<1>12. \A k \in Making' : k \in 1..(n - 1)
  BY <1>5 DEF Making
<1>. QED  BY <1>5, <1>6, <1>7, <1>8, <1>9, <1>10, <1>11, <1>12 DEF StackInv
-----------------------------------------------------------------------------
(* The jobs *)

LEMMA AppendActive ==
  ASSUME NEW list \in Seq(Entry), NEW e \in Entry
  PROVE  ActiveOf(Append(list, e)) =
           ActiveOf(list) \cup {t \in {e.target} : Active(e)}
<1>1. /\ Len(list) \in Nat /\ DOMAIN list = 1..Len(list)
      /\ Append(list, e) \in Seq(Entry) /\ Len(Append(list, e)) = Len(list) + 1
      /\ \A j \in 1..Len(list) : Append(list, e)[j] = list[j]
      /\ Append(list, e)[Len(list) + 1] = e
  BY AppendProperties, LenProperties
<1>2. DOMAIN Append(list, e) = 1..(Len(list) + 1)
  BY <1>1, LenProperties
<1>. DEFINE n == Len(list)
            new == Append(list, e)
<1>3. n \in Nat
  BY <1>1
<1>4. /\ n + 1 \in 1..(n + 1) /\ \A j \in 1..(n + 1) : j = n + 1 \/ j \in 1..n
      /\ \A j \in 1..n : j \in 1..(n + 1)
  BY <1>3
<1>. HIDE DEF n, new
<1>5. /\ DOMAIN list = 1..n /\ DOMAIN new = 1..(n + 1) /\ new[n + 1] = e
      /\ \A j \in 1..n : new[j] = list[j]
  BY <1>1, <1>2 DEF n, new
<1>6. ActiveOf(new) = ActiveOf(list) \cup {t \in {e.target} : Active(e)}
  <2>1. \A t : t \in ActiveOf(new) =>
                 t \in ActiveOf(list) \/ (t = e.target /\ Active(e))
    BY <1>4, <1>5 DEF ActiveOf
  <2>2. \A t : t \in ActiveOf(list) => t \in ActiveOf(new)
    BY <1>4, <1>5 DEF ActiveOf
  <2>3. Active(e) => e.target \in ActiveOf(new)
    BY <1>4, <1>5 DEF ActiveOf
  <2>. QED  BY <2>1, <2>2, <2>3
<1>. QED  BY <1>6 DEF new

LEMMA UnlinkActive ==
  ASSUME running_list \in Seq(Entry), NEW i \in DOMAIN running_list
  PROVE  LET t == running_list[i].target IN
         /\ ActiveOf(Unlink(i)) \subseteq ActiveOf(running_list)
         /\ ActiveOf(running_list) \subseteq ActiveOf(Unlink(i)) \cup {t}
         /\ Once(running_list) => t \notin ActiveOf(Unlink(i))
         /\ ~Active(running_list[i]) => ActiveOf(Unlink(i)) = ActiveOf(running_list)
<1>. DEFINE n == Len(running_list)
            from(j) == IF j < i THEN j ELSE j + 1
<1>1. /\ n \in Nat /\ DOMAIN running_list = 1..n /\ i \in 1..n
      /\ DOMAIN Unlink(i) = 1..(n - 1)
      /\ \A j \in 1..(n - 1) : Unlink(i)[j] = running_list[from(j)]
  BY UnlinkType, LenProperties
<1>2. \A j \in 1..(n - 1) : from(j) \in 1..n /\ from(j) /= i
  BY <1>1
<1>4. \A k \in 1..n : k /= i => \E j \in 1..(n - 1) : from(j) = k
  <2>. TAKE k \in 1..n
  <2>1. CASE k < i
    <3>1. k \in 1..(n - 1) /\ from(k) = k
      BY <1>1, <2>1
    <3>. QED  BY <3>1
  <2>2. CASE k > i
    <3>1. k - 1 \in 1..(n - 1) /\ from(k - 1) = k
      BY <1>1, <2>2
    <3>. QED  BY <3>1
  <2>. QED  BY <1>1, <2>1, <2>2
<1>. HIDE DEF from, n
<1>5. \A t : t \in ActiveOf(Unlink(i)) <=>
         \E k \in 1..n : k /= i /\ running_list[k].target = t /\ Active(running_list[k])
  <2>. TAKE t
  <2>1. t \in ActiveOf(Unlink(i)) <=>
          \E j \in 1..(n - 1) : running_list[from(j)].target = t /\ Active(running_list[from(j)])
    BY <1>1 DEF ActiveOf
  <2>2. ASSUME NEW j \in 1..(n - 1), running_list[from(j)].target = t, Active(running_list[from(j)])
        PROVE  \E k \in 1..n : k /= i /\ running_list[k].target = t /\ Active(running_list[k])
    BY <1>2, <2>2
  <2>3. ASSUME NEW k \in 1..n, k /= i, running_list[k].target = t, Active(running_list[k])
        PROVE  \E j \in 1..(n - 1) : running_list[from(j)].target = t /\ Active(running_list[from(j)])
    <3>1. PICK j \in 1..(n - 1) : from(j) = k
      BY <1>4, <2>3
    <3>. QED  BY <2>3, <3>1
  <2>. QED  BY <2>1, <2>2, <2>3
<1>6. \A t : t \in ActiveOf(running_list) <=>
         \E k \in 1..n : running_list[k].target = t /\ Active(running_list[k])
  BY <1>1 DEF ActiveOf
<1>. QED  BY <1>1, <1>5, <1>6 DEF Once

\* Entries whose commands do not run join the list, or leave it.
LEMMA WaitingIdle ==
  ASSUME TypeOK, NEW t \in Target, NEW kind \in {"pending", "serial"}, NEW again \in BOOLEAN,
         NEW list \in Seq(Entry)
  PROVE  ActiveOf(Append(list, Waiting(t, kind, again))) = ActiveOf(list)
<1>1. Waiting(t, kind, again) \in Entry /\ ~Active(Waiting(t, kind, again))
  BY WaitingType DEF Waiting, Active
<1>. QED  BY <1>1, AppendActive
-----------------------------------------------------------------------------
(* The top activation of doname() *)

LEMMA BuiltMarks ==
  ASSUME TypeOK, BuiltInv,
         \A t \in Target : Grows(deps[t], deps'[t]),
         \A t \in Target : state[t] = "dont_know" /\ state'[t] /= "dont_know" =>
            \A j \in DOMAIN deps'[t] : ~deps'[t][j].built,
         \A t \in Target : \A j \in DOMAIN deps'[t] : \A d \in Target :
            Told(deps'[t][j]) /\ deps'[t][j].built /\ d = deps'[t][j].name =>
               (j \in DOMAIN deps[t] /\ deps[t][j].built) \/ Settled(d)',
         \A d \in Target : Settled(d) => Settled(d)'
  PROVE  BuiltInv'
<1>. SUFFICES ASSUME NEW t \in Target, state'[t] /= "dont_know",
                     NEW j \in DOMAIN deps'[t],
                     Told(deps'[t][j]), deps'[t][j].built,
                     NEW d, d = deps'[t][j].name
              PROVE  Settled(d)'
  BY DEF BuiltInv
<1>1. ~deps'[t][j].auto /\ j \in DOMAIN deps[t]
      /\ deps[t][j].name = d /\ Told(deps[t][j])
  BY DEF Grows, Told
<1>2. d \in Target
  <2>1. deps[t][j] \in Dependency
    BY <1>1, ElementOfSeq, LenProperties DEF TypeOK
  <2>. QED  BY <1>1, <2>1 DEF Told, Dependency
<1>3. CASE deps[t][j].built
  <2>1. state[t] /= "dont_know"
    OBVIOUS
  <2>2. Settled(d)
    BY <1>1, <1>3, <2>1 DEF BuiltInv
  <2>. QED  BY <1>2, <2>2
<1>. QED  BY <1>2, <1>3

LEMMA BuiltStays ==
  ASSUME TypeOK, BuiltInv,
         \A t \in Target : Grows(deps[t], deps'[t]) /\ NotMarked(deps[t], deps'[t]),
         \A t \in Target : state[t] = "dont_know" /\ state'[t] /= "dont_know" =>
            \A j \in DOMAIN deps'[t] : ~deps'[t][j].built,
         \A d \in Target : Settled(d) => Settled(d)'
  PROVE  BuiltInv'
<1>1. \A t \in Target : \A j \in DOMAIN deps'[t] :
         Told(deps'[t][j]) /\ deps'[t][j].built => j \in DOMAIN deps[t] /\ deps[t][j].built
  BY DEF NotMarked
<1>. QED  BY <1>1, BuiltMarks

\* The top activation of doname() stays the top one.
LEMMA TopAgain ==
  ASSUME TypeOK, stack /= <<>>, NEW f, stack' = AsTop(f),
         f.target = Top.target, f.auto = Top.auto
  PROVE  /\ Top' = f
         /\ \A d : OnStack(d)' <=> OnStack(d)
         /\ \A u : MadeBy(u) =>
               MadeBy(u)' \/ (TopIsMade /\ ~TopIsMade' /\ u = Top.target)
         /\ \A u : u = Top.target /\ TopIsMade' => MadeBy(u)'
<1>. DEFINE n == Len(stack)
<1>1. /\ DOMAIN stack = 1..n
      /\ Len(stack') = n /\ DOMAIN stack' = 1..n
      /\ stack'[n] = f
      /\ \A k \in 1..(n - 1) : stack'[k] = stack[k]
  BY AsTopIs DEF TypeOK
<1>2. n \in Nat \ {0}
  BY AsTopIs DEF TypeOK
<1>3. Top' = f /\ Top = stack[n]
  BY <1>1 DEF Top
<1>. HIDE DEF n
<1>4. \A k \in 1..n : k = n \/ k \in 1..(n - 1)
  BY <1>2
<1>5. \A k \in 1..n : stack'[k].target = stack[k].target /\ stack'[k].auto = stack[k].auto
  BY <1>1, <1>3, <1>4
<1>6. \A d : OnStack(d)' <=> OnStack(d)
  BY <1>1, <1>5 DEF OnStack
<1>7. ASSUME NEW u, MadeBy(u)
      PROVE  MadeBy(u)' \/ (TopIsMade /\ ~TopIsMade' /\ u = Top.target)
  <2>1. PICK k \in Making : stack[k].target = u
    BY <1>7 DEF MadeBy
  <2>2. k \in 1..n /\ (k < n \/ TopIsMade)
    BY <1>1, <2>1 DEF Making, n
  <2>3. CASE k < n \/ TopIsMade'
    BY <1>1, <1>5, <2>1, <2>2, <2>3 DEF MadeBy, Making
  <2>4. CASE ~(k < n) /\ ~TopIsMade'
    <3>1. k = n
      BY <1>2, <2>2, <2>4
    <3>. QED  BY <1>3, <2>1, <2>2, <2>4, <3>1
  <2>. QED  BY <2>3, <2>4
<1>8. ASSUME NEW u, u = Top.target, TopIsMade' PROVE MadeBy(u)'
  <2>1. n \in 1..n
    BY <1>2
  <2>. QED  BY <1>1, <1>3, <1>5, <1>8, <2>1 DEF MadeBy, Making
<1>. QED  BY <1>3, <1>6, <1>7, <1>8

\* doname() of the top activation is over with the answer r.
LEMMA TopReturns ==
  ASSUME TypeOK, stack /= <<>>, MakingInv, ReadyInv, TopIsMade,
         NEW r \in {"ok", "running", "failed", "dont_know"}, Returns(r),
         state' = [state EXCEPT ![Top.target] = r],
         \A t \in Target : Grows(deps[t], deps'[t]) /\ NotMarked(deps[t], deps'[t]),
         \A t \in Target : rechecking'[t] => rechecking[t],
         r = "failed" => KeepGoing,
         Target \subseteq Rule => r /= "dont_know"
  PROVE  Forward /\ StackInv' /\ AnswerInv' /\ TargetInv' /\ BuiltInv' /\ ~TopIsMade'
<1>. DEFINE t == Top.target
<1>1. t \in Target /\ state[t] = "in_progress" /\ Top \in Frame
  BY TopTarget, TopIsAlone
<1>2. \A u \in Target : state'[u] = IF u = t THEN r ELSE state[u]
  BY <1>1 DEF TypeOK
<1>3. Forward
  BY <1>1, <1>2 DEF Forward
<1>4. PICK f : f = [Top EXCEPT !.result = r]
  OBVIOUS
<1>5. /\ stack' = AsTop(f) /\ pc' = "check"
      /\ f.target = t /\ f.auto = Top.auto /\ f.recheck = Top.recheck /\ f.result = r
  BY <1>1, <1>4 DEF Returns, Frame
<1>6. ~TopIsMade' /\ InDoname'
  BY <1>5 DEF TopIsMade, InDoname
<1>7. StackInv'
  <2>1. Top.recheck => Ready(t)
    <3>1. Len(stack) \in DOMAIN stack
      BY AsTopIs DEF TypeOK
    <3>. QED  BY <3>1 DEF ReadyInv, StackInv, FrameOk, Top
  <2>2. f.target \in Target /\ (f.recheck => Ready(f.target))
    BY <1>1, <1>5, <2>1
  <2>3. f.recheck => Ready(f.target)'
    BY <1>3, <2>2, ReadyStays
  <2>. QED  BY <1>3, <1>5, <1>6, <2>3, StackTop DEF ReadyInv
<1>8. Top' = f
  BY <1>5, TopAgain
<1>9. AnswerInv'
  BY <1>1, <1>2, <1>5, <1>8 DEF AnswerInv
<1>10. TargetInv'
  <2>. SUFFICES ASSUME NEW u \in Target
       PROVE  /\ rechecking'[u] => Ready(u)'
              /\ ~KeepGoing => state'[u] /= "failed"
              /\ state'[u] = "in_progress" => MadeBy(u)'
    BY DEF TargetInv
  <2>1. rechecking'[u] => Ready(u)'
    BY <1>3, ReadyStays DEF ReadyInv, TargetInv
  <2>2. ~KeepGoing => state'[u] /= "failed"
    BY <1>2 DEF ReadyInv, TargetInv
  <2>3. state'[u] = "in_progress" => MadeBy(u)'
    <3>1. MadeBy(u) /\ u /= t => MadeBy(u)'
      BY <1>5, TopAgain
    <3>. QED  BY <1>2, <3>1 DEF ReadyInv, TargetInv
  <2>. QED  BY <2>1, <2>2, <2>3
<1>11. BuiltInv'
  <2>1. \A d \in Target : Settled(d) => Settled(d)'
    <3>1. \A d : OnStack(d)' <=> OnStack(d)
      BY <1>5, TopAgain
    <3>. QED  BY <1>1, <1>2, <3>1 DEF Settled
  <2>2. \A u \in Target : ~(state[u] = "dont_know" /\ state'[u] /= "dont_know")
    BY <1>1, <1>2
  <2>. QED  BY <2>1, <2>2, BuiltStays DEF ReadyInv
<1>. QED  BY <1>3, <1>6, <1>7, <1>9, <1>10, <1>11

\* The top activation of doname() starts to make its target, or starts again.
LEMMA TopStarts ==
  ASSUME TypeOK, stack /= <<>>, ReadyInv, NEW f, stack' = AsTop(f),
         f.target = Top.target, f.auto = Top.auto, f.i = 1, f.result = "dont_know",
         f.recheck => Ready(Top.target), pc' = "deps",
         state' = [state EXCEPT ![Top.target] = "in_progress"],
         state[Top.target] \notin {"ok", "running"},
         \A t \in Target : Grows(deps[t], deps'[t]) /\ NotMarked(deps[t], deps'[t]),
         state[Top.target] = "dont_know" =>
            \A j \in DOMAIN deps'[Top.target] : ~deps'[Top.target][j].built,
         \A t \in Target : rechecking'[t] => rechecking[t],
         TypeOK'
  PROVE  Forward /\ StackInv' /\ TargetInv' /\ BuiltInv'
<1>. DEFINE t == Top.target
<1>1. t \in Target /\ Top \in Frame
  BY TopTarget
<1>2. \A u \in Target : state'[u] = IF u = t THEN "in_progress" ELSE state[u]
  BY <1>1 DEF TypeOK
<1>3. Forward
  BY <1>1, <1>2 DEF Forward
<1>4. TopIsMade' /\ InDoname'
  BY DEF TopIsMade, InDoname
<1>5. StackInv'
  <2>1. f.recheck => Ready(f.target)'
    BY <1>1, <1>3, ReadyStays
  <2>2. Scan(f)'
    <3>1. deps'[f.target] \in Seq(Dependency)
      BY <1>1 DEF TypeOK
    <3>2. \A j \in DOMAIN deps'[f.target] : ~(j < f.i)
      BY <3>1, LenProperties
    <3>. QED  BY <3>2 DEF Scan
  <2>. QED  BY <1>3, <1>4, <2>1, <2>2, StackTop DEF ReadyInv
<1>6. \A u \in Target : ~KeepGoing => state[u] /= "failed"
  BY DEF ReadyInv, TargetInv
<1>7. \A u : MadeBy(u) => MadeBy(u)'
  BY <1>4, TopAgain
<1>8. \A u : u = t => MadeBy(u)'
  BY <1>4, TopAgain
<1>9. \A d : OnStack(d)' <=> OnStack(d)
  BY TopAgain
<1>10. TargetInv'
  <2>. SUFFICES ASSUME NEW u \in Target
       PROVE  /\ rechecking'[u] => Ready(u)'
              /\ ~KeepGoing => state'[u] /= "failed"
              /\ state'[u] = "in_progress" => MadeBy(u)'
    BY DEF TargetInv
  <2>1. rechecking'[u] => Ready(u)'
    BY <1>3, ReadyStays DEF ReadyInv, TargetInv
  <2>2. state'[u] = "in_progress" => MadeBy(u)'
    BY <1>2, <1>7, <1>8 DEF ReadyInv, TargetInv
  <2>. QED  BY <1>2, <1>6, <2>1, <2>2
<1>11. BuiltInv'
  <2>1. \A d \in Target : Settled(d) => Settled(d)'
    <3>. SUFFICES ASSUME NEW d \in Target, Settled(d) PROVE Settled(d)'
      OBVIOUS
    <3>1. CASE d = t /\ state[t] = "failed"
      <4>1. KeepGoing
        BY <1>1, <1>6, <3>1
      <4>2. Len(stack) \in DOMAIN stack
        BY AsTopIs DEF TypeOK
      <4>3. OnStack(d)
        BY <3>1, <4>1, <4>2 DEF OnStack, Top
      <4>. QED  BY <1>9, <4>3 DEF Settled
    <3>2. CASE ~(d = t /\ state[t] = "failed")
      <4>1. d = t => OnStack(d)
        BY <3>2 DEF Settled
      <4>. QED  BY <1>2, <1>9, <4>1 DEF Settled
    <3>. QED  BY <3>1, <3>2
  <2>2. \A u \in Target : state[u] = "dont_know" /\ state'[u] /= "dont_know" => u = t
    BY <1>2
  <2>3. \A u \in Target : state[u] = "dont_know" /\ state'[u] /= "dont_know" =>
            \A j \in DOMAIN deps'[u] : ~deps'[u][j].built
    BY <2>2
  <2>. QED  BY <2>1, <2>3, BuiltStays DEF ReadyInv
<1>. QED  BY <1>3, <1>5, <1>10, <1>11

\* The top activation of doname() goes on.
LEMMA TopMoves ==
  ASSUME TypeOK, stack /= <<>>, ReadyInv, NEW f, stack' = AsTop(f),
         f.target = Top.target, f.auto = Top.auto, f.recheck = Top.recheck,
         ~KeepGoing => f.result /= "failed",
         UNCHANGED <<state, rechecking>>,
         \A t \in Target : Grows(deps[t], deps'[t]),
         TopIsMade' => Scan(f)', InDoname', TopIsMade => TopIsMade'
  PROVE  /\ Forward /\ StackInv' /\ TargetInv' /\ Top' = f
         /\ \A d \in Target : Settled(d) => Settled(d)'
<1>1. Forward
  BY DEF Forward
<1>2. Top.target \in Target /\ Top \in Frame
  BY TopTarget
<1>3. Top.recheck => Ready(Top.target)
  <2>1. Len(stack) \in DOMAIN stack
    BY AsTopIs DEF TypeOK
  <2>. QED  BY <2>1 DEF ReadyInv, StackInv, FrameOk, Top
<1>4. f.recheck => Ready(f.target)'
  BY <1>1, <1>2, <1>3, ReadyStays
<1>5. StackInv'
  BY <1>1, <1>4, StackTop DEF ReadyInv
<1>6. /\ \A u : MadeBy(u) => MadeBy(u)'
      /\ \A d : OnStack(d)' <=> OnStack(d)
      /\ Top' = f
  BY TopAgain
<1>7. TargetInv'
  <2>1. \A u \in Target : rechecking'[u] => Ready(u)'
    BY <1>1, ReadyStays DEF ReadyInv, TargetInv
  <2>. QED  BY <1>6, <2>1 DEF ReadyInv, TargetInv
<1>8. \A d \in Target : Settled(d) => Settled(d)'
  BY <1>6 DEF Settled
<1>. QED  BY <1>1, <1>5, <1>6, <1>7, <1>8
-----------------------------------------------------------------------------
(* doname(), doname_check() and check_dependencies() *)

\* What the steps of a build without fatal error start from.
Sound == /\ TypeOK /\ Activated /\ JobsCounted /\ FatalInv /\ ~fatal_in_progress
         /\ BuildInv /\ OrderInv /\ ReadyInv

LEMMA ActiveTargets ==
  ASSUME TypeOK
  PROVE  ActiveOf(running_list) \subseteq Target
<1>1. \A i \in DOMAIN running_list : running_list[i] \in Entry
  BY ElementOfSeq, LenProperties DEF TypeOK
<1>. QED  BY <1>1 DEF ActiveOf, Entry

LEMMA JobsStay ==
  ASSUME TypeOK, Forward, JobsInv, ActiveOf(running_list') \subseteq ActiveOf(running_list),
         Finished' = {} \/ pc' = "finish",
         ~TopIsMade' \/ pc' = "deps"
  PROVE  JobsInv'
<1>1. \A t \in ActiveOf(running_list') : Ready(t)'
  BY ActiveTargets, ReadyStays DEF JobsInv
<1>. QED  BY <1>1 DEF JobsInv

LEMMA NoneFinished ==
  ASSUME TypeOK, JobsInv, pc /= "finish", NEW e \in Entry, e.st \notin {"ok", "failed"},
         running_list' = Append(running_list, e)
  PROVE  Finished' = {}
<1>. DEFINE n == Len(running_list)
<1>1. \A j \in DOMAIN running_list : running_list[j].st \notin {"ok", "failed"}
  BY DEF JobsInv, Finished
<1>2. n \in Nat /\ DOMAIN running_list = 1..n
  BY LenProperties DEF TypeOK
<1>3. /\ DOMAIN running_list' = 1..(n + 1) /\ running_list'[n + 1] = e
      /\ \A j \in 1..n : running_list'[j] = running_list[j]
  BY AppendProperties, LenProperties DEF TypeOK
<1>4. \A j \in 1..(n + 1) : j = n + 1 \/ j \in 1..n
  BY <1>2
<1>. HIDE DEF n
<1>. QED  BY <1>1, <1>2, <1>3, <1>4 DEF Finished

\* The list is as it was, and nobody is finished.
LEMMA SameJobs ==
  ASSUME JobsInv, pc /= "finish", UNCHANGED running_list
  PROVE  Finished' = {} /\ ActiveOf(running_list') \subseteq ActiveOf(running_list)
BY DEF JobsInv, Finished

\* The activations below the top one are for other, higher targets.
LEMMA HigherBelow ==
  ASSUME Acyclic, TypeOK, Chain, stack /= <<>>
  PROVE  /\ Rank \in [Target -> Nat]
         /\ \A k \in DOMAIN stack : k < Len(stack) =>
               /\ stack[k].target /= Top.target
               /\ Rank[Top.target] < Rank[stack[k].target]
<1>1. Rank \in [Target -> Nat]
  BY RankIs DEF Ranks
<1>2. Len(stack) \in DOMAIN stack /\ Top.target \in Target
  BY TopTarget, AsTopIs DEF TypeOK
<1>3. \A k \in DOMAIN stack : k < Len(stack) => Rank[Top.target] < Rank[stack[k].target]
  BY <1>2 DEF Chain, Top
<1>4. ~(Rank[Top.target] < Rank[Top.target])
  BY <1>1, <1>2
<1>. QED  BY <1>1, <1>3, <1>4

LEMMA EnterEarlyReady ==
  ASSUME NoGroups, Sound, EnterEarly
  PROVE  Forward /\ ReadyInv'
<1>. DEFINE t == Top.target
<1>1. stack /= <<>> /\ t \in Target /\ Top \in Frame /\ pc = "enter"
  BY TopTarget DEF EnterEarly, Activated, Sound
<1>2. ~GroupRunning(t)
  BY <1>1 DEF NoGroups, GroupRunning
<1>3. /\ state[t] \in {"ok", "running"} /\ UNCHANGED <<state, running_list, deps, rechecking>>
      /\ stack' = AsTop([Top EXCEPT !.result = state[t]]) /\ pc' = "check"
  BY <1>2 DEF EnterEarly, Returns
<1>4. PICK f : f = [Top EXCEPT !.result = state[t]]
  OBVIOUS
<1>5. /\ f.target = t /\ f.auto = Top.auto /\ f.recheck = Top.recheck
      /\ f.result = state[t]
  BY <1>1, <1>4 DEF Frame
<1>6. ~TopIsMade' /\ InDoname' /\ ~TopIsMade
  BY <1>1, <1>3 DEF TopIsMade, InDoname
<1>7. Forward /\ StackInv' /\ TargetInv' /\ Top' = f
      /\ \A d \in Target : Settled(d) => Settled(d)'
  BY <1>1, <1>3, <1>4, <1>5, <1>6, GrowsSame, TopMoves DEF Sound
<1>8. BuiltInv'
  BY <1>3, <1>7, GrowsSame, BuiltStays DEF Sound, ReadyInv
<1>9. AnswerInv'
  BY <1>1, <1>3, <1>5, <1>7 DEF AnswerInv
<1>10. JobsInv'
  BY <1>1, <1>3, <1>6, <1>7, SameJobs, JobsStay DEF Sound, ReadyInv
<1>. QED  BY <1>7, <1>8, <1>9, <1>10 DEF ReadyInv

LEMMA EnterFullReady ==
  ASSUME Acyclic, Sound, EnterFull, TypeOK'
  PROVE  Forward /\ ReadyInv'
<1>. DEFINE t == Top.target
<1>1. stack /= <<>> /\ t \in Target /\ Top \in Frame /\ pc = "enter"
  BY TopTarget DEF EnterFull, Activated, Sound
<1>2. state[t] /= "in_progress"
  <2>. SUFFICES ASSUME state[t] = "in_progress" PROVE FALSE
    OBVIOUS
  <2>1. PICK k \in Making : stack[k].target = t
    BY <1>1 DEF Sound, ReadyInv, TargetInv, MadeBy
  <2>2. ~TopIsMade
    BY <1>1 DEF TopIsMade
  <2>3. k \in DOMAIN stack /\ k < Len(stack)
    BY <2>2 DEF Making
  <2>. QED  BY <1>1, <2>1, <2>3, HigherBelow DEF Sound, OrderInv
<1>3. PICK f : f = [Activation(t, Top.auto) EXCEPT
                      !.second = Top.second, !.restart = (state[t] = "pending"),
                      !.autos = IF KeepState THEN AutosOf(deps[t]) ELSE {}]
  OBVIOUS
<1>4. /\ f.target = t /\ f.auto = Top.auto /\ f.i = 1 /\ f.result = "dont_know"
      /\ ~f.recheck
  BY <1>3 DEF Activation
<1>5. /\ state' = [state EXCEPT ![t] = "in_progress"]
      /\ stack' = AsTop(f) /\ pc' = "deps"
      /\ state[t] \notin {"ok", "running"} /\ UNCHANGED <<rechecking, running_list>>
  BY <1>2, <1>3 DEF EnterFull, listVars
<1>6. deps' = IF state[t] = "pending" THEN deps
              ELSE [deps EXCEPT ![t] = Unbuilt(deps[t])]
  BY DEF EnterFull
<1>7. /\ \A u \in Target : Grows(deps[u], deps'[u]) /\ NotMarked(deps[u], deps'[u])
      /\ state[t] /= "pending" => \A j \in DOMAIN deps'[t] : ~deps'[t][j].built
  <2>1. deps \in [Target -> Seq(Dependency)]
    BY DEF Sound, TypeOK
  <2>2. /\ Grows(deps[t], Unbuilt(deps[t])) /\ NotMarked(deps[t], Unbuilt(deps[t]))
        /\ \A j \in DOMAIN Unbuilt(deps[t]) : ~Unbuilt(deps[t])[j].built
    BY <1>1, <2>1, UnbuiltGrows
  <2>3. \A u \in Target : deps'[u] = deps[u] \/ (u = t /\ deps'[u] = Unbuilt(deps[t]))
    BY <1>6, <2>1
  <2>4. state[t] /= "pending" => deps'[t] = Unbuilt(deps[t])
    BY <1>1, <1>6, <2>1
  <2>. QED  BY <2>2, <2>3, <2>4, GrowsSame
<1>8. Forward /\ StackInv' /\ TargetInv' /\ BuiltInv'
  <2>1. state[t] = "dont_know" => \A j \in DOMAIN deps'[t] : ~deps'[t][j].built
    BY <1>7
  <2>2. TypeOK /\ ReadyInv
    BY DEF Sound
  <2>. QED  BY <1>1, <1>4, <1>5, <1>7, <2>1, <2>2, TopStarts
<1>9. AnswerInv'
  BY <1>5 DEF AnswerInv
<1>10. JobsInv'
  BY <1>1, <1>5, <1>8, SameJobs, JobsStay DEF Sound, ReadyInv
<1>. QED  BY <1>8, <1>9, <1>10 DEF ReadyInv

\* What is settled stays so when the top activation returns the answer r.
LEMMA AnswerSettles ==
  ASSUME Sound, pc = "check", UNCHANGED state,
         Top.result \in {"ok", "running", "failed"}
            \/ (Top.result = "dont_know" /\ Top.auto /\ ~KeepGoing),
         \A k \in DOMAIN stack : k < Len(stack) =>
            /\ k \in DOMAIN stack' /\ stack'[k].target = stack[k].target
            /\ stack'[k].auto = stack[k].auto
  PROVE  \A d \in Target : Settled(d) => Settled(d)'
<1>. SUFFICES ASSUME NEW d \in Target, Settled(d) PROVE Settled(d)'
  OBVIOUS
<1>1. CASE state[d] \in {"ok", "running", "failed"}
  BY <1>1 DEF Settled
<1>2. CASE OnStack(d)
  <2>1. PICK k \in DOMAIN stack : stack[k].target = d /\ (stack[k].auto => KeepGoing)
    BY <1>2 DEF OnStack
  <2>2. CASE k < Len(stack)
    BY <2>1, <2>2 DEF Settled, OnStack
  <2>3. CASE ~(k < Len(stack))
    <3>1. stack[k] = Top
      <4>1. Len(stack) \in Nat /\ k \in 1..Len(stack)
        BY <2>1, LenProperties DEF Sound, TypeOK
      <4>2. k = Len(stack)
        BY <2>3, <4>1
      <4>. QED  BY <4>2 DEF Top
    <3>2. state[d] = Top.result
      BY <2>1, <3>1 DEF Sound, ReadyInv, AnswerInv
    <3>. QED  BY <2>1, <3>1, <3>2 DEF Settled
  <2>. QED  BY <2>2, <2>3
<1>. QED  BY <1>1, <1>2 DEF Settled

LEMMA PassOnReady ==
  ASSUME Acyclic, Sound, pc = "check", stack /= <<>>, NEW r, r = Top.result,
         r \in {"ok", "running", "failed"} \/ (r = "dont_know" /\ Top.auto /\ ~KeepGoing),
         r = "failed" => KeepGoing,
         NEW failed, PassOn(r, failed), UNCHANGED <<state, rechecking, running_list>>
  PROVE  Forward /\ ReadyInv'
<1>. DEFINE t == Top.target
<1>1. t \in Target /\ Top \in Frame /\ TypeOK /\ ReadyInv
  BY TopTarget DEF Sound
<1>2. PICK n : n = Len(stack)
  OBVIOUS
<1>3. n \in Nat \ {0} /\ DOMAIN stack = 1..n
  BY <1>1, <1>2, AsTopIs DEF TypeOK
<1>4. ~TopIsMade
  BY DEF TopIsMade
<1>5. CASE n = 1
  <2>1. stack' = <<>> /\ pc' = caller /\ UNCHANGED deps /\ DOMAIN stack' = {}
    BY <1>2, <1>5 DEF PassOn
  <2>2. Forward
    BY <2>1, GrowsSame DEF Forward
  <2>3. ~TopIsMade' /\ pc' /= "check" /\ Making' = {}
    BY <1>1, <2>1 DEF TopIsMade, TypeOK, Making
  <2>4. StackInv'
    BY <2>1, <2>3 DEF StackInv
  <2>5. ~\E k \in DOMAIN stack : k < Len(stack)
    BY <1>2, <1>3, <1>5
  <2>6. TargetInv'
    <3>1. \A u \in Target : rechecking'[u] => Ready(u)'
      BY <1>1, <2>2, ReadyStays DEF ReadyInv, TargetInv
    <3>2. \A u \in Target : state[u] /= "in_progress"
      BY <1>1, <1>4, <2>5 DEF ReadyInv, TargetInv, MadeBy, Making
    <3>. QED  BY <1>1, <3>1, <3>2 DEF ReadyInv, TargetInv
  <2>7. \A d \in Target : Settled(d) => Settled(d)'
    BY <2>5, AnswerSettles
  <2>8. BuiltInv'
    BY <1>1, <2>1, <2>7, GrowsSame, BuiltStays DEF ReadyInv
  <2>9. AnswerInv'
    BY <2>3 DEF AnswerInv
  <2>10. JobsInv'
    BY <1>1, <2>2, <2>3, SameJobs, JobsStay DEF ReadyInv
  <2>. QED  BY <2>2, <2>4, <2>6, <2>8, <2>9, <2>10 DEF ReadyInv
<1>6. CASE n /= 1
  <2>1. n > 1 /\ n - 1 \in 1..(n - 1) /\ n - 1 \in DOMAIN stack /\ n - 1 < n
    BY <1>3, <1>6
  <2>2. PICK f : f = stack[n - 1]
    OBVIOUS
  <2>3. PICK g : g = DependencyDone(f, t, r)
    OBVIOUS
  <2>4. f \in Frame /\ f.target \in Target
    BY <1>1, <2>1, <2>2, StackFrames
  <2>5. Len(Below) = n - 1 /\ Below[n - 1] = f
    <3>1. n - 1 \in 0..n
      BY <1>3
    <3>2. stack \in Seq(Frame)
      BY <1>1 DEF TypeOK
    <3>. QED  BY <1>2, <2>1, <2>2, <3>1, <3>2, PrefixType DEF Below
  <2>6. /\ stack' = [Below EXCEPT ![n - 1] = g] /\ deps' = MarkBuilt(f, r)
        /\ pc' = "deps"
    BY <1>2, <1>6, <2>3, <2>5 DEF PassOn
  <2>7. /\ g.target = f.target /\ g.auto = f.auto /\ g.recheck = f.recheck
        /\ g.i = f.i + 1 /\ g.running = (f.running \/ r = "running")
        /\ g.result = IF r = "failed" THEN r ELSE f.result
    BY <2>3, <2>4 DEF DependencyDone, Frame
  <2>8. \A u \in Target :
           /\ Grows(deps[u], deps'[u])
           /\ \A j \in DOMAIN deps'[u] : deps'[u][j].built =>
                deps[u][j].built \/ (u = f.target /\ j = f.i)
    BY <1>1, <2>4, <2>6, MarkBuiltGrows
  <2>9. Forward
    BY <2>8 DEF Forward
  <2>10. /\ f.i \in DOMAIN deps[f.target]
         /\ deps[f.target][f.i].name = t /\ deps[f.target][f.i].auto = Top.auto
    <3>1. Calls(stack[n - 1], stack[(n - 1) + 1])
      BY <1>1, <1>2, <2>1 DEF ReadyInv, StackInv
    <3>2. (n - 1) + 1 = n
      BY <1>3
    <3>. QED  BY <1>2, <2>2, <3>1, <3>2 DEF Calls, Top
  <2>11. state[t] = r
    BY <1>1 DEF ReadyInv, AnswerInv
  <2>12. Scan(g)'
    <3>. SUFFICES ASSUME NEW j \in DOMAIN deps'[f.target], j < f.i + 1,
                         Told(deps'[f.target][j])
                  PROVE  state'[deps'[f.target][j].name] = "ok" \/ g.running \/ g.result = "failed"
      BY <2>7 DEF Scan
    <3>1. Scan(f)
      BY <1>1, <1>2, <2>1, <2>2 DEF ReadyInv, StackInv, Making
    <3>2. Scan(f)'
      BY <1>1, <2>4, <2>9, <3>1, ScanStays
    <3>3. CASE j < f.i
      BY <2>7, <3>2, <3>3 DEF Scan
    <3>4. CASE ~(j < f.i)
      <4>1. f.i \in Nat /\ deps'[f.target] \in Seq(Dependency)
        <5>1. deps' \in [Target -> Seq(Dependency)]
          BY <1>1, <2>4, <2>6, MarkBuiltType DEF Doname
        <5>. QED  BY <2>4, <5>1 DEF Frame
      <4>2. j \in Nat
        BY <4>1, LenProperties
      <4>3. j = f.i
        BY <3>4, <4>1, <4>2
      <4>4. deps'[f.target][j].name = t /\ deps'[f.target][j].auto = Top.auto
        BY <2>4, <2>8, <2>10, <4>3 DEF Grows
      <4>. QED  BY <2>7, <2>11, <4>4 DEF Told
    <3>. QED  BY <3>3, <3>4
  <2>13. ~KeepGoing => g.result /= "failed"
    BY <1>1, <2>1, <2>2, <2>7 DEF ReadyInv, StackInv, FrameOk
  <2>14. /\ StackInv'
         /\ DOMAIN stack' = 1..(n - 1) /\ TopIsMade'
         /\ \A k \in 1..(n - 1) : /\ k \in DOMAIN stack
                                 /\ stack'[k].target = stack[k].target
                                 /\ stack'[k].auto = stack[k].auto
    BY <1>1, <1>2, <2>1, <2>2, <2>4, <2>6, <2>7, <2>9, <2>12, <2>13, StackPassOn
       DEF ReadyInv
  <2>15. \A k \in DOMAIN stack : k < n => k \in 1..(n - 1)
    BY <1>3
  <2>16. TargetInv'
    <3>1. \A u \in Target : rechecking'[u] => Ready(u)'
      BY <1>1, <2>9, ReadyStays DEF ReadyInv, TargetInv
    <3>2. \A u \in Target : MadeBy(u) => MadeBy(u)'
      BY <1>2, <1>4, <2>14, <2>15 DEF MadeBy, Making
    <3>. QED  BY <1>1, <3>1, <3>2 DEF ReadyInv, TargetInv
  <2>17. \A d \in Target : Settled(d) => Settled(d)'
    BY <1>2, <2>14, <2>15, AnswerSettles
  <2>18. BuiltInv'
    <3>1. ASSUME NEW u \in Target, NEW j \in DOMAIN deps'[u], NEW d \in Target,
                 Told(deps'[u][j]), deps'[u][j].built, d = deps'[u][j].name
          PROVE  (j \in DOMAIN deps[u] /\ deps[u][j].built) \/ Settled(d)'
      <4>1. CASE u = f.target /\ j = f.i
        <5>1. d = t /\ deps'[u][j].auto = Top.auto
          BY <2>4, <2>8, <2>10, <3>1, <4>1 DEF Grows
        <5>. QED  BY <2>11, <3>1, <5>1 DEF Settled, Told
      <4>2. CASE ~(u = f.target /\ j = f.i)
        BY <2>8, <3>1, <4>2 DEF Grows, Told
      <4>. QED  BY <4>1, <4>2
    <3>. QED  BY <1>1, <2>8, <2>17, <3>1, BuiltMarks DEF ReadyInv
  <2>19. AnswerInv'
    BY <2>6 DEF AnswerInv
  <2>20. JobsInv'
    BY <1>1, <2>6, <2>9, SameJobs, JobsStay DEF ReadyInv
  <2>. QED  BY <2>9, <2>14, <2>16, <2>18, <2>19, <2>20 DEF ReadyInv
<1>. QED  BY <1>5, <1>6

LEMMA DonameCheckReady ==
  ASSUME Orderly, Sound, DonameCheck, ~fatal_in_progress'
  PROVE  Forward /\ ReadyInv'
<1>1. stack /= <<>> /\ Top.target \in Target /\ Top \in Frame /\ pc = "check"
  BY TopTarget DEF DonameCheck, Activated, Sound
<1>2. UNCHANGED <<state, rechecking, running_list>>
  BY DEF DonameCheck, listVars
<1>3. PICK r : r = Top.result
  OBVIOUS
<1>4. r \in {"ok", "running", "failed", "dont_know"}
      /\ (KeepGoing => r /= "dont_know") /\ (r = "failed" => KeepGoing)
  <2>1. Len(stack) \in DOMAIN stack
    BY <1>1, AsTopIs DEF Sound, TypeOK
  <2>. QED  BY <1>1, <1>3, <2>1 DEF Sound, ReadyInv, AnswerInv, StackInv, FrameOk, Top, Orderly
<1>5. CASE r \in {"ok", "running"} \/ (r = "dont_know" /\ Top.auto) \/ r = "failed"
  <2>1. \E failed \in BOOLEAN : PassOn(r, failed)
    BY <1>3, <1>4, <1>5 DEF DonameCheck, Sound
  <2>. QED  BY <1>1, <1>2, <1>3, <1>4, <1>5, <2>1, PassOnReady DEF Orderly
<1>6. CASE r = "dont_know" /\ ~Top.auto
  <2>1. /\ stack' = AsTop([Top EXCEPT !.second = TRUE]) /\ pc' = "enter"
        /\ UNCHANGED deps
    BY <1>3, <1>4, <1>6 DEF DonameCheck, Fatal
  <2>2. PICK f : f = [Top EXCEPT !.second = TRUE]
    OBVIOUS
  <2>3. /\ f.target = Top.target /\ f.auto = Top.auto /\ f.recheck = Top.recheck
        /\ f.result = Top.result
    BY <1>1, <2>2 DEF Frame
  <2>4. ~TopIsMade' /\ InDoname' /\ ~TopIsMade
    BY <1>1, <2>1 DEF TopIsMade, InDoname
  <2>5. Forward /\ StackInv' /\ TargetInv' /\ Top' = f
        /\ \A d \in Target : Settled(d) => Settled(d)'
    BY <1>1, <1>2, <1>3, <1>6, <2>1, <2>2, <2>3, <2>4, GrowsSame, TopMoves DEF Sound
  <2>6. BuiltInv'
    BY <1>2, <2>1, <2>5, GrowsSame, BuiltStays DEF Sound, ReadyInv
  <2>7. AnswerInv'
    BY <2>1 DEF AnswerInv
  <2>8. JobsInv'
    BY <1>1, <1>2, <2>4, <2>5, SameJobs, JobsStay DEF Sound, ReadyInv
  <2>. QED  BY <2>5, <2>6, <2>7, <2>8 DEF ReadyInv
<1>. QED  BY <1>4, <1>5, <1>6

\* A target that check_dependencies() is at is not being made.
LEMMA DependencyIsOff ==
  ASSUME Acyclic, Sound, stack /= <<>>, Top.i \in DOMAIN deps[Top.target],
         NEW d, d = deps[Top.target][Top.i].name, d /= Wait
  PROVE  d \in Target /\ \A k \in DOMAIN stack : stack[k].target /= d
<1>. DEFINE t == Top.target
<1>1. Top \in Frame /\ t \in Target /\ deps[t] \in Seq(Dependency)
  BY TopTarget DEF Sound, TypeOK
<1>2. d \in Target
  <2>1. deps[t][Top.i] \in Dependency
    BY <1>1, ElementOfSeq, LenProperties
  <2>. QED  BY <2>1 DEF Dependency
<1>3. Rank[d] < Rank[t]
  BY <1>1 DEF Sound, OrderInv, Descends, Lower
<1>4. ASSUME NEW k \in DOMAIN stack PROVE stack[k].target /= d
  <2>1. Rank \in [Target -> Nat] /\ stack[k].target \in Target
    BY HigherBelow, StackFrames DEF Sound, OrderInv
  <2>2. CASE k < Len(stack)
    <3>1. Rank[t] < Rank[stack[k].target]
      BY <2>2, HigherBelow DEF Sound, OrderInv
    <3>. QED  BY <1>1, <1>2, <1>3, <2>1, <3>1
  <2>3. CASE ~(k < Len(stack))
    <3>1. k = Len(stack)
      <4>1. Len(stack) \in Nat /\ k \in 1..Len(stack)
        BY LenProperties DEF Sound, TypeOK
      <4>. QED  BY <2>3, <4>1
    <3>. QED  BY <1>1, <1>2, <1>3, <2>1, <3>1 DEF Top
  <2>. QED  BY <2>2, <2>3
<1>. QED  BY <1>2, <1>4

LEMMA ScanDependencyReady ==
  ASSUME Acyclic, Sound, ScanDependency
  PROVE  Forward /\ ReadyInv'
<1>. DEFINE t == Top.target
            dep == deps[t][Top.i]
<1>1. /\ stack /= <<>> /\ t \in Target /\ Top \in Frame /\ pc = "deps"
      /\ TypeOK /\ ReadyInv /\ Top.i \in DOMAIN deps[t]
      /\ TopIsMade /\ Len(stack) \in DOMAIN stack
  BY TopTarget, AsTopIs DEF ScanDependency, Activated, Sound, TopIsMade, TypeOK
<1>2. UNCHANGED <<state, rechecking, running_list>>
  BY DEF ScanDependency, listVars
<1>3. deps[t] \in Seq(Dependency) /\ dep \in Dependency /\ Top.i \in Nat
  <2>1. deps[t] \in Seq(Dependency)
    BY <1>1 DEF TypeOK
  <2>. QED  BY <1>1, <2>1, ElementOfSeq, LenProperties DEF Frame
<1>4. state[t] = "in_progress"
  BY <1>1, TopIsAlone DEF Sound, BuildInv
<1>5. FrameOk(Top) /\ Scan(Top) /\ (rechecking[t] => Ready(t))
  <2>1. Len(stack) \in Making
    BY <1>1 DEF Making
  <2>. QED  BY <1>1, <2>1 DEF ReadyInv, StackInv, Top, TargetInv
<1>. DEFINE Skip == /\ ~dep.auto /\ (Top.recheck \/ rechecking[t])
                    /\ stack' = AsTop([Top EXCEPT !.i = @ + 1])
                    /\ UNCHANGED <<deps, pc>>
            Pause == /\ dep.name = Wait
                     /\ stack' = AsTop([Top EXCEPT !.i = IF Top.running
                                          THEN Len(deps[t]) + 1 ELSE @ + 1])
                     /\ UNCHANGED <<deps, pc>>
            Done == /\ dep.name /= Wait
                    /\ dep.built \/ state[dep.name] = "failed"
                    /\ stack' = AsTop(DependencyDone(Top, dep.name, state[dep.name]))
                    /\ deps' = MarkBuilt(Top, state[dep.name])
                    /\ UNCHANGED pc
            Call == /\ dep.name /= Wait
                    /\ stack' = Append(stack, Activation(dep.name, dep.auto))
                    /\ pc' = "enter" /\ UNCHANGED deps
<1>6. Skip \/ Pause \/ Done \/ Call
  BY DEF ScanDependency
<1>7. \* What the top activation has behind it when it goes on with f.
      ASSUME NEW f, stack' = AsTop(f), UNCHANGED pc, f.target = t, f.auto = Top.auto,
             f.recheck = Top.recheck, f.result \in {Top.result, "failed"},
             Top.running => f.running,
             f.result = "failed" => KeepGoing,
             f.i = Top.i + 1 \/ f.running,
             \A u \in Target : Grows(deps[u], deps'[u]),
             Told(dep) => state[dep.name] = "ok" \/ f.running \/ f.result = "failed",
             \A u \in Target : \A j \in DOMAIN deps'[u] : \A d \in Target :
               Told(deps'[u][j]) /\ deps'[u][j].built /\ d = deps'[u][j].name =>
                 (j \in DOMAIN deps[u] /\ deps[u][j].built) \/ Settled(d)
      PROVE  Forward /\ ReadyInv'
  <2>1. TopIsMade' /\ InDoname' /\ pc' = "deps"
    BY <1>1, <1>7 DEF TopIsMade, InDoname
  <2>2. Scan(f)'
    <3>. SUFFICES ASSUME NEW j \in DOMAIN deps'[t], j < f.i, Told(deps'[t][j]), ~f.running
                  PROVE  state'[deps'[t][j].name] = "ok" \/ f.result = "failed"
      BY <1>7 DEF Scan
    <3>1. /\ j \in DOMAIN deps[t] /\ deps[t][j].name = deps'[t][j].name
          /\ Told(deps[t][j])
      BY <1>1, <1>7 DEF Grows, Told
    <3>2. CASE j < Top.i
      BY <1>2, <1>5, <1>7, <3>1, <3>2 DEF Scan
    <3>3. CASE ~(j < Top.i)
      <4>1. j = Top.i
        <5>1. j \in Nat
          BY <1>3, <3>1, LenProperties
        <5>2. f.i = Top.i + 1
          BY <1>7
        <5>. QED  BY <1>3, <3>3, <5>1, <5>2
      <4>. QED  BY <1>2, <1>7, <3>1, <4>1
    <3>. QED  BY <3>2, <3>3
  <2>3. Forward /\ StackInv' /\ TargetInv'
        /\ \A d \in Target : Settled(d) => Settled(d)'
    BY <1>1, <1>2, <1>7, <2>1, <2>2, TopMoves
  <2>4. BuiltInv'
    <3>1. \A u \in Target : \A j \in DOMAIN deps'[u] : \A d \in Target :
               Told(deps'[u][j]) /\ deps'[u][j].built /\ d = deps'[u][j].name =>
                 (j \in DOMAIN deps[u] /\ deps[u][j].built) \/ Settled(d)'
      BY <1>7, <2>3
    <3>. QED  BY <1>1, <1>2, <1>7, <2>3, <3>1, BuiltMarks DEF ReadyInv
  <2>5. AnswerInv'
    BY <2>1 DEF AnswerInv
  <2>6. JobsInv'
    BY <1>1, <1>2, <2>1, <2>3, SameJobs, JobsStay DEF ReadyInv
  <2>. QED  BY <2>3, <2>4, <2>5, <2>6 DEF ReadyInv
<1>8. CASE Skip
  <2>1. PICK f : f = [Top EXCEPT !.i = @ + 1]
    OBVIOUS
  <2>2. /\ f.target = t /\ f.auto = Top.auto /\ f.recheck = Top.recheck
        /\ f.result = Top.result /\ f.running = Top.running /\ f.i = Top.i + 1
    BY <1>1, <2>1 DEF Frame
  <2>3. Told(dep) => state[dep.name] = "ok"
    <3>1. Ready(t)
      BY <1>5, <1>8 DEF FrameOk
    <3>2. Told(dep) => dep.name \in Needs(t)
      BY <1>1 DEF Told, Needs
    <3>. QED  BY <3>1, <3>2 DEF Ready, Made
  <2>. HIDE DEF dep
  <2>. QED  BY <1>5, <1>7, <1>8, <2>1, <2>2, <2>3, GrowsSame DEF FrameOk
<1>9. CASE Pause
  <2>1. PICK f : f = [Top EXCEPT !.i = IF Top.running THEN Len(deps[t]) + 1 ELSE @ + 1]
    OBVIOUS
  <2>2. /\ f.target = t /\ f.auto = Top.auto /\ f.recheck = Top.recheck
        /\ f.result = Top.result /\ f.running = Top.running
        /\ f.i = Top.i + 1 \/ f.running
    BY <1>1, <2>1 DEF Frame
  <2>3. ~Told(dep)
    BY <1>9 DEF Told
  <2>. HIDE DEF dep
  <2>. QED  BY <1>5, <1>7, <1>9, <2>1, <2>2, <2>3, GrowsSame DEF FrameOk
<1>10. CASE Done
  <2>1. PICK r, f : r = state[dep.name] /\ f = DependencyDone(Top, dep.name, r)
    OBVIOUS
  <2>2. /\ f.target = t /\ f.auto = Top.auto /\ f.recheck = Top.recheck
        /\ f.result = (IF r = "failed" THEN r ELSE Top.result)
        /\ f.running = (Top.running \/ r = "running") /\ f.i = Top.i + 1
    BY <1>1, <2>1 DEF Frame, DependencyDone
  <2>3. dep.name \in Target /\ ~OnStack(dep.name)
    <3>1. PICK d : d = dep.name
      OBVIOUS
    <3>2. d /= Wait
      <4>1. dep.name /= Wait
        BY <1>10
      <4>. QED  BY <3>1, <4>1
    <3>3. d \in Target /\ \A k \in DOMAIN stack : stack[k].target /= d
      BY <1>1, <3>1, <3>2, DependencyIsOff
    <3>. QED  BY <3>1, <3>3 DEF OnStack
  <2>4. Told(dep) => r \in {"ok", "running", "failed"}
    <3>1. dep.built /\ Told(dep) => Settled(dep.name)
      BY <1>1, <1>4 DEF ReadyInv, BuiltInv
    <3>2. dep.built \/ r = "failed"
      BY <1>10, <2>1
    <3>3. r = state[dep.name]
      BY <2>1
    <3>. HIDE DEF dep
    <3>. QED  BY <2>3, <3>1, <3>2, <3>3 DEF Settled
  <2>5. r = "failed" => KeepGoing
    <3>1. r = state[dep.name]
      BY <2>1
    <3>2. \A u \in Target : state[u] = "failed" => KeepGoing
      BY <1>1 DEF ReadyInv, TargetInv
    <3>. HIDE DEF dep
    <3>. QED  BY <2>3, <3>1, <3>2
  <2>6. \A u \in Target :
           /\ Grows(deps[u], deps'[u])
           /\ \A j \in DOMAIN deps'[u] : deps'[u][j].built =>
                deps[u][j].built \/ (u = t /\ j = Top.i)
    <3>1. deps' = MarkBuilt(Top, r)
      BY <1>10, <2>1
    <3>2. TypeOK /\ Top \in Frame
      BY <1>1
    <3>. HIDE DEF dep
    <3>. QED  BY <3>1, <3>2, MarkBuiltGrows
  <2>7. ASSUME NEW u \in Target, NEW j \in DOMAIN deps'[u], NEW d \in Target,
               Told(deps'[u][j]), deps'[u][j].built, d = deps'[u][j].name
        PROVE  (j \in DOMAIN deps[u] /\ deps[u][j].built) \/ Settled(d)
    <3>1. j \in DOMAIN deps[u] /\ d = deps[u][j].name
      BY <2>6, <2>7 DEF Grows, Told
    <3>2. CASE u = t /\ j = Top.i
      BY <1>10, <3>1, <3>2 DEF Settled
    <3>3. CASE ~(u = t /\ j = Top.i)
      BY <2>6, <2>7, <3>1, <3>3
    <3>. QED  BY <3>2, <3>3
  <2>8. f.result = "failed" => KeepGoing
    BY <1>5, <2>2, <2>5 DEF FrameOk
  <2>9. stack' = AsTop(f) /\ UNCHANGED pc
    BY <1>10, <2>1
  <2>10. Told(dep) => state[dep.name] = "ok" \/ f.running \/ f.result = "failed"
    BY <2>1, <2>2, <2>4
  <2>. HIDE DEF dep
  <2>. QED  BY <1>7, <2>2, <2>6, <2>7, <2>8, <2>9, <2>10
<1>11. CASE Call
  <2>1. dep.name \in Target /\ dep.auto \in BOOLEAN
    BY <1>3, <1>11 DEF Dependency
  <2>2. PICK f : f = Activation(dep.name, dep.auto)
    OBVIOUS
  <2>3. /\ f \in Frame /\ f.target = dep.name /\ f.auto = dep.auto
        /\ ~f.recheck /\ f.result = "dont_know"
    BY <2>1, <2>2, ActivationType DEF Activation
  <2>4. ~TopIsMade' /\ InDoname' /\ pc' = "enter"
    BY <1>11 DEF TopIsMade, InDoname
  <2>5. Forward
    BY <1>2, <1>11, GrowsSame DEF Forward
  <2>6. stack' = Append(stack, f) /\ Calls(Top, f)
    BY <1>1, <1>11, <2>2, <2>3 DEF Calls
  <2>7. StackInv'
    BY <1>1, <2>3, <2>4, <2>5, <2>6, StackPush DEF ReadyInv
  <2>8. \A k \in DOMAIN stack : /\ k \in DOMAIN stack' /\ k < Len(stack')
                                /\ stack'[k] = stack[k]
    <3>1. stack \in Seq(Frame)
      BY <1>1 DEF TypeOK
    <3>2. Len(stack) \in Nat /\ DOMAIN stack = 1..Len(stack)
      BY <1>1, StackFrames
    <3>3. /\ Len(stack') = Len(stack) + 1 /\ DOMAIN stack' = 1..(Len(stack) + 1)
          /\ \A k \in 1..Len(stack) : stack'[k] = stack[k]
      BY <2>3, <2>6, <3>1, AppendProperties, LenProperties
    <3>. QED  BY <3>2, <3>3
  <2>9. TargetInv'
    <3>1. \A u \in Target : rechecking'[u] => Ready(u)'
      BY <1>1, <1>2, <2>5, ReadyStays DEF ReadyInv, TargetInv
    <3>2. \A u \in Target : MadeBy(u) => MadeBy(u)'
      BY <2>8 DEF MadeBy, Making
    <3>. QED  BY <1>1, <1>2, <3>1, <3>2 DEF ReadyInv, TargetInv
  <2>10. BuiltInv'
    <3>1. \A d \in Target : Settled(d) => Settled(d)'
      BY <1>2, <2>8 DEF Settled, OnStack
    <3>. QED  BY <1>1, <1>2, <1>11, <3>1, GrowsSame, BuiltStays DEF ReadyInv
  <2>11. AnswerInv'
    BY <2>4 DEF AnswerInv
  <2>12. JobsInv'
    BY <1>1, <1>2, <2>4, <2>5, SameJobs, JobsStay DEF ReadyInv
  <2>. QED  BY <2>5, <2>7, <2>9, <2>10, <2>11, <2>12 DEF ReadyInv
<1>. HIDE DEF Skip, Pause, Done, Call
<1>. QED  BY <1>6, <1>8, <1>9, <1>10, <1>11
-----------------------------------------------------------------------------
(* The second half of doname(), run_command(), execute_parallel() *)

\* The top activation makes its target: what follows from that.
LEMMA MakesTop ==
  ASSUME Sound, stack /= <<>>, TopIsMade
  PROVE  /\ Top \in Frame /\ Top.target \in Target /\ Len(stack) \in Making
         /\ state[Top.target] = "in_progress"
         /\ Top.result \in {"dont_know", "failed"}
         /\ Scan(Top) /\ (Top.result = "failed" => KeepGoing)
<1>1. Len(stack) \in Making /\ Len(stack) \in DOMAIN stack
  BY AsTopIs DEF Making, Sound, TypeOK
<1>2. Scan(Top) /\ (Top.result = "failed" => KeepGoing)
  BY <1>1 DEF Sound, ReadyInv, StackInv, FrameOk, Top
<1>. QED  BY <1>1, <1>2, TopTarget, TopIsAlone DEF Sound, BuildInv

\* The target of the top activation goes to the running list.
LEMMA ToListReady ==
  ASSUME Sound, stack /= <<>>, TopIsMade, pc /= "finish", NEW e \in Entry,
         e.target = Top.target, e.st \notin {"ok", "failed"},
         e.st = "running" => Ready(Top.target),
         running_list' = Append(running_list, e),
         state' = [state EXCEPT ![Top.target] = "running"],
         Returns("running"), UNCHANGED <<deps, rechecking>>
  PROVE  Forward /\ ReadyInv'
<1>1. Top.target \in Target /\ TypeOK /\ ReadyInv /\ MakingInv
  BY MakesTop DEF Sound, BuildInv
<1>2. Forward /\ StackInv' /\ AnswerInv' /\ TargetInv' /\ BuiltInv' /\ ~TopIsMade'
  BY <1>1, GrowsSame, TopReturns
<1>3. Finished' = {}
  BY <1>1, NoneFinished DEF ReadyInv
<1>4. ASSUME NEW t \in ActiveOf(running_list') PROVE Ready(t)'
  <2>1. t \in ActiveOf(running_list) \/ (t = Top.target /\ Active(e))
    BY <1>1, AppendActive DEF TypeOK
  <2>2. Ready(t) /\ t \in Target
    BY <1>1, <2>1, ActiveTargets DEF Active, ReadyInv, JobsInv
  <2>. QED  BY <1>2, <2>2, ReadyStays
<1>5. JobsInv'
  BY <1>2, <1>3, <1>4 DEF JobsInv
<1>. QED  BY <1>2, <1>5 DEF ReadyInv

\* make goes on with run_command() for the target of the top activation.
LEMMA GoesOnReady ==
  ASSUME Sound, stack /= <<>>, TopIsMade, pc /= "finish", TopIsMade', Ready(Top.target),
         UNCHANGED <<state, running_list, stack, deps, rechecking>>
  PROVE  Forward /\ ReadyInv'
<1>1. Top.target \in Target /\ TypeOK /\ ReadyInv
  BY MakesTop DEF Sound
<1>2. Forward
  BY GrowsSame DEF Forward
<1>3. StackInv'
  BY <1>1, <1>2, StackSame DEF ReadyInv, InDoname
<1>4. AnswerInv'
  BY DEF AnswerInv, TopIsMade
<1>5. TargetInv'
  <2>1. \A u \in Target : rechecking'[u] => Ready(u)'
    BY <1>1, <1>2, ReadyStays DEF ReadyInv, TargetInv
  <2>2. \A u \in Target : MadeBy(u) => MadeBy(u)'
    BY DEF MadeBy, Making
  <2>. QED  BY <1>1, <2>1, <2>2 DEF ReadyInv, TargetInv
<1>6. BuiltInv'
  <2>1. \A d \in Target : Settled(d) => Settled(d)'
    BY DEF Settled, OnStack
  <2>. QED  BY <1>1, <2>1, GrowsSame, BuiltStays DEF ReadyInv
<1>7. JobsInv'
  <2>1. Top' = Top
    BY DEF Top
  <2>2. \A t : t = Top.target => Ready(t)'
    BY <1>1, <1>2, ReadyStays
  <2>3. Ready(Top.target)'
    BY <2>1, <2>2
  <2>4. \A t \in ActiveOf(running_list') : Ready(t)'
    BY <1>1, <1>2, ActiveTargets, ReadyStays DEF ReadyInv, JobsInv
  <2>5. Finished' = {}
    BY <1>1, SameJobs DEF ReadyInv
  <2>. QED  BY <2>3, <2>4, <2>5 DEF JobsInv
<1>. QED  BY <1>3, <1>4, <1>5, <1>6, <1>7, <1>2 DEF ReadyInv

LEMMA ConcludeReady ==
  ASSUME Sound, TypeOK', stack /= <<>>, TopIsMade, pc /= "finish",
         NEW r \in {"ok", "failed", "dont_know"}, NEW times,
         NEW ds \in [Target -> Seq(Dependency)], Conclude(r, times, ds),
         \A t \in Target : Grows(deps[t], ds[t]) /\ NotMarked(deps[t], ds[t]),
         r = "ok" => Ready(Top.target), r = "failed" => KeepGoing,
         Target \subseteq Rule => r /= "dont_know",
         \A t \in Target : rechecking'[t] => rechecking[t],
         UNCHANGED running_list
  PROVE  Forward /\ ReadyInv'
<1>. DEFINE t == Top.target
<1>1. t \in Target /\ TypeOK /\ ReadyInv /\ MakingInv /\ state[t] = "in_progress"
  BY MakesTop DEF Sound, BuildInv
<1>2. CASE r = "ok" /\ NewAutos(ds[t], Top.autos)
  <2>1. PICK f : f = [Activation(t, Top.auto) EXCEPT
                        !.second = Top.second, !.restart = Top.restart,
                        !.recheck = TRUE, !.autos = AutosOf(ds[t])]
    OBVIOUS
  <2>2. /\ f.target = t /\ f.auto = Top.auto /\ f.i = 1 /\ f.result = "dont_know"
    BY <2>1 DEF Activation
  <2>3. /\ state' = [state EXCEPT ![t] = "in_progress"]
        /\ deps' = (IF Top.restart THEN ds ELSE [ds EXCEPT ![t] = Unbuilt(ds[t])])
        /\ stack' = AsTop(f) /\ pc' = "deps"
    BY <1>2, <2>1 DEF Conclude
  <2>4. \A u \in Target : Grows(deps[u], deps'[u]) /\ NotMarked(deps[u], deps'[u])
    <3>1. Grows(ds[t], Unbuilt(ds[t])) /\ NotMarked(ds[t], Unbuilt(ds[t]))
      BY <1>1, UnbuiltGrows
    <3>2. Grows(deps[t], Unbuilt(ds[t])) /\ NotMarked(deps[t], Unbuilt(ds[t]))
      BY <1>1, <3>1, GrowsOn
    <3>3. \A u \in Target : deps'[u] = ds[u] \/ (u = t /\ deps'[u] = Unbuilt(ds[t]))
      BY <2>3
    <3>. QED  BY <3>2, <3>3
  <2>5. Forward /\ StackInv' /\ TargetInv' /\ BuiltInv'
    BY <1>1, <1>2, <2>2, <2>3, <2>4, TopStarts
  <2>6. AnswerInv'
    BY <2>3 DEF AnswerInv
  <2>7. JobsInv'
    BY <1>1, <2>3, <2>5, SameJobs, JobsStay DEF ReadyInv
  <2>. QED  BY <2>5, <2>6, <2>7 DEF ReadyInv
<1>3. CASE ~(r = "ok" /\ NewAutos(ds[t], Top.autos))
  <2>1. state' = [state EXCEPT ![t] = r] /\ deps' = ds /\ Returns(r)
    BY <1>3 DEF Conclude
  <2>2. Forward /\ StackInv' /\ AnswerInv' /\ TargetInv' /\ BuiltInv' /\ ~TopIsMade'
    BY <1>1, <2>1, TopReturns
  <2>3. JobsInv'
    BY <1>1, <2>2, SameJobs, JobsStay DEF ReadyInv
  <2>. QED  BY <2>2, <2>3 DEF ReadyInv
<1>. QED  BY <1>2, <1>3

LEMMA AddPendingReady ==
  ASSUME Sound, AddPending
  PROVE  Forward /\ ReadyInv'
<1>1. stack /= <<>> /\ TopIsMade /\ pc = "deps"
  BY DEF AddPending, Scanned, Activated, TopIsMade, Sound
<1>2. Top.target \in Target
  BY <1>1, MakesTop
<1>3. PICK e : e = Waiting(Top.target, "pending", FALSE)
  OBVIOUS
<1>4. e \in Entry /\ e.target = Top.target /\ e.st = "pending"
  BY <1>2, <1>3, WaitingType DEF Waiting
<1>. QED  BY <1>1, <1>3, <1>4, ToListReady DEF AddPending

LEMMA NoCommandReady ==
  ASSUME Orderly, Sound, TypeOK', NoCommand
  PROVE  Forward /\ ReadyInv'
<1>1. stack /= <<>> /\ TopIsMade /\ pc = "deps" /\ Scanned /\ ~Top.running
      /\ Top.target \notin Rule /\ UNCHANGED <<rechecking, running_list>>
  BY DEF NoCommand, Scanned, Activated, TopIsMade, Sound, listVars
<1>2. /\ Top.target \in Target /\ Scan(Top)
      /\ Top.result \in {"dont_know", "failed"} /\ (Top.result = "failed" => KeepGoing)
  BY <1>1, MakesTop
<1>3. ~KeepGoing /\ Top.result = "dont_know" /\ ~(Target \subseteq Rule)
  BY <1>1, <1>2 DEF Orderly
<1>4. PICK r, times : r \in {"ok", "dont_know"} /\ Conclude(r, times, deps)
  BY <1>3 DEF NoCommand
<1>5. Ready(Top.target)
  BY <1>1, <1>2, <1>3, ScannedReady DEF Sound
<1>6. deps \in [Target -> Seq(Dependency)]
  BY DEF Sound, TypeOK
<1>. QED  BY <1>1, <1>3, <1>4, <1>5, <1>6, GrowsSame, ConcludeReady

LEMMA CommandNotRunReady ==
  ASSUME Sound, TypeOK', CommandNotRun
  PROVE  Forward /\ ReadyInv'
<1>1. stack /= <<>> /\ TopIsMade /\ pc = "deps" /\ Scanned /\ ~Top.running
      /\ UNCHANGED running_list
  BY DEF CommandNotRun, Scanned, Activated, TopIsMade, Sound, listVars
<1>2. /\ Top.target \in Target /\ Scan(Top)
      /\ (Top.result = "failed" => KeepGoing)
  BY <1>1, MakesTop
<1>3. deps \in [Target -> Seq(Dependency)] /\ rechecking \in [Target -> BOOLEAN]
  BY DEF Sound, TypeOK
<1>4. PICK r, times :
         /\ r \in {"ok", "failed"}
         /\ Conclude(r, times, deps)
         /\ IF r = "failed" THEN Top.result = "failed" ELSE Top.result /= "failed"
  BY DEF CommandNotRun
<1>5. \A t \in Target : rechecking'[t] => rechecking[t]
  <2>1. rechecking' \in {rechecking, [rechecking EXCEPT ![Top.target] = FALSE]}
    BY DEF CommandNotRun
  <2>. QED  BY <1>2, <1>3, <2>1
<1>6. r = "ok" => Ready(Top.target)
  BY <1>1, <1>2, <1>4, ScannedReady DEF Sound
<1>. QED  BY <1>1, <1>2, <1>3, <1>4, <1>5, <1>6, GrowsSame, ConcludeReady

LEMMA SerialExitReady ==
  ASSUME Sound, TypeOK', SerialExit, ~fatal_in_progress'
  PROVE  Forward /\ ReadyInv'
<1>1. stack /= <<>> /\ TopIsMade /\ pc = "serial" /\ UNCHANGED <<rechecking, running_list>>
  BY DEF SerialExit, Activated, TopIsMade, Sound, listVars
<1>2. Top.target \in Target /\ deps \in [Target -> Seq(Dependency)]
  BY <1>1, MakesTop DEF Sound, TypeOK
<1>3. Ready(Top.target)
  BY <1>1 DEF Sound, ReadyInv, JobsInv
<1>4. PICK list, r, times :
         /\ list \in Reported(Top.target, deps[Top.target]) /\ r \in {"ok", "failed"}
         /\ Conclude(r, times, [deps EXCEPT ![Top.target] = list])
         /\ r = "failed" => KeepGoing
  BY DEF SerialExit, Fatal
<1>5. PICK ds : ds = [deps EXCEPT ![Top.target] = list]
  OBVIOUS
<1>6. /\ list \in Seq(Dependency) /\ Grows(deps[Top.target], list)
      /\ NotMarked(deps[Top.target], list)
  BY <1>2, <1>4, ReportedType, ReportedGrows
<1>7. ds \in [Target -> Seq(Dependency)]
      /\ \A t \in Target : Grows(deps[t], ds[t]) /\ NotMarked(deps[t], ds[t])
  BY <1>2, <1>5, <1>6, GrowsSame
<1>8. Conclude(r, times, ds)
  BY <1>4, <1>5
<1>. QED  BY <1>1, <1>3, <1>4, <1>7, <1>8, ConcludeReady

LEMMA BuildAloneReady ==
  ASSUME Sound, stack /= <<>>, TopIsMade, pc /= "finish", Ready(Top.target), BuildAlone,
         UNCHANGED <<deps, rechecking>>
  PROVE  Forward /\ ReadyInv'
<1>1. Top.target \in Target
  BY MakesTop
<1>2. CASE pc' = "serial" /\ UNCHANGED <<state, running_list, stack>>
  BY <1>2, GoesOnReady DEF TopIsMade
<1>3. CASE /\ state' = [state EXCEPT ![Top.target] = "running"]
           /\ running_list' = Append(running_list, Waiting(Top.target, "serial", FALSE))
           /\ Returns("running")
  <2>1. PICK e : e = Waiting(Top.target, "serial", FALSE)
    OBVIOUS
  <2>2. e \in Entry /\ e.target = Top.target /\ e.st = "serial"
    BY <1>1, <2>1, WaitingType DEF Waiting
  <2>. QED  BY <1>3, <2>1, <2>2, ToListReady
<1>. QED  BY <1>2, <1>3 DEF BuildAlone

LEMMA RunCommandReady ==
  ASSUME Sound, RunCommand
  PROVE  Forward /\ ReadyInv'
<1>1. stack /= <<>> /\ TopIsMade /\ pc = "deps" /\ Scanned /\ ~Top.running
      /\ Top.result /= "failed" /\ UNCHANGED <<deps, rechecking>>
  BY DEF RunCommand, Scanned, Activated, TopIsMade, Sound
<1>2. Ready(Top.target)
  BY <1>1, MakesTop, ScannedReady DEF Sound
<1>3. CASE BuildAlone
  BY <1>1, <1>2, <1>3, BuildAloneReady
<1>4. CASE pc' = "slots" /\ UNCHANGED <<state, running_list, stack>>
  BY <1>1, <1>2, <1>4, GoesOnReady DEF TopIsMade
<1>. QED  BY <1>3, <1>4 DEF RunCommand

LEMMA DistributeProcessReady ==
  ASSUME Sound, DistributeProcess
  PROVE  Forward /\ ReadyInv'
<1>1. stack /= <<>> /\ TopIsMade /\ pc \in {"slots", "retry"}
      /\ UNCHANGED <<deps, rechecking>>
  BY DEF DistributeProcess, Activated, TopIsMade, Sound
<1>2. Ready(Top.target) /\ Top \in Frame
  BY <1>1, MakesTop DEF Sound, ReadyInv, JobsInv
<1>3. CASE StartJob
  <2>1. PICK e : e = Job(Top)
    OBVIOUS
  <2>2. e \in Entry /\ e.target = Top.target /\ e.st = "running"
    BY <1>2, <2>1, JobType DEF Job, Waiting
  <2>. QED  BY <1>1, <1>2, <1>3, <2>1, <2>2, ToListReady DEF StartJob
<1>4. CASE NoSlot
  BY <1>1, <1>2, <1>4, BuildAloneReady DEF NoSlot
<1>5. CASE /\ UNCHANGED <<state, running_list, stack>>
           /\ pc' = "slots" \/ (pc' = "await" /\ back' \in {"slots", "retry"})
  BY <1>1, <1>2, <1>5, GoesOnReady DEF TopIsMade
<1>. QED  BY <1>3, <1>4, <1>5 DEF DistributeProcess, AwaitFor, AdjustError
-----------------------------------------------------------------------------
(* Jobs end, and the list is worked on *)

LEMMA SameActive ==
  ASSUME DOMAIN running_list' = DOMAIN running_list,
         \A j \in DOMAIN running_list :
            /\ running_list'[j].target = running_list[j].target
            /\ Active(running_list'[j]) <=> Active(running_list[j])
  PROVE  ActiveOf(running_list') = ActiveOf(running_list)
BY DEF ActiveOf

\* make leaves the targets and the activations of doname() alone.
LEMMA QuietReady ==
  ASSUME Sound, UNCHANGED <<state, deps, rechecking, stack>>,
         TopIsMade' <=> TopIsMade, stack /= <<>> => InDoname',
         pc' = "check" => pc = "check", pc = "deps" => pc' = "deps",
         Finished' = {} \/ pc' = "finish",
         ActiveOf(running_list') = ActiveOf(running_list)
  PROVE  Forward /\ ReadyInv'
<1>1. TypeOK /\ ReadyInv
  BY DEF Sound
<1>2. Forward
  BY GrowsSame DEF Forward
<1>3. StackInv'
  BY <1>1, <1>2, StackSame DEF ReadyInv
<1>4. Top' = Top
  BY DEF Top
<1>5. AnswerInv'
  BY <1>1, <1>4 DEF AnswerInv, ReadyInv
<1>6. TargetInv'
  <2>1. \A u \in Target : rechecking'[u] => Ready(u)'
    BY <1>1, <1>2, ReadyStays DEF ReadyInv, TargetInv
  <2>2. \A u \in Target : MadeBy(u) => MadeBy(u)'
    BY DEF MadeBy, Making
  <2>. QED  BY <1>1, <2>1, <2>2 DEF ReadyInv, TargetInv
<1>7. BuiltInv'
  <2>1. \A d \in Target : Settled(d) => Settled(d)'
    BY DEF Settled, OnStack
  <2>. QED  BY <1>1, <2>1, GrowsSame, BuiltStays DEF ReadyInv
<1>8. JobsInv'
  <2>1. TopIsMade => Top.target \in Target
    BY <1>1, TopTarget DEF Sound, Activated, TopIsMade
  <2>2. \A t : TopIsMade /\ pc /= "deps" /\ t = Top.target => Ready(t)'
    BY <1>1, <1>2, <2>1, ReadyStays DEF ReadyInv, JobsInv
  <2>3. TopIsMade' /\ pc' /= "deps" => Ready(Top.target)'
    BY <1>4, <2>2
  <2>4. \A t \in ActiveOf(running_list') : Ready(t)'
    BY <1>1, <1>2, ActiveTargets, ReadyStays DEF ReadyInv, JobsInv
  <2>. QED  BY <2>3, <2>4 DEF JobsInv
<1>. QED  BY <1>2, <1>3, <1>5, <1>6, <1>7, <1>8 DEF ReadyInv

LEMMA JobExitIs ==
  ASSUME TypeOK, NEW t \in Target, JobExit(t)
  PROVE  /\ DOMAIN running_list' = DOMAIN running_list
         /\ \A j \in DOMAIN running_list :
               /\ running_list'[j].target = running_list[j].target
               /\ running_list'[j].st = running_list[j].st
         /\ UNCHANGED <<targetVars, stack, pc, back, errorVars>>
<1>1. PICK i \in DOMAIN running_list, exit \in {"ok", "failed"}, out \in BOOLEAN :
        running_list' = [running_list EXCEPT
              ![i] = [running_list[i] EXCEPT !.exit = exit, !.out = out,
                                             !.time = RecipeTime(t)]]
  BY DEF JobExit
<1>2. running_list[i] \in Entry
  BY ElementOfSeq, LenProperties DEF TypeOK
<1>3. /\ DOMAIN running_list' = DOMAIN running_list
      /\ \A j \in DOMAIN running_list : /\ running_list'[j].target = running_list[j].target
                                        /\ running_list'[j].st = running_list[j].st
  BY <1>1, <1>2 DEF Entry
<1>. QED  BY <1>3 DEF JobExit

LEMMA JobExitReady ==
  ASSUME Sound, NEW t \in Target, JobExit(t)
  PROVE  Forward /\ ReadyInv'
<1>1. /\ DOMAIN running_list' = DOMAIN running_list
      /\ \A j \in DOMAIN running_list : /\ running_list'[j].target = running_list[j].target
                                        /\ running_list'[j].st = running_list[j].st
      /\ UNCHANGED <<state, deps, rechecking, stack, pc, back>>
  BY JobExitIs DEF Sound, targetVars
<1>2. ActiveOf(running_list') = ActiveOf(running_list)
  BY <1>1, SameActive DEF Active
<1>3. Finished' = {} \/ pc' = "finish"
  BY <1>1 DEF Sound, ReadyInv, JobsInv, Finished
<1>4. (TopIsMade' <=> TopIsMade) /\ (InDoname' <=> InDoname)
  BY <1>1 DEF TopIsMade, InDoname
<1>. QED  BY <1>1, <1>2, <1>3, <1>4, QuietReady DEF Sound, ReadyInv, StackInv

LEMMA AwaitParallelIs ==
  ASSUME TypeOK, AwaitParallel
  PROVE  /\ ActiveOf(running_list') = ActiveOf(running_list)
         /\ UNCHANGED <<targetVars, stack, back, errorVars>>
         /\ pc = "await" /\ pc' = "finish"
<1>1. \A i \in DOMAIN running_list : running_list[i] \in Entry
  BY ElementOfSeq, LenProperties DEF TypeOK
<1>2. /\ DOMAIN running_list' = DOMAIN running_list
      /\ \A i \in DOMAIN running_list : running_list'[i] =
            IF i \in Exited THEN [running_list[i] EXCEPT !.st = running_list[i].exit]
                            ELSE running_list[i]
  BY DEF AwaitParallel
<1>3. ASSUME NEW i \in DOMAIN running_list
      PROVE  /\ running_list'[i].target = running_list[i].target
             /\ Active(running_list'[i]) <=> Active(running_list[i])
  <2>1. CASE i \in Exited
    <3>1. running_list[i].st = "running" /\ running_list[i].exit \in {"ok", "failed"}
      BY <1>1, <2>1 DEF Exited, Entry
    <3>2. /\ running_list'[i].target = running_list[i].target
          /\ running_list'[i].st = running_list[i].exit
      BY <1>1, <1>2, <2>1 DEF Entry
    <3>. QED  BY <3>1, <3>2 DEF Active
  <2>2. CASE i \notin Exited
    BY <1>2, <2>2
  <2>. QED  BY <2>1, <2>2
<1>4. ActiveOf(running_list') = ActiveOf(running_list)
  BY <1>2, <1>3, SameActive
<1>. QED  BY <1>4 DEF AwaitParallel

LEMMA AwaitParallelReady ==
  ASSUME Sound, AwaitParallel
  PROVE  Forward /\ ReadyInv'
<1>1. /\ ActiveOf(running_list') = ActiveOf(running_list)
      /\ UNCHANGED <<state, deps, rechecking, stack, back>>
      /\ pc = "await" /\ pc' = "finish"
  BY AwaitParallelIs DEF Sound, targetVars
<1>2. (TopIsMade' <=> TopIsMade) /\ (InDoname' <=> InDoname)
  BY <1>1 DEF TopIsMade, InDoname
<1>. QED  BY <1>1, <1>2, QuietReady DEF Sound, ReadyInv, StackInv

LEMMA SameListReady ==
  ASSUME Sound, FinishChildrenReturns \/ FinishRunning
  PROVE  Forward /\ ReadyInv'
<1>1. UNCHANGED <<state, deps, rechecking, stack, running_list>>
  BY DEF FinishChildrenReturns, FinishRunning, targetVars, listVars
<1>2. /\ pc \in {"finish", "finish_running"}
      /\ pc' \in {"next1", "goals", "slots", "retry", "finish_running", "await"}
      /\ TopIsMade' <=> TopIsMade
      /\ Finished' = {}
  <2>1. CASE FinishChildrenReturns
    <3>1. back \in {"goals", "slots", "retry", "finish_running"} /\ pc = "finish"
      BY <2>1 DEF FinishChildrenReturns, Sound, FatalInv, Draining, TypeOK
    <3>2. pc' \in {"next1", back} /\ (pc' = "next1" => back = "finish_running" \/ back = "next1")
      BY <2>1, Zenon DEF FinishChildrenReturns
    <3>3. Finished' = {}
      BY <1>1, <2>1 DEF FinishChildrenReturns, Finished
    <3>. QED  BY <3>1, <3>2, <3>3 DEF TopIsMade
  <2>2. CASE FinishRunning
    <3>1. Finished = {}
      BY <2>2 DEF FinishRunning, Sound, ReadyInv, JobsInv
    <3>2. Finished' = {}
      BY <1>1, <3>1 DEF Finished
    <3>. QED  BY <2>2, <3>2 DEF FinishRunning, TopIsMade
  <2>. QED  BY <2>1, <2>2
<1>3. stack /= <<>> => InDoname'
  BY <1>2 DEF Sound, ReadyInv, StackInv, InDoname
<1>. QED  BY <1>1, <1>2, <1>3, QuietReady

\* What finish_children() does with an entry before any fatal error.
LEMMA FinishChildIs ==
  ASSUME Sound, FinishChild, ~fatal_in_progress'
  PROVE  \E i \in DOMAIN running_list :
           LET e == running_list[i]
               t == e.target
           IN /\ e \in Entry /\ e.st \in {"ok", "failed"} /\ (e.st = "failed" => KeepGoing)
              /\ pc = "finish" /\ UNCHANGED <<pc, back, stack>>
              /\ \E list \in Reported(t, deps[t]) :
                    /\ deps' = [deps EXCEPT ![t] = list]
                    /\ FinishDoname(e, list, Unlink(i))
<1>1. PICK i \in Finished :
        LET e == running_list[i]
            t == e.target
        IN /\ pc = "finish" /\ UNCHANGED <<back, stack>>
           /\ \/ Fatal
              \/ /\ e.st = "failed" => ~(back /= "drain") \/ KeepGoing \/ fatal_in_progress
                 /\ \E list \in Reported(t, deps[t]) :
                      /\ deps' = [deps EXCEPT ![t] = list]
                      /\ (back /= "drain" => FinishDoname(e, list, Unlink(i)))
                 /\ UNCHANGED <<pc, fatal_in_progress>>
  BY Zenon DEF FinishChild
<1>2. ~Fatal
  BY DEF Fatal
<1>3. back /= "drain" /\ ~fatal_in_progress
  BY <1>1 DEF Sound, FatalInv, Draining
<1>4. i \in DOMAIN running_list /\ running_list[i].st \in {"ok", "failed"}
  BY DEF Finished
<1>5. running_list[i] \in Entry
  BY <1>4, ElementOfSeq, LenProperties DEF Sound, TypeOK
<1>. QED  BY <1>1, <1>2, <1>3, <1>4, <1>5

LEMMA FinishChildReady ==
  ASSUME Sound, FinishChild, ~fatal_in_progress'
  PROVE  Forward /\ ReadyInv'
<1>1. PICK i \in DOMAIN running_list :
        LET e == running_list[i]
            t == e.target
        IN /\ e \in Entry /\ e.st \in {"ok", "failed"} /\ (e.st = "failed" => KeepGoing)
           /\ pc = "finish" /\ UNCHANGED <<pc, back, stack>>
           /\ \E list \in Reported(t, deps[t]) :
                 /\ deps' = [deps EXCEPT ![t] = list]
                 /\ FinishDoname(e, list, Unlink(i))
  BY FinishChildIs
<1>. DEFINE e == running_list[i]
            t == e.target
<1>2. PICK list \in Reported(t, deps[t]) :
        deps' = [deps EXCEPT ![t] = list] /\ FinishDoname(e, list, Unlink(i))
  BY <1>1
<1>3. TypeOK /\ ReadyInv /\ t \in Target /\ e.st \in {"ok", "failed"}
      /\ (e.st = "failed" => KeepGoing)
  BY <1>1 DEF Sound, Entry
<1>4. state[t] = "running"
  BY <1>3 DEF Sound, BuildInv, ListInv, Waits
<1>5. t \in ActiveOf(running_list) /\ Ready(t)
  <2>1. t \in ActiveOf(running_list)
    BY <1>3 DEF ActiveOf, Active
  <2>. QED  BY <1>3, <2>1 DEF ReadyInv, JobsInv
<1>6. PICK s : /\ s \in {"ok", "failed", "running"} /\ (s = "failed" => KeepGoing)
               /\ state' = [state EXCEPT ![t] = s]
  BY <1>2, <1>3 DEF FinishDoname
<1>7. \A u \in Target : state'[u] = IF u = t THEN s ELSE state[u]
  BY <1>3, <1>6 DEF TypeOK
<1>8. \A u \in Target : Grows(deps[u], deps'[u]) /\ NotMarked(deps[u], deps'[u])
  <2>1. deps \in [Target -> Seq(Dependency)]
    BY <1>3 DEF TypeOK
  <2>2. Grows(deps[t], list) /\ NotMarked(deps[t], list)
    BY <1>3, <2>1, ReportedGrows
  <2>3. \A u \in Target : deps'[u] = IF u = t THEN list ELSE deps[u]
    BY <1>2, <1>3, <2>1
  <2>. QED  BY <2>2, <2>3, GrowsSame
<1>9. Forward
  BY <1>4, <1>7, <1>8 DEF Forward
<1>10. UNCHANGED <<pc, back, stack>> /\ pc = "finish"
  BY <1>1
<1>11. (TopIsMade' <=> TopIsMade) /\ (InDoname' <=> InDoname)
  BY <1>10 DEF TopIsMade, InDoname
<1>12. StackInv'
  BY <1>3, <1>9, <1>10, <1>11, StackSame DEF ReadyInv, StackInv
<1>13. AnswerInv'
  BY <1>10 DEF AnswerInv
<1>14. TargetInv'
  <2>1. \A u \in Target : rechecking'[u] => rechecking[u] \/ u = t
    <3>1. rechecking \in [Target -> BOOLEAN]
          /\ rechecking' \in {rechecking, [rechecking EXCEPT ![t] = TRUE]}
      BY <1>2, <1>3 DEF FinishDoname, TypeOK
    <3>. QED  BY <3>1
  <2>2. \A u \in Target : rechecking'[u] => Ready(u)'
    <3>1. \A u \in Target : rechecking'[u] => Ready(u)
      BY <1>3, <1>5, <2>1 DEF ReadyInv, TargetInv
    <3>. QED  BY <1>9, <3>1, ReadyStays
  <2>3. \A u \in Target : MadeBy(u) => MadeBy(u)'
    BY <1>10, <1>11 DEF MadeBy, Making
  <2>4. \A u \in Target : state'[u] = "in_progress" => MadeBy(u)'
    BY <1>3, <1>6, <1>7, <2>3 DEF ReadyInv, TargetInv
  <2>5. \A u \in Target : ~KeepGoing => state'[u] /= "failed"
    BY <1>3, <1>6, <1>7 DEF ReadyInv, TargetInv
  <2>. QED  BY <2>2, <2>4, <2>5 DEF TargetInv
<1>15. BuiltInv'
  <2>1. \A d \in Target : Settled(d) => Settled(d)'
    BY <1>6, <1>7, <1>10 DEF Settled, OnStack
  <2>2. \A u \in Target : ~(state[u] = "dont_know" /\ state'[u] /= "dont_know")
    BY <1>4, <1>7
  <2>. QED  BY <1>3, <1>8, <2>1, <2>2, BuiltStays DEF ReadyInv
<1>16. JobsInv'
  <2>1. ActiveOf(running_list') \subseteq ActiveOf(running_list)
    <3>1. ActiveOf(Unlink(i)) \subseteq ActiveOf(running_list) /\ Unlink(i) \in Seq(Entry)
      BY <1>3, UnlinkActive, UnlinkType DEF TypeOK
    <3>2. ActiveOf(Append(Unlink(i), Waiting(t, "pending", TRUE))) = ActiveOf(Unlink(i))
      BY <1>3, <3>1, WaitingIdle
    <3>3. running_list' \in {Unlink(i), Append(Unlink(i), Waiting(t, "pending", TRUE))}
      BY <1>2 DEF FinishDoname
    <3>. QED  BY <3>1, <3>2, <3>3
  <2>2. Top' = Top
    BY <1>10 DEF Top
  <2>3. \A u : TopIsMade /\ u = Top.target => Ready(u)'
    <3>1. TopIsMade => Top.target \in Target
      BY <1>3, TopTarget DEF Sound, Activated, TopIsMade
    <3>. QED  BY <1>3, <1>9, <1>10, <3>1, ReadyStays DEF ReadyInv, JobsInv
  <2>4. TopIsMade' => Ready(Top.target)'
    BY <1>11, <2>2, <2>3
  <2>5. \A u \in ActiveOf(running_list') : Ready(u)'
    BY <1>3, <1>9, <2>1, ActiveTargets, ReadyStays DEF ReadyInv, JobsInv
  <2>. QED  BY <1>10, <2>4, <2>5 DEF JobsInv
<1>. QED  BY <1>9, <1>12, <1>13, <1>14, <1>15, <1>16 DEF ReadyInv

\* A doname() of its own for the target t.
LEMMA SingleReady ==
  ASSUME Sound, stack = <<>>, NEW t \in Target, stack' = <<Activation(t, FALSE)>>,
         pc' = "enter", UNCHANGED <<deps, rechecking>>,
         NEW s \in {"pending", "dont_know"},
         state' \in {state, [state EXCEPT ![t] = s]},
         state' = state \/ state[t] = "running",
         ActiveOf(running_list') \subseteq ActiveOf(running_list), Finished' = {}
  PROVE  Forward /\ ReadyInv'
<1>1. TypeOK /\ ReadyInv
  BY DEF Sound
<1>2. \A u \in Target : \/ state'[u] = state[u]
                        \/ u = t /\ state[u] = "running" /\ state'[u] = s
  BY <1>1 DEF TypeOK
<1>3. Forward
  BY <1>2, GrowsSame DEF Forward
<1>4. PICK f : f = Activation(t, FALSE)
  OBVIOUS
<1>5. stack' = <<f>> /\ ~f.recheck /\ f.result = "dont_know" /\ f.target = t /\ ~f.auto
  BY <1>4 DEF Activation
<1>6. StackInv'
  BY <1>5, StackSingle
<1>7. AnswerInv'
  BY DEF AnswerInv
<1>8. TargetInv'
  <2>1. \A u \in Target : rechecking'[u] => Ready(u)'
    BY <1>1, <1>3, ReadyStays DEF ReadyInv, TargetInv
  <2>2. \A u \in Target : state[u] /= "in_progress"
    <3>1. DOMAIN stack = {}
      OBVIOUS
    <3>. QED  BY <1>1, <3>1 DEF ReadyInv, TargetInv, MadeBy, Making
  <2>. QED  BY <1>1, <1>2, <2>1, <2>2 DEF ReadyInv, TargetInv
<1>9. BuiltInv'
  <2>1. \A d \in Target : Settled(d) => Settled(d)'
    <3>1. DOMAIN stack = {} /\ DOMAIN stack' = {1} /\ stack'[1] = f
      <4>1. DOMAIN <<f>> = {1} /\ <<f>>[1] = f
        OBVIOUS
      <4>2. DOMAIN stack = {}
        OBVIOUS
      <4>. QED  BY <1>5, <4>1, <4>2, Zenon
    <3>2. \A d : d = t => OnStack(d)'
      <4>1. 1 \in DOMAIN stack' /\ stack'[1].target = t /\ ~stack'[1].auto
        BY <1>5, <3>1
      <4>. QED  BY <4>1 DEF OnStack
    <3>3. \A d : ~OnStack(d)
      BY <3>1 DEF OnStack
    <3>. QED  BY <1>2, <3>2, <3>3 DEF Settled
  <2>2. \A u \in Target : ~(state[u] = "dont_know" /\ state'[u] /= "dont_know")
    BY <1>2
  <2>. QED  BY <1>1, <2>1, <2>2, GrowsSame, BuiltStays DEF ReadyInv
<1>10. ~TopIsMade'
  BY DEF TopIsMade
<1>11. JobsInv'
  BY <1>1, <1>3, <1>10, JobsStay DEF ReadyInv
<1>. QED  BY <1>3, <1>6, <1>7, <1>8, <1>9, <1>11 DEF ReadyInv

LEMMA ResumeReady ==
  ASSUME Sound, pc \in {"next1", "next2"}, NEW i \in DOMAIN running_list,
         running_list[i].st \in {"serial", "pending"},
         NEW s \in {"pending", "dont_know"}, NEW where, Resume(i, s, where),
         UNCHANGED <<deps, rechecking>>
  PROVE  Forward /\ ReadyInv' /\ ActiveOf(running_list') = ActiveOf(running_list)
<1>. DEFINE t == running_list[i].target
<1>1. TypeOK /\ ReadyInv
  BY DEF Sound
<1>2. running_list[i] \in Entry /\ t \in Target
  <2>1. running_list[i] \in Entry
    BY <1>1, ElementOfSeq, LenProperties DEF TypeOK
  <2>. QED  BY <2>1 DEF Entry
<1>3. state[t] = "running"
  BY <1>2 DEF Sound, BuildInv, ListInv, Waits
<1>4. stack = <<>>
  BY <1>1 DEF ReadyInv, StackInv, InDoname, TopIsMade
<1>5. ActiveOf(running_list') = ActiveOf(running_list)
  BY <1>1, UnlinkActive DEF Resume, TypeOK, Active
<1>6. Finished' = {}
  <2>1. \A j \in DOMAIN running_list : running_list[j].st \notin {"ok", "failed"}
    BY <1>1 DEF ReadyInv, JobsInv, Finished
  <2>. DEFINE n == Len(running_list)
              from(j) == IF j < i THEN j ELSE j + 1
  <2>2. /\ n \in Nat /\ DOMAIN running_list = 1..n /\ i \in 1..n
    BY <1>1, LenProperties DEF TypeOK
  <2>3. /\ DOMAIN Unlink(i) = 1..(n - 1)
        /\ \A j \in 1..(n - 1) : Unlink(i)[j] = running_list[from(j)]
    BY <1>1, UnlinkType, LenProperties DEF TypeOK
  <2>4. \A j \in 1..(n - 1) : from(j) \in 1..n
    BY <2>2
  <2>5. running_list' = Unlink(i)
    BY DEF Resume
  <2>. HIDE DEF n, from
  <2>. QED  BY <2>1, <2>2, <2>3, <2>4, <2>5 DEF Finished
<1>7. /\ state' = [state EXCEPT ![t] = s]
      /\ stack' = <<Activation(t, FALSE)>> /\ pc' = "enter"
  BY DEF Resume
<1>8. Forward /\ ReadyInv'
  BY <1>2, <1>3, <1>4, <1>5, <1>6, <1>7, SingleReady
<1>. QED  BY <1>5, <1>8

\* No activation of doname(), and none begins.
LEMMA IdleReady ==
  ASSUME Sound, pc \notin {"enter", "check", "finish"}, ~TopIsMade,
         UNCHANGED <<state, deps, rechecking, stack, running_list>>,
         pc' \in {"goals", "next2", "finish_running", "done"}
  PROVE  Forward /\ ReadyInv'
<1>1. stack = <<>>
  BY DEF Sound, ReadyInv, StackInv, InDoname
<1>2. ~TopIsMade' /\ pc /= "deps"
  BY DEF TopIsMade
<1>3. Finished' = {}
  BY DEF Sound, ReadyInv, JobsInv, Finished
<1>. QED  BY <1>1, <1>2, <1>3, QuietReady

LEMMA ProcessNextReady ==
  ASSUME Sound, NextSerial \/ NextPending, ~fatal_in_progress'
  PROVE  Forward /\ ReadyInv' /\ ActiveOf(running_list') = ActiveOf(running_list)
<1>1. pc \in {"next1", "next2"} /\ UNCHANGED <<deps, rechecking>> /\ ~TopIsMade
  BY DEF NextSerial, NextPending, TopIsMade
<1>2. \/ \E i \in Serials \cup Startable, s \in {"pending", "dont_know"} : \E where :
            Resume(i, s, where)
      \/ UNCHANGED <<state, running_list, stack>> /\ pc' \in {"next2", "finish_running"}
  BY DEF NextSerial, NextPending, Fatal
<1>3. \A i \in Serials \cup Startable :
         i \in DOMAIN running_list /\ running_list[i].st \in {"serial", "pending"}
  BY DEF Serials, Startable
<1>. QED  BY <1>1, <1>2, <1>3, ResumeReady, IdleReady

LEMMA MakeTargetsReady ==
  ASSUME Sound, MakeTargets
  PROVE  Forward /\ ReadyInv'
<1>1. UNCHANGED <<state, deps, rechecking, running_list>> /\ pc = "goals" /\ ~TopIsMade
  BY DEF MakeTargets, targetVars, listVars, TopIsMade
<1>2. CASE UNCHANGED stack /\ pc' \in {"finish_running", "goals", "done"}
  BY <1>1, <1>2, IdleReady
<1>3. CASE /\ gi <= Len(Goals) /\ Goals[gi] /= Wait
           /\ stack' = <<Activation(Goals[gi], FALSE)>> /\ pc' = "enter"
  <2>1. Goals[gi] \in Target
    <3>1. gi \in 1..Len(Goals)
      BY <1>3, GraphAssumption, LenProperties DEF Sound, TypeOK
    <3>2. Goals[gi] \in Target \cup {Wait}
      BY <3>1, GraphAssumption, ElementOfSeq
    <3>. QED  BY <1>3, <3>2
  <2>2. stack = <<>>
    BY <1>1 DEF Sound, ReadyInv, StackInv, InDoname
  <2>3. Finished' = {} /\ ActiveOf(running_list') = ActiveOf(running_list)
    BY <1>1 DEF Sound, ReadyInv, JobsInv, Finished
  <2>. QED  BY <1>1, <1>3, <2>1, <2>2, <2>3, SingleReady
<1>. QED  BY <1>2, <1>3 DEF MakeTargets

\* Every step before a fatal error keeps ReadyInv, and moves forward.
LEMMA ReadyStep ==
  ASSUME Orderly, Sound, TypeOK', [Next]_vars, ~fatal_in_progress'
  PROVE  Forward /\ ReadyInv'
<1>1. CASE MakeStep
  <2>1. ~Drain
    BY DEF Drain, Sound, FatalInv, Draining
  <2>. QED  BY <1>1, <2>1, EnterEarlyReady, EnterFullReady, DonameCheckReady,
            ScanDependencyReady, AddPendingReady, NoCommandReady, CommandNotRunReady,
            RunCommandReady, DistributeProcessReady, AwaitParallelReady,
            FinishChildReady, SameListReady, ProcessNextReady, MakeTargetsReady
       DEF MakeStep, Orderly
<1>2. CASE SerialExit
  BY <1>2, SerialExitReady
<1>3. CASE \E t \in Target : JobExit(t)
  BY <1>3, JobExitReady
<1>4. CASE Over \/ UNCHANGED vars
  <2>1. UNCHANGED <<state, deps, rechecking, running_list, stack, pc, back>>
    BY <1>4 DEF Over, vars, targetVars, listVars
  <2>2. (TopIsMade' <=> TopIsMade) /\ (InDoname' <=> InDoname)
    BY <2>1 DEF TopIsMade, InDoname
  <2>3. Finished' = {} \/ pc' = "finish"
    BY <2>1 DEF Sound, ReadyInv, JobsInv, Finished
  <2>. QED  BY <2>1, <2>2, <2>3, QuietReady DEF Sound, ReadyInv, StackInv
<1>. QED  BY <1>1, <1>2, <1>3, <1>4 DEF Next

LEMMA ReadyInit == Init => ReadyInv
<1>. SUFFICES ASSUME Init PROVE ReadyInv
  OBVIOUS
<1>1. /\ stack = <<>> /\ DOMAIN stack = {} /\ running_list = <<>> /\ DOMAIN running_list = {}
      /\ pc = "goals"
  BY DEF Init
<1>2. \A t \in Target : state[t] = "dont_know" /\ ~rechecking[t]
  BY DEF Init
<1>3. StackInv /\ AnswerInv /\ JobsInv
  BY <1>1 DEF StackInv, AnswerInv, JobsInv, Making, TopIsMade, ActiveOf, Finished
<1>4. TargetInv /\ BuiltInv
  BY <1>2 DEF TargetInv, BuiltInv
<1>. QED  BY <1>3, <1>4 DEF ReadyInv

\* What holds in every reachable state of an orderly build.
OrderlyInv == RunningInv /\ (~fatal_in_progress => ReadyInv)

LEMMA OrderlySound ==
  ASSUME Orderly, OrderlyInv, ~fatal_in_progress
  PROVE  Sound
BY DEF Orderly, OrderlyInv, RunningInv, IInv, TypeInv, CountInv, Sound

LEMMA OrderlyStep ==
  ASSUME Orderly, OrderlyInv, [Next]_vars
  PROVE  OrderlyInv'
<1>1. RunningInv'
  BY RunningStep DEF OrderlyInv
<1>2. ~fatal_in_progress' => ~fatal_in_progress
  BY FatalStep DEF OrderlyInv, RunningInv, IInv, TypeInv
<1>3. TypeOK'
  BY <1>1 DEF RunningInv, IInv, TypeInv
<1>. QED  BY <1>1, <1>2, <1>3, OrderlySound, ReadyStep DEF OrderlyInv
-----------------------------------------------------------------------------
(* What BuildOrder sees of a step *)

Begins(t) == /\ t \notin InWork \cup Made /\ Ready(t)
             /\ Cardinality(InWork) < PmakeMaxJobs
             /\ InWork' = InWork \cup {t} /\ Made' = Made
Ends(t)   == t \in InWork /\ InWork' = InWork \ {t} /\ Made' \in {Made, Made \cup {t}}
Skips(t)  == /\ t \notin InWork \cup Made /\ Ready(t)
             /\ InWork' = InWork /\ Made' = Made \cup {t}
Stays     == InWork' = InWork /\ Made' = Made
Moves     == Stays \/ \E t \in Target : Begins(t) \/ Ends(t) \/ Skips(t)

LEMMA WorkIs ==
  InWork = {running_list[i].target : i \in Jobs \cup Finished}
           \cup (IF pc = "serial" THEN {Top.target} ELSE {})
<1>1. {j \in DOMAIN running_list : Active(running_list[j])} = Jobs \cup Finished
  BY DEF Active, Jobs, Finished
<1>2. ActiveOf(running_list) = {running_list[i].target : i \in Jobs \cup Finished}
  BY <1>1 DEF ActiveOf
<1>. QED  BY <1>2 DEF InWork

LEMMA OrderCardinality == \A S : Order!Cardinality(S) = Cardinality(S)
BY DEF Order!Cardinality, Cardinality

LEMMA MovesImplement ==
  ASSUME \A t \in Target : Needs(t)' = Needs(t), Moves
  PROVE  [Order!Next]_(Order!vars)
<1>. DEFINE N == [t \in Target |->
                   {deps[t][j].name : j \in {k \in DOMAIN deps[t] :
                                               ~deps[t][k].auto}} \ {Wait}]
            B == {running_list[i].target : i \in Jobs \cup Finished}
                 \cup (IF pc = "serial" THEN {Top.target} ELSE {})
            M == {t \in Target : state[t] = "ok"}
<1>1. B = InWork
  BY WorkIs
<1>2. B' = InWork'
  <2>1. (InWork = B)'
    BY WorkIs, PTL
  <2>. QED  BY <2>1
<1>3. M = Made /\ M' = Made'
  BY DEF Made
<1>4. \A t \in Target : N[t] = Needs(t)
  BY DEF Needs
<1>5. N' = N
  <2>1. N = [t \in Target |-> Needs(t)]
    BY DEF Needs
  <2>2. N' = [t \in Target |-> Needs(t)']
    BY DEF Needs
  <2>. HIDE DEF N
  <2>. QED  BY <2>1, <2>2
<1>. HIDE DEF N, B, M
<1>6. CASE Stays
  <2>1. N' = N /\ B' = B /\ M' = M
    BY <1>1, <1>2, <1>3, <1>5, <1>6 DEF Stays
  <2>2. UNCHANGED Order!vars
    BY <2>1, Zenon DEF Order!vars, N, B, M
  <2>. QED  BY <2>2
<1>7. ASSUME NEW t \in Target, Begins(t)
      PROVE  Order!Begin(t)
  <2>1. /\ t \notin B \cup M /\ N[t] \subseteq M /\ Cardinality(B) < PmakeMaxJobs
        /\ B' = B \cup {t} /\ N' = N /\ M' = M
    BY <1>1, <1>2, <1>3, <1>4, <1>5, <1>7 DEF Begins, Ready
  <2>2. Order!Cardinality(B) < PmakeMaxJobs
    BY <2>1, OrderCardinality
  <2>. QED  BY <2>1, <2>2, Zenon DEF Order!Begin, N, B, M
<1>8. ASSUME NEW t \in Target, Ends(t)
      PROVE  Order!End(t)
  <2>1. t \in B /\ B' = B \ {t} /\ M' \in {M, M \cup {t}} /\ N' = N
    BY <1>1, <1>2, <1>3, <1>5, <1>8 DEF Ends
  <2>. QED  BY <2>1, Zenon DEF Order!End, N, B, M
<1>9. ASSUME NEW t \in Target, Skips(t)
      PROVE  Order!Skip(t)
  <2>1. /\ t \notin B \cup M /\ N[t] \subseteq M /\ M' = M \cup {t}
        /\ N' = N /\ B' = B
    BY <1>1, <1>2, <1>3, <1>4, <1>5, <1>9 DEF Skips, Ready
  <2>. QED  BY <2>1, Zenon DEF Order!Skip, N, B, M
<1>10. CASE \E t \in Target : Begins(t) \/ Ends(t) \/ Skips(t)
  <2>1. \E t \in Target : Order!Begin(t) \/ Order!End(t) \/ Order!Skip(t)
    BY <1>7, <1>8, <1>9, <1>10, Zenon
  <2>2. Order!Next
    BY <2>1, Zenon DEF Order!Next
  <2>. QED  BY <2>2
<1>. QED  BY <1>6, <1>10 DEF Moves

\* The commands that run do not change, and no target becomes made.
LEMMA StaysMoves ==
  ASSUME Forward, \A u \in Target : state'[u] = "ok" => state[u] = "ok",
         ActiveOf(running_list') = ActiveOf(running_list),
         (pc /= "serial" /\ pc' /= "serial") \/ UNCHANGED <<stack, pc>>
  PROVE  Moves
<1>1. Made' = Made
  BY DEF Made, Forward
<1>2. InWork' = InWork
  <2>1. UNCHANGED stack => Top' = Top
    BY DEF Top
  <2>. QED  BY <2>1 DEF InWork
<1>. QED  BY <1>1, <1>2 DEF Moves, Stays

\* One target gets a state: it is made, or it is not.
LEMMA OneState ==
  ASSUME TypeOK, NEW t \in Target, NEW s, state' = [state EXCEPT ![t] = s]
  PROVE  /\ \A u \in Target : state'[u] = "ok" => state[u] = "ok" \/ (u = t /\ s = "ok")
         /\ Forward /\ s = "ok" => Made' = Made \cup {t}
         /\ Forward => Made' \in {Made, Made \cup {t}}
<1>1. \A u \in Target : state'[u] = IF u = t THEN s ELSE state[u]
  BY DEF TypeOK
<1>. QED  BY <1>1 DEF Forward, Made

\* The commands of a target in progress do not run.
LEMMA MakesIdle ==
  ASSUME Sound, stack /= <<>>, TopIsMade
  PROVE  Top.target \notin ActiveOf(running_list) /\ Top.target \notin Made
<1>1. Top.target \in Target /\ state[Top.target] = "in_progress"
  BY MakesTop
<1>2. ~Waits(running_list, Top.target)
  BY <1>1 DEF Sound, BuildInv, ListInv
<1>. QED  BY <1>1, <1>2 DEF Waits, ActiveOf, Made

\* The target of the top activation is put on the list to wait.
LEMMA ToListMoves ==
  ASSUME Sound, Forward, NEW t \in Target, NEW kind \in {"pending", "serial"},
         state' = [state EXCEPT ![t] = "running"],
         running_list' = Append(running_list, Waiting(t, kind, FALSE)),
         pc /= "serial", pc' /= "serial"
  PROVE  Moves
<1>1. ActiveOf(running_list') = ActiveOf(running_list)
  <2>1. running_list \in Seq(Entry) /\ TypeOK
    BY DEF Sound, TypeOK
  <2>2. PICK list \in Seq(Entry) : list = running_list
    BY <2>1
  <2>3. ActiveOf(Append(list, Waiting(t, kind, FALSE))) = ActiveOf(list)
    BY <2>1, WaitingIdle
  <2>. QED  BY <2>2, <2>3
<1>2. \A u \in Target : state'[u] = "ok" => state[u] = "ok"
  BY OneState DEF Sound
<1>. QED  BY <1>1, <1>2, StaysMoves

LEMMA EnterMoves ==
  ASSUME Sound, Forward, EnterEarly \/ EnterFull
  PROVE  Moves
<1>1. stack /= <<>> /\ Top.target \in Target /\ pc = "enter"
      /\ pc' \in {"check", "deps"}
  BY TopTarget DEF EnterEarly, EnterFull, Returns, Activated, Sound, TypeOK
<1>2. CASE UNCHANGED <<state, running_list>>
  BY <1>1, <1>2, StaysMoves
<1>3. CASE /\ state' = [state EXCEPT ![Top.target] = "running"]
           /\ running_list' = Append(running_list, Waiting(Top.target, "pending", FALSE))
  BY <1>1, <1>3, ToListMoves
<1>4. CASE UNCHANGED running_list /\ state' = [state EXCEPT ![Top.target] = "in_progress"]
  <2>1. \A u \in Target : state'[u] = "ok" => state[u] = "ok"
    BY <1>1, <1>4, OneState DEF Sound
  <2>. QED  BY <1>1, <1>4, <2>1, StaysMoves
<1>. QED  BY <1>2, <1>3, <1>4 DEF EnterEarly, EnterFull, listVars

LEMMA CheckMoves ==
  ASSUME Sound, Forward, DonameCheck \/ ScanDependency
  PROVE  Moves
<1>1. UNCHANGED <<state, running_list>> /\ pc \in {"check", "deps"}
  BY DEF DonameCheck, ScanDependency, listVars
<1>2. pc' /= "serial"
  BY <1>1 DEF DonameCheck, ScanDependency, PassOn, Fatal, Sound, TypeOK
<1>. QED  BY <1>1, <1>2, StaysMoves

LEMMA AddPendingMoves ==
  ASSUME Sound, Forward, AddPending
  PROVE  Moves
<1>1. stack /= <<>> /\ Top.target \in Target /\ pc = "deps" /\ pc' = "check"
  BY TopTarget DEF AddPending, Scanned, Returns, Activated, Sound, TypeOK
<1>. QED  BY <1>1, ToListMoves DEF AddPending

\* doname() of a target is over without its commands.
LEMMA ConcludeMoves ==
  ASSUME Sound, Forward, stack /= <<>>, pc = "deps",
         NEW r \in {"ok", "failed", "dont_know"}, NEW times, NEW ds,
         Conclude(r, times, ds), r = "ok" => Ready(Top.target), UNCHANGED running_list
  PROVE  Moves
<1>. DEFINE t == Top.target
<1>1. t \in Target /\ t \notin ActiveOf(running_list) /\ t \notin Made
  BY MakesTop, MakesIdle DEF TopIsMade
<1>2. pc' \in {"deps", "check"}
  BY DEF Conclude, Returns
<1>3. PICK s \in {r, "in_progress"} : state' = [state EXCEPT ![t] = s]
  BY DEF Conclude
<1>4. CASE s /= "ok"
  <2>1. \A u \in Target : state'[u] = "ok" => state[u] = "ok"
    BY <1>1, <1>3, <1>4, OneState DEF Sound
  <2>. QED  BY <1>2, <2>1, StaysMoves
<1>5. CASE s = "ok"
  <2>1. r = "ok" /\ Ready(t)
    BY <1>5
  <2>2. Made' = Made \cup {t}
    BY <1>1, <1>3, <1>5, OneState DEF Sound
  <2>3. InWork' = InWork /\ t \notin InWork
    BY <1>1, <1>2 DEF InWork
  <2>4. Skips(t)
    BY <1>1, <2>1, <2>2, <2>3 DEF Skips
  <2>. QED  BY <1>1, <2>4 DEF Moves
<1>. QED  BY <1>4, <1>5

LEMMA NotBuiltMoves ==
  ASSUME Orderly, Sound, Forward, NoCommand \/ CommandNotRun
  PROVE  Moves
<1>1. stack /= <<>> /\ pc = "deps" /\ TopIsMade /\ Scanned /\ ~Top.running
      /\ UNCHANGED running_list
  BY DEF NoCommand, CommandNotRun, Scanned, Activated, Sound, listVars, TopIsMade
<1>2. /\ Top.target \in Target /\ Scan(Top)
      /\ Top.result \in {"dont_know", "failed"} /\ (Top.result = "failed" => KeepGoing)
  BY <1>1, MakesTop
<1>3. PICK r, times :
         /\ r \in {"ok", "failed", "dont_know"}
         /\ Conclude(r, times, deps)
         /\ r = "ok" => Top.result /= "failed" \/ Top.target \notin Rule
  BY <1>2 DEF NoCommand, CommandNotRun
<1>4. r = "ok" => Ready(Top.target)
  <2>. SUFFICES ASSUME r = "ok" PROVE Ready(Top.target)
    OBVIOUS
  <2>1. Top.result /= "failed"
    BY <1>2, <1>3 DEF Orderly
  <2>. QED  BY <1>1, <1>2, <2>1, ScannedReady DEF Sound
<1>. QED  BY <1>1, <1>3, <1>4, ConcludeMoves

\* No more commands run than there are jobs.
LEMMA WorkIsCounted ==
  ASSUME Sound, pc \notin {"serial", "finish"}
  PROVE  InWork = ActiveOf(running_list) /\ Cardinality(InWork) <= process_cnt
<1>. DEFINE f == [i \in Jobs |-> running_list[i].target]
<1>1. Finished = {}
  BY DEF Sound, ReadyInv, JobsInv
<1>2. InWork = {running_list[i].target : i \in Jobs}
  BY <1>1, WorkIs
<1>3. IsFiniteSet(Jobs)
  BY JobsFinite DEF Sound, TypeOK, Jobs, JobsOf
<1>4. f \in Surjection(Jobs, InWork)
  <2>1. f \in [Jobs -> InWork] /\ \A t \in InWork : \E i \in Jobs : f[i] = t
    BY <1>2
  <2>. HIDE DEF f
  <2>. QED  BY <2>1, Fun_IsSurj
<1>5. Cardinality(InWork) <= Cardinality(Jobs)
  <2>. HIDE DEF f
  <2>. QED  BY <1>3, <1>4, FS_Surjection
<1>6. process_cnt = Cardinality(Jobs)
  BY DEF Sound, JobsCounted
<1>7. InWork = ActiveOf(running_list)
  BY DEF InWork
<1>. QED  BY <1>5, <1>6, <1>7

\* The target of the top activation is built: alone, now or later.
LEMMA BuildAloneMoves ==
  ASSUME Sound, Forward, stack /= <<>>, pc = "deps", Ready(Top.target), BuildAlone
  PROVE  Moves
<1>. DEFINE t == Top.target
<1>1. t \in Target /\ t \notin ActiveOf(running_list) /\ t \notin Made
  BY MakesTop, MakesIdle DEF TopIsMade
<1>2. CASE process_cnt = 0 /\ pc' = "serial" /\ UNCHANGED <<state, running_list, stack>>
  <2>1. InWork = ActiveOf(running_list) /\ Cardinality(InWork) <= 0
    BY <1>2, WorkIsCounted
  <2>2. Cardinality(InWork) < PmakeMaxJobs
    <3>1. InWork \subseteq {running_list[i].target : i \in Jobs \cup Finished}
      BY WorkIs
    <3>2. Jobs = {} /\ Finished = {}
      <4>1. IsFiniteSet(Jobs) /\ Cardinality(Jobs) = 0
        BY <1>2, JobsFinite DEF Sound, TypeOK, Jobs, JobsOf, JobsCounted
      <4>. QED  BY <4>1, FS_EmptySet DEF Sound, ReadyInv, JobsInv
    <3>3. InWork = {}
      BY <2>1, <3>2, WorkIs
    <3>. QED  BY <3>3, FS_EmptySet, OptionAssumption
  <2>3. InWork' = InWork \cup {t}
    BY <1>2, <2>1 DEF InWork, Top
  <2>4. Made' = Made
    BY <1>2 DEF Made
  <2>5. Begins(t)
    BY <1>1, <2>1, <2>2, <2>3, <2>4 DEF Begins
  <2>. QED  BY <1>1, <2>5 DEF Moves
<1>3. CASE /\ state' = [state EXCEPT ![t] = "running"]
           /\ running_list' = Append(running_list, Waiting(t, "serial", FALSE))
           /\ pc' = "check"
  BY <1>1, <1>3, ToListMoves
<1>. QED  BY <1>2, <1>3 DEF BuildAlone, Returns

LEMMA RunCommandMoves ==
  ASSUME Sound, Forward, RunCommand
  PROVE  Moves
<1>1. stack /= <<>> /\ pc = "deps" /\ TopIsMade /\ Scanned /\ ~Top.running
      /\ Top.result /= "failed"
  BY DEF RunCommand, Scanned, Activated, TopIsMade, Sound
<1>2. Ready(Top.target)
  BY <1>1, MakesTop, ScannedReady DEF Sound
<1>3. CASE BuildAlone
  BY <1>1, <1>2, <1>3, BuildAloneMoves
<1>4. CASE pc' = "slots" /\ UNCHANGED <<state, running_list, stack>>
  BY <1>1, <1>4, StaysMoves
<1>. QED  BY <1>3, <1>4 DEF RunCommand

\* A job is started while fewer than the limit run.
LEMMA StartJobMoves ==
  ASSUME Sound, Forward, stack /= <<>>, pc = "slots", process_cnt < PmakeMaxJobs, StartJob
  PROVE  Moves
<1>. DEFINE t == Top.target
<1>1. /\ t \in Target /\ t \notin ActiveOf(running_list) /\ t \notin Made
      /\ Top \in Frame
  BY MakesTop, MakesIdle DEF TopIsMade
<1>2. Ready(t)
  BY DEF Sound, ReadyInv, JobsInv, TopIsMade
<1>3. InWork = ActiveOf(running_list) /\ Cardinality(InWork) <= process_cnt
  BY WorkIsCounted
<1>4. Cardinality(InWork) < PmakeMaxJobs
  <2>1. IsFiniteSet(InWork)
    <3>1. InWork \subseteq Target
      BY <1>3, ActiveTargets DEF Sound
    <3>. QED  BY <3>1, GraphAssumption, FS_Subset
  <2>2. Cardinality(InWork) \in Nat
    BY <2>1, FS_CardinalityType
  <2>3. process_cnt \in Int /\ PmakeMaxJobs \in Nat
    BY OptionAssumption DEF Sound, TypeOK
  <2>. QED  BY <1>3, <2>2, <2>3
<1>5. InWork' = InWork \cup {t}
  <2>1. PICK e : e = Job(Top)
    OBVIOUS
  <2>2. e \in Entry /\ e.target = t /\ Active(e)
    BY <1>1, <2>1, JobType DEF Job, Waiting, Active
  <2>3. running_list' = Append(running_list, e) /\ pc' = "check"
    BY <2>1 DEF StartJob, Returns
  <2>4. ActiveOf(running_list') = ActiveOf(running_list) \cup {t}
    BY <2>2, <2>3, AppendActive DEF Sound, TypeOK
  <2>. QED  BY <1>3, <2>3, <2>4 DEF InWork
<1>6. Made' = Made
  <2>1. \A u \in Target : state'[u] = "ok" => state[u] = "ok"
    BY <1>1, OneState DEF StartJob, Sound
  <2>. QED  BY <2>1 DEF Made, Forward
<1>7. Begins(t)
  BY <1>1, <1>2, <1>3, <1>4, <1>5, <1>6 DEF Begins
<1>. QED  BY <1>1, <1>7 DEF Moves

LEMMA DistributeProcessMoves ==
  ASSUME AdjustMode /= "M2", Bounded, Sound, Forward, DistributeProcess
  PROVE  Moves
<1>1. stack /= <<>> /\ pc \in {"slots", "retry"} /\ job_adjust_mode /= "M2"
  BY DEF DistributeProcess, Activated, Sound, Bounded
<1>2. CASE StartJob /\ pc = "slots" /\ \E limit \in AdjustedLimits : process_cnt < limit
  <2>1. process_cnt < PmakeMaxJobs
    <3>1. PICK limit \in AdjustedLimits : process_cnt < limit
      BY <1>2
    <3>2. limit \in Nat /\ limit <= PmakeMaxJobs /\ PmakeMaxJobs \in Nat
      BY OptionAssumption DEF AdjustedLimits
    <3>3. process_cnt \in Int
      BY DEF Sound, TypeOK
    <3>. QED  BY <3>1, <3>2, <3>3
  <2>. QED  BY <1>1, <1>2, <2>1, StartJobMoves
<1>3. CASE UNCHANGED <<state, running_list>> /\ pc' \in {"slots", "await"}
  BY <1>1, <1>3, StaysMoves
<1>4. \/ StartJob /\ pc = "slots" /\ \E limit \in AdjustedLimits : ~(process_cnt >= limit)
      \/ UNCHANGED <<state, running_list>> /\ pc' \in {"slots", "await"}
  BY <1>1 DEF DistributeProcess, AwaitFor
<1>5. \A limit \in AdjustedLimits : ~(process_cnt >= limit) => process_cnt < limit
  <2>1. \A limit \in AdjustedLimits : limit \in Nat
    BY OptionAssumption DEF AdjustedLimits
  <2>2. process_cnt \in Int
    BY DEF Sound, TypeOK
  <2>. QED  BY <2>1, <2>2
<1>. QED  BY <1>2, <1>3, <1>4, <1>5

LEMMA SerialExitMoves ==
  ASSUME Sound, Forward, SerialExit, ~fatal_in_progress'
  PROVE  Moves
<1>. DEFINE t == Top.target
<1>1. stack /= <<>> /\ pc = "serial" /\ TopIsMade /\ UNCHANGED running_list
  BY DEF SerialExit, Activated, TopIsMade, Sound, listVars
<1>2. t \in Target /\ t \notin ActiveOf(running_list)
  BY <1>1, MakesTop, MakesIdle
<1>3. PICK ds, r, times : Conclude(r, times, ds)
  BY DEF SerialExit, Fatal
<1>4. pc' /= "serial" /\ \E s : state' = [state EXCEPT ![t] = s]
  BY <1>3 DEF Conclude, Returns
<1>5. Made' \in {Made, Made \cup {t}}
  BY <1>2, <1>4, OneState DEF Sound
<1>6. t \in InWork /\ InWork' = InWork \ {t}
  BY <1>1, <1>2, <1>4 DEF InWork
<1>7. Ends(t)
  BY <1>5, <1>6 DEF Ends
<1>. QED  BY <1>2, <1>7 DEF Moves

LEMMA FinishChildMoves ==
  ASSUME Sound, Forward, FinishChild, ~fatal_in_progress'
  PROVE  Moves
<1>1. PICK i \in DOMAIN running_list :
        LET e == running_list[i]
            t == e.target
        IN /\ e \in Entry /\ e.st \in {"ok", "failed"} /\ (e.st = "failed" => KeepGoing)
           /\ pc = "finish" /\ UNCHANGED <<pc, back, stack>>
           /\ \E list \in Reported(t, deps[t]) :
                 /\ deps' = [deps EXCEPT ![t] = list]
                 /\ FinishDoname(e, list, Unlink(i))
  BY FinishChildIs
<1>. DEFINE e == running_list[i]
            t == e.target
<1>2. PICK list : FinishDoname(e, list, Unlink(i))
  BY <1>1
<1>3. t \in Target /\ e.st \in {"ok", "failed"} /\ pc = "finish" /\ pc' = "finish"
  BY <1>1 DEF Entry
<1>4. t \in ActiveOf(running_list)
  BY <1>3 DEF ActiveOf, Active
<1>5. /\ running_list' \in {Unlink(i), Append(Unlink(i), Waiting(t, "pending", TRUE))}
      /\ \E s : state' = [state EXCEPT ![t] = s]
  BY <1>2 DEF FinishDoname
<1>6. ActiveOf(running_list') = ActiveOf(running_list) \ {t}
  <2>1. Unlink(i) \in Seq(Entry) /\ ActiveOf(Unlink(i)) = ActiveOf(running_list) \ {t}
    BY UnlinkActive, UnlinkType DEF Sound, TypeOK, BuildInv, ListInv
  <2>2. ActiveOf(Append(Unlink(i), Waiting(t, "pending", TRUE))) = ActiveOf(Unlink(i))
    BY <1>3, <2>1, WaitingIdle DEF Sound
  <2>. QED  BY <1>5, <2>1, <2>2
<1>7. Made' \in {Made, Made \cup {t}}
  BY <1>3, <1>5, OneState DEF Sound
<1>8. Ends(t)
  BY <1>3, <1>4, <1>6, <1>7 DEF Ends, InWork
<1>. QED  BY <1>3, <1>8 DEF Moves

LEMMA ProcessNextMoves ==
  ASSUME Sound, Forward, NextSerial \/ NextPending, ~fatal_in_progress'
  PROVE  Moves
<1>1. ActiveOf(running_list') = ActiveOf(running_list)
  BY ProcessNextReady
<1>2. pc /= "serial" /\ pc' /= "serial"
  BY DEF NextSerial, NextPending, Resume, Fatal
<1>3. \A u \in Target : state'[u] = "ok" => state[u] = "ok"
  <2>1. \/ UNCHANGED state
        \/ \E i \in Serials \cup Startable, s \in {"pending", "dont_know"} :
              state' = [state EXCEPT ![running_list[i].target] = s]
    BY DEF NextSerial, NextPending, Resume
  <2>. QED  BY <2>1 DEF Sound, TypeOK
<1>. QED  BY <1>1, <1>2, <1>3, StaysMoves

LEMMA QuietMoves ==
  ASSUME Sound, Forward,
         FinishChildrenReturns \/ FinishRunning \/ MakeTargets \/ AwaitParallel
  PROVE  Moves
<1>1. UNCHANGED state
  BY DEF FinishChildrenReturns, FinishRunning, MakeTargets, AwaitParallel, targetVars
<1>2. ActiveOf(running_list') = ActiveOf(running_list)
  BY AwaitParallelIs DEF FinishChildrenReturns, FinishRunning, MakeTargets, listVars, Sound
<1>3. pc /= "serial" /\ pc' /= "serial"
  BY DEF FinishChildrenReturns, FinishRunning, MakeTargets, AwaitParallel, Sound, TypeOK
<1>. QED  BY <1>1, <1>2, <1>3, StaysMoves

\* Before a fatal error every step of make is one of BuildOrder.
LEMMA MovesStep ==
  ASSUME Orderly, AdjustMode /= "M2", Bounded, Sound, Forward, [Next]_vars,
         ~fatal_in_progress'
  PROVE  Moves
<1>1. CASE MakeStep
  <2>1. ~Drain
    BY DEF Drain, Sound, FatalInv, Draining
  <2>. QED  BY <1>1, <2>1, EnterMoves, CheckMoves, AddPendingMoves, NotBuiltMoves,
            RunCommandMoves, DistributeProcessMoves, FinishChildMoves,
            ProcessNextMoves, QuietMoves
       DEF MakeStep
<1>2. CASE SerialExit
  BY <1>2, SerialExitMoves
<1>3. CASE \E t \in Target : JobExit(t)
  <2>1. PICK t \in Target : JobExit(t)
    BY <1>3
  <2>2. ActiveOf(running_list') = ActiveOf(running_list)
        /\ UNCHANGED <<state, stack, pc>>
    BY <2>1, JobExitIs, SameActive DEF Active, Sound, targetVars
  <2>. QED  BY <2>2, StaysMoves
<1>4. CASE Over \/ UNCHANGED vars
  BY <1>4, StaysMoves DEF Over, vars, targetVars, listVars
<1>. QED  BY <1>1, <1>2, <1>3, <1>4 DEF Next
-----------------------------------------------------------------------------
(* After a fatal error: the jobs end, and no target gets a state *)

Growing == \A t \in Target : Grows(deps[t], deps'[t])

LEMMA ShrinkMoves ==
  ASSUME NEW t \in Target, UNCHANGED state, pc /= "serial", pc' /= "serial",
         \/ ActiveOf(running_list') = ActiveOf(running_list)
         \/ /\ t \in ActiveOf(running_list)
            /\ ActiveOf(running_list') = ActiveOf(running_list) \ {t}
  PROVE  Moves
<1>1. Made' = Made
  BY DEF Made
<1>2. InWork = ActiveOf(running_list) /\ InWork' = ActiveOf(running_list')
  BY DEF InWork
<1>. QED  BY <1>1, <1>2 DEF Moves, Stays, Ends

LEMMA SameMoves ==
  ASSUME UNCHANGED <<state, deps>>, (pc /= "serial" /\ pc' /= "serial") \/ UNCHANGED <<stack, pc>>,
         ActiveOf(running_list') = ActiveOf(running_list)
  PROVE  Growing /\ Moves
<1>1. Growing /\ Forward
  BY GrowsSame DEF Growing, Forward
<1>. QED  BY <1>1, StaysMoves

LEMMA SerialExitFatal ==
  ASSUME TypeOK, Activated, SerialExit, fatal_in_progress', ~fatal_in_progress
  PROVE  Growing /\ Moves
<1>. DEFINE t == Top.target
<1>1. stack /= <<>> /\ t \in Target /\ pc = "serial" /\ UNCHANGED running_list
  BY TopTarget DEF SerialExit, Activated, TypeOK, listVars
<1>2. PICK list \in Reported(t, deps[t]) :
        deps' = [deps EXCEPT ![t] = list] /\ UNCHANGED state /\ pc' = "drain"
  BY DEF SerialExit, Fatal, errorVars
<1>3. Growing
  <2>1. deps \in [Target -> Seq(Dependency)]
    BY DEF TypeOK
  <2>2. Grows(deps[t], list)
    BY <1>1, <2>1, ReportedGrows
  <2>3. \A u \in Target : deps'[u] = IF u = t THEN list ELSE deps[u]
    BY <1>1, <1>2, <2>1
  <2>. QED  BY <2>2, <2>3, GrowsSame DEF Growing
<1>4. Made' = Made
  BY <1>2 DEF Made
<1>5. InWork = ActiveOf(running_list) \cup {t} /\ InWork' = ActiveOf(running_list)
  BY <1>1, <1>2 DEF InWork
<1>6. t \in ActiveOf(running_list) => Stays
  BY <1>4, <1>5 DEF Stays
<1>7. t \notin ActiveOf(running_list) => Ends(t)
  BY <1>4, <1>5 DEF Ends
<1>. QED  BY <1>1, <1>3, <1>6, <1>7 DEF Moves

LEMMA FinishChildFatal ==
  ASSUME TypeOK, FatalInv, FinishChild, fatal_in_progress'
  PROVE  Growing /\ Moves
<1>1. PICK i \in Finished :
        LET t == running_list[i].target
        IN /\ pc = "finish"
           /\ \/ Fatal /\ running_list' = Unlink(i) /\ UNCHANGED <<state, deps>>
              \/ /\ Fatal /\ running_list' = Unlink(i) /\ UNCHANGED state
                 /\ \E list \in Reported(t, deps[t]) : deps' = [deps EXCEPT ![t] = list]
              \/ /\ UNCHANGED <<pc, fatal_in_progress>>
                 /\ \E list \in Reported(t, deps[t]) :
                      /\ deps' = [deps EXCEPT ![t] = list]
                      /\ back = "drain" => running_list' = Unlink(i) /\ UNCHANGED state
  BY Zenon DEF FinishChild
<1>. DEFINE t == running_list[i].target
<1>2. i \in DOMAIN running_list /\ running_list[i].st \in {"ok", "failed"}
  BY DEF Finished
<1>3. t \in Target /\ t \in ActiveOf(running_list)
  <2>1. running_list[i] \in Entry
    BY <1>2, ElementOfSeq, LenProperties DEF TypeOK
  <2>. QED  BY <1>2, <2>1 DEF Entry, ActiveOf, Active
<1>4. UNCHANGED <<pc, fatal_in_progress>> => back = "drain"
  BY <1>1 DEF FatalInv, Draining
<1>5. UNCHANGED state /\ running_list' = Unlink(i)
  BY <1>1, <1>4
<1>6. pc = "finish" /\ pc' /= "serial"
  BY <1>1 DEF Fatal
<1>7. \/ ActiveOf(running_list') = ActiveOf(running_list)
      \/ ActiveOf(running_list') = ActiveOf(running_list) \ {t}
  <2>1. /\ ActiveOf(Unlink(i)) \subseteq ActiveOf(running_list)
        /\ ActiveOf(running_list) \subseteq ActiveOf(Unlink(i)) \cup {t}
    BY <1>2, UnlinkActive DEF TypeOK
  <2>. QED  BY <1>5, <2>1
<1>8. Growing
  <2>1. deps \in [Target -> Seq(Dependency)]
    BY DEF TypeOK
  <2>2. CASE UNCHANGED deps
    BY <2>2, GrowsSame DEF Growing
  <2>3. CASE \E list \in Reported(t, deps[t]) : deps' = [deps EXCEPT ![t] = list]
    <3>1. PICK list \in Reported(t, deps[t]) : deps' = [deps EXCEPT ![t] = list]
      BY <2>3
    <3>2. Grows(deps[t], list)
      BY <1>3, <2>1, ReportedGrows
    <3>3. \A u \in Target : deps'[u] = IF u = t THEN list ELSE deps[u]
      BY <1>3, <2>1, <3>1
    <3>. QED  BY <3>2, <3>3, GrowsSame DEF Growing
  <2>. QED  BY <1>1, <2>2, <2>3
<1>. QED  BY <1>3, <1>5, <1>6, <1>7, <1>8, ShrinkMoves

LEMMA FatalMoves ==
  ASSUME TypeOK, Activated, FatalInv, [Next]_vars, fatal_in_progress'
  PROVE  Growing /\ Moves
<1>1. CASE MakeStep
  <2>1. CASE fatal_in_progress
    <3>1. pc \in {"drain", "exit"} \/ (pc \in {"await", "finish"} /\ back = "drain")
      BY <2>1 DEF FatalInv, Draining
    <3>2. AwaitParallel \/ FinishChild \/ FinishChildrenReturns \/ Drain
      BY <1>1, <3>1 DEF MakeStep, EnterEarly, EnterFull, DonameCheck, ScanDependency,
         AddPending, NoCommand, CommandNotRun, RunCommand, Scanned, DistributeProcess,
         FinishRunning, NextSerial, NextPending, MakeTargets
    <3>3. CASE AwaitParallel
      BY <3>3, AwaitParallelIs, SameMoves DEF targetVars
    <3>4. CASE FinishChildrenReturns \/ Drain
      <4>1. UNCHANGED <<state, deps, running_list>> /\ pc /= "serial" /\ pc' /= "serial"
        BY <3>4 DEF FinishChildrenReturns, Drain, targetVars, listVars, TypeOK
      <4>. QED  BY <4>1, SameMoves
    <3>. QED  BY <3>2, <3>3, <3>4, FinishChildFatal
  <2>2. CASE ~fatal_in_progress
    <3>1. DonameCheck \/ FinishChild \/ NextPending
      BY <1>1, <2>2 DEF MakeStep, EnterEarly, EnterFull, ScanDependency,
         AddPending, NoCommand, CommandNotRun, RunCommand, DistributeProcess,
         AwaitParallel, FinishChildrenReturns, FinishRunning, NextSerial, MakeTargets,
         Drain, errorVars
    <3>2. CASE DonameCheck \/ NextPending
      <4>1. /\ UNCHANGED <<state, deps, running_list>>
            /\ pc \in {"check", "next2"} /\ pc' \in {"drain", "exit"}
        BY <2>2, <3>2 DEF DonameCheck, NextPending, PassOn, Fatal, errorVars, listVars
      <4>. QED  BY <4>1, SameMoves
    <3>. QED  BY <3>1, <3>2, FinishChildFatal
  <2>. QED  BY <2>1, <2>2
<1>2. CASE SerialExit
  <2>1. ~fatal_in_progress
    BY <1>2 DEF SerialExit, FatalInv, Draining
  <2>. QED  BY <1>2, <2>1, SerialExitFatal
<1>3. CASE \E t \in Target : JobExit(t)
  <2>1. PICK t \in Target : JobExit(t)
    BY <1>3
  <2>2. ActiveOf(running_list') = ActiveOf(running_list)
        /\ UNCHANGED <<state, deps, stack, pc>>
    BY <2>1, JobExitIs, SameActive DEF Active, targetVars
  <2>. QED  BY <2>2, SameMoves
<1>4. CASE Over \/ UNCHANGED vars
  BY <1>4, SameMoves DEF Over, vars, targetVars, listVars
<1>. QED  BY <1>1, <1>2, <1>3, <1>4 DEF Next
-----------------------------------------------------------------------------
(* The theorem *)

LEMMA ImplementsStep ==
  ASSUME Orderly, AdjustMode /= "M2", OrderlyInv, OrderlyInv', [Next]_vars
  PROVE  [Order!Next]_(Order!vars)
<1>1. TypeOK /\ Activated /\ FatalInv /\ Bounded
  BY DEF OrderlyInv, RunningInv, IInv, TypeInv, CountInv
<1>2. TypeOK'
  BY DEF OrderlyInv, RunningInv, IInv, TypeInv
<1>3. Growing /\ Moves
  <2>1. CASE fatal_in_progress'
    BY <1>1, <2>1, FatalMoves
  <2>2. CASE ~fatal_in_progress'
    <3>1. Sound
      BY <1>1, <2>2, FatalStep, OrderlySound
    <3>2. Forward
      BY <1>2, <2>2, <3>1, ReadyStep
    <3>. QED  BY <1>1, <2>2, <3>1, <3>2, MovesStep DEF Forward, Growing
  <2>. QED  BY <2>1, <2>2
<1>4. \A t \in Target : Needs(t)' = Needs(t)
  BY <1>3, NeedsSame DEF Growing
<1>. QED  BY <1>3, <1>4, MovesImplement

LEMMA ImplementsInit == Init => Order!Init
<1>. SUFFICES ASSUME Init PROVE Order!Init
  OBVIOUS
<1>. DEFINE N == [t \in Target |->
                   {deps[t][j].name : j \in {k \in DOMAIN deps[t] :
                                               ~deps[t][k].auto}} \ {Wait}]
            B == {running_list[i].target : i \in Jobs \cup Finished}
                 \cup (IF pc = "serial" THEN {Top.target} ELSE {})
            M == {t \in Target : state[t] = "ok"}
<1>1. N \in [Target -> SUBSET Target]
  <2>1. ASSUME NEW t \in Target PROVE N[t] \subseteq Target
    <3>1. deps[t] \in Seq(Dependency)
      BY GraphAssumption DEF Init
    <3>2. \A j \in DOMAIN deps[t] : deps[t][j].name \in Target \cup {Wait}
      <4>1. \A j \in DOMAIN deps[t] : deps[t][j] \in Dependency
        BY <3>1, ElementOfSeq, LenProperties
      <4>. QED  BY <4>1 DEF Dependency
    <3>. QED  BY <3>2
  <2>. QED  BY <2>1
<1>2. B = {}
  <2>1. DOMAIN running_list = {} /\ pc = "goals"
    BY DEF Init
  <2>. QED  BY <2>1 DEF Jobs, Finished
<1>3. M = {}
  BY DEF Init
<1>. HIDE DEF N, B, M
<1>. QED  BY <1>1, <1>2, <1>3, Zenon DEF Order!Init, N, B, M

\* When no target depends on itself or is in a group, and no target without a
\* recipe can fail unnoticed (-k), make keeps what BuildOrder promises: commands
\* run only for targets whose dependencies are made, at most -j of them, and
\* what is made stays made.  (doname.cc 352-1141, parallel.cc 182-430, 690-1010)
THEOREM Implements ==
  ASSUME Orderly, AdjustMode /= "M2"
  PROVE  Spec => ImplementsBuildOrder
<1>1. Init => OrderlyInv
  BY RunningInit, ReadyInit DEF OrderlyInv
<1>2. OrderlyInv /\ [Next]_vars => OrderlyInv'
  BY OrderlyStep
<1>3. Init => Order!Init
  BY ImplementsInit
<1>4. OrderlyInv /\ OrderlyInv' /\ [Next]_vars => [Order!Next]_(Order!vars)
  BY ImplementsStep
<1>. QED  BY <1>1, <1>2, <1>3, <1>4, PTL DEF Spec, ImplementsBuildOrder, Order!Spec
=============================================================================
