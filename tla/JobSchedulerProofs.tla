------------------------- MODULE JobSchedulerProofs -------------------------
(***************************************************************************)
(* The state of JobScheduler has its type for every makefile, option and   *)
(* number of jobs, and parallel_process_cnt is right: it counts the jobs   *)
(* of the running list.  So -j bounds the jobs, and a target that must be  *)
(* built alone is built alone.                                             *)
(*                                                                         *)
(* The running list holds every target that is being built and none twice, *)
(* process_next() never sees a deadlock when the makefile has no cycle,    *)
(* and make waits for its jobs before it ends.                             *)
(***************************************************************************)
EXTENDS JobScheduler, SequenceTheorems, FiniteSetTheorems, FunctionTheorems,
        WellFoundedInduction, TLAPS

\* Where doname() is active, there is an activation of it.
Activated ==
    /\ pc \in {"enter", "check", "deps", "serial", "slots", "retry"} => stack /= <<>>
    /\ pc \in {"await", "finish"} /\ back \in {"slots", "retry"} => stack /= <<>>

TypeInv == TypeOK /\ Activated
-----------------------------------------------------------------------------
(* Types of the operators *)

LEMMA ActivationType ==
  ASSUME NEW t \in Target, NEW a \in BOOLEAN
  PROVE  Activation(t, a) \in Frame
BY DEF Activation, Frame, Doname

LEMMA FunctionIsSeq ==
  ASSUME NEW S, NEW n \in Nat, NEW f \in [1..n -> S]
  PROVE  f \in Seq(S) /\ Len(f) = n
BY SeqDef, LenProperties

\* The first n elements of a sequence.
LEMMA PrefixType ==
  ASSUME NEW S, NEW s \in Seq(S), NEW n \in 0..Len(s)
  PROVE  /\ SubSeq(s, 1, n) \in Seq(S)
         /\ Len(SubSeq(s, 1, n)) = n
         /\ \A i \in 1..n : SubSeq(s, 1, n)[i] = s[i]
<1>1. n \in Int /\ n >= 0 /\ \A i \in 1..n : s[i] \in S
  BY LenProperties, ElementOfSeq
<1>. QED  BY <1>1, SubSeqProperties

LEMMA TopType ==
  ASSUME stack \in Seq(Frame), stack /= <<>>
  PROVE  /\ Top \in Frame
         /\ Below \in Seq(Frame)
         /\ Len(stack) \in Nat \ {0}
         /\ Len(Below) = Len(stack) - 1
<1>1. Len(stack) \in Nat \ {0}
  BY EmptySeq
<1>2. Top \in Frame
  BY <1>1, ElementOfSeq DEF Top
<1>3. Below \in Seq(Frame) /\ Len(Below) = Len(stack) - 1
  BY <1>1, PrefixType DEF Below
<1>. QED  BY <1>1, <1>2, <1>3

LEMMA AsTopType ==
  ASSUME stack \in Seq(Frame), stack /= <<>>, NEW f \in Frame
  PROVE  AsTop(f) \in Seq(Frame) /\ AsTop(f) /= <<>>
<1>1. Below \in Seq(Frame)
  BY TopType
<1>. QED  BY <1>1, AppendProperties, EmptySeq DEF AsTop

\* A list of dependencies changed element by element stays one.
LEMMA MapType ==
  ASSUME NEW ds \in Seq(Dependency), NEW new,
         new = [j \in DOMAIN ds |-> new[j]],
         \A j \in DOMAIN ds : new[j] \in Dependency
  PROVE  new \in Seq(Dependency) /\ Len(new) = Len(ds)
<1>1. DOMAIN ds = 1..Len(ds) /\ Len(ds) \in Nat
  BY LenProperties
<1>2. new = [j \in 1..Len(ds) |-> new[j]]
  BY <1>1
<1>. QED  BY <1>1, <1>2, FunctionIsSeq

LEMMA UnbuiltType ==
  ASSUME NEW ds \in Seq(Dependency)
  PROVE  Unbuilt(ds) \in Seq(Dependency)
<1>1. \A j \in DOMAIN ds : [ds[j] EXCEPT !.built = FALSE] \in Dependency
  <2>1. \A j \in DOMAIN ds : ds[j] \in Dependency
    BY ElementOfSeq, LenProperties
  <2>. QED  BY <2>1 DEF Dependency
<1>2. Unbuilt(ds) = [j \in DOMAIN ds |-> Unbuilt(ds)[j]]
      /\ \A j \in DOMAIN ds : Unbuilt(ds)[j] \in Dependency
  BY <1>1 DEF Unbuilt
<1>. QED  BY <1>2, MapType

LEMMA DependencyDoneType ==
  ASSUME TypeOK, NEW f \in Frame, NEW d \in Target, NEW r \in Doname
  PROVE  DependencyDone(f, d, r) \in Frame
<1>. DEFINE running == f.running \/ r = "running"
            result == IF r = "failed" THEN r ELSE f.result
            ood == f.ood \/ r = "dont_know"
            dtime == IF r = "running" THEN f.dtime ELSE Later(f.dtime, mtime[d])
<1>1. f.i + 1 \in Nat \ {0} /\ result \in Doname /\ dtime \in Nat
  BY DEF Frame, Later, TypeOK
<1>2. running \in BOOLEAN /\ ood \in BOOLEAN
  OBVIOUS
<1>3. DependencyDone(f, d, r) =
        [f EXCEPT !.i = f.i + 1, !.running = running, !.result = result,
                  !.ood = ood, !.dtime = dtime]
  BY DEF DependencyDone
<1>. HIDE DEF running, result, ood, dtime
<1>. QED  BY <1>1, <1>2, <1>3 DEF Frame

LEMMA MarkBuiltType ==
  ASSUME TypeOK, NEW f \in Frame, NEW r \in Doname
  PROVE  MarkBuilt(f, r) \in [Target -> Seq(Dependency)]
<1>. DEFINE ds == deps[f.target]
            Mark(d) == [d EXCEPT !.built = TRUE, !.stale = d.stale \/ r = "dont_know"]
            new == [j \in DOMAIN ds |-> IF j = f.i THEN Mark(ds[j]) ELSE ds[j]]
<1>1. ds \in Seq(Dependency)
  BY DEF TypeOK, Frame
<1>2. \A d \in Dependency : Mark(d) \in Dependency
  <2>1. ASSUME NEW d \in Dependency, NEW stale \in BOOLEAN
        PROVE  [d EXCEPT !.built = TRUE, !.stale = stale] \in Dependency
    BY DEF Dependency
  <2>2. \A d \in Dependency : (d.stale \/ r = "dont_know") \in BOOLEAN
    OBVIOUS
  <2>. QED  BY <2>1, <2>2
<1>3. \A j \in DOMAIN ds : ds[j] \in Dependency
  BY <1>1, ElementOfSeq, LenProperties
<1>4. new = [j \in DOMAIN ds |-> new[j]] /\ \A j \in DOMAIN ds : new[j] \in Dependency
  BY <1>2, <1>3
<1>5. new \in Seq(Dependency)
  <2>. HIDE DEF new, ds
  <2>. QED  BY <1>1, <1>4, MapType
<1>6. MarkBuilt(f, r) = [deps EXCEPT ![f.target] = new]
  BY Zenon DEF MarkBuilt
<1>. HIDE DEF new
<1>. QED  BY <1>5, <1>6 DEF TypeOK

LEMMA ReportedType ==
  ASSUME NEW t \in Target, NEW ds \in Seq(Dependency), NEW list \in Reported(t, ds)
  PROVE  list \in Seq(Dependency)
<1>. DEFINE R == Reports[t]
            Mark(d) == IF d.auto THEN [d EXCEPT !.stale = d.name \notin R,
                                                !.built = d.built /\ d.name \notin R]
                                 ELSE d
            known == {ds[j].name : j \in DOMAIN ds}
            marked == [j \in DOMAIN ds |-> Mark(ds[j])]
            added(q) == [j \in DOMAIN q |-> Depend(q[j], TRUE)]
<1>1. CASE ~(KeepState /\ R /= {})
  BY <1>1 DEF Reported
<1>2. CASE KeepState /\ R /= {}
  <2>1. PICK q \in Orders(R \ known) : list = marked \o added(q)
    BY <1>2 DEF Reported
  <2>2. \A j \in DOMAIN ds : Mark(ds[j]) \in Dependency
    <3>1. \A j \in DOMAIN ds : ds[j] \in Dependency
      BY ElementOfSeq, LenProperties
    <3>. QED  BY <3>1 DEF Dependency
  <2>3. marked \in Seq(Dependency)
    <3>1. marked = [j \in DOMAIN ds |-> marked[j]]
          /\ \A j \in DOMAIN ds : marked[j] \in Dependency
      BY <2>2
    <3>. HIDE DEF marked
    <3>. QED  BY <3>1, MapType
  <2>4. Cardinality(R \ known) \in Nat /\ R \subseteq Target
    BY GraphAssumption, FS_Subset, FS_CardinalityType
  <2>5. q \in [1..Cardinality(R \ known) -> R \ known]
    BY DEF Orders
  <2>6. added(q) = [j \in 1..Cardinality(R \ known) |-> Depend(q[j], TRUE)]
    BY <2>5
  <2>7. \A j \in 1..Cardinality(R \ known) : Depend(q[j], TRUE) \in Dependency
    BY <2>4, <2>5 DEF Depend, Dependency
  <2>8. added(q) \in Seq(Dependency)
    BY <2>4, <2>6, <2>7, FunctionIsSeq
  <2>. QED  BY <2>1, <2>3, <2>8, ConcatProperties
<1>. QED  BY <1>1, <1>2

LEMMA WaitingType ==
  ASSUME NEW t \in Target, NEW kind \in {"pending", "serial"}, NEW again \in BOOLEAN
  PROVE  Waiting(t, kind, again) \in Entry
BY DEF Waiting, Entry

LEMMA JobType ==
  ASSUME NEW f \in Frame
  PROVE  Job(f) \in Entry
BY DEF Job, Waiting, Entry, Frame

LEMMA UnlinkType ==
  ASSUME running_list \in Seq(Entry), NEW i \in DOMAIN running_list
  PROVE  /\ Unlink(i) \in Seq(Entry)
         /\ Len(Unlink(i)) = Len(running_list) - 1
         /\ \A j \in 1..(Len(running_list) - 1) :
               Unlink(i)[j] = running_list[IF j < i THEN j ELSE j + 1]
<1>. DEFINE n == Len(running_list)
            front == SubSeq(running_list, 1, i - 1)
            rear == SubSeq(running_list, i + 1, n)
<1>1. n \in Nat /\ i \in 1..n /\ \A j \in 1..n : running_list[j] \in Entry
  BY LenProperties, ElementOfSeq
<1>2. front \in Seq(Entry) /\ Len(front) = i - 1
      /\ \A j \in 1..(i - 1) : front[j] = running_list[j]
  BY <1>1, PrefixType
<1>3. /\ i + 1 \in Int /\ n \in Int
      /\ \A j \in (i + 1)..n : running_list[j] \in Entry
  BY <1>1
<1>4. /\ rear \in Seq(Entry)
      /\ Len(rear) = n - i
      /\ \A j \in 1..(n - i) : rear[j] = running_list[i + j]
  BY <1>1, <1>3, SubSeqProperties
<1>5. /\ front \o rear \in Seq(Entry)
      /\ Len(front \o rear) = Len(front) + Len(rear)
      /\ \A j \in 1..(Len(front) + Len(rear)) :
           (front \o rear)[j] = IF j <= Len(front) THEN front[j]
                                                   ELSE rear[j - Len(front)]
  <2>. HIDE DEF front, rear
  <2>. QED  BY <1>2, <1>4, ConcatProperties
<1>6. Unlink(i) = front \o rear
  BY DEF Unlink
<1>. HIDE DEF front, rear, n
<1>7. Len(front) + Len(rear) = n - 1
  BY <1>1, <1>2, <1>4
<1>8. \A j \in 1..(n - 1) : Unlink(i)[j] = running_list[IF j < i THEN j ELSE j + 1]
  <2>. TAKE j \in 1..(n - 1)
  <2>1. CASE j < i
    BY <2>1, <1>1, <1>2, <1>5, <1>6, <1>7
  <2>2. CASE j >= i
    <3>1. j - (i - 1) \in 1..(n - i) /\ j \in 1..(Len(front) + Len(rear)) /\ ~(j <= i - 1)
      BY <2>2, <1>1, <1>7
    <3>2. (front \o rear)[j] = rear[j - (i - 1)]
      BY <3>1, <1>2, <1>5
    <3>3. rear[j - (i - 1)] = running_list[i + (j - (i - 1))]
      BY <3>1, <1>4
    <3>4. i + (j - (i - 1)) = j + 1
      BY <1>1
    <3>5. (IF j < i THEN j ELSE j + 1) = i + (j - (i - 1))
      BY <2>2, <3>4, <1>1
    <3>. QED  BY <3>2, <3>3, <3>5, <1>6
  <2>. QED  BY <2>1, <2>2, <1>1
<1>. QED  BY <1>5, <1>6, <1>7, <1>8 DEF n

LEMMA TimesType ==
  ASSUME NEW times \in [Target -> Nat], NEW t \in Target
  PROVE  Nice(times, t) \in [Target -> Nat]
BY OptionAssumption DEF Nice

LEMMA TimeForType ==
  ASSUME TypeOK, NEW t \in Target, NEW time \in Nat
  PROVE  TimeFor(t, time) \in [Target -> Nat]
BY DEF TimeFor, TypeOK

LEMMA RecipeTimeType ==
  ASSUME TypeOK, NEW t \in Target
  PROVE  RecipeTime(t) \in Nat
BY DEF RecipeTime, TypeOK

LEMMA ReturnsType ==
  ASSUME TypeOK, stack /= <<>>, NEW r \in Doname, Returns(r)
  PROVE  stack' \in Seq(Frame) /\ stack' /= <<>> /\ pc' = "check"
<1>1. [Top EXCEPT !.result = r] \in Frame
  BY TopType DEF TypeOK, Frame
<1>. QED  BY <1>1, AsTopType DEF Returns, TypeOK

LEMMA ListedType ==
  ASSUME TypeOK, NEW t \in Target, NEW kind \in {"pending", "serial"}
  PROVE  /\ Append(running_list, Waiting(t, kind, FALSE)) \in Seq(Entry)
         /\ [state EXCEPT ![t] = "running"] \in [Target -> Doname]
<1>1. Waiting(t, kind, FALSE) \in Entry
  BY WaitingType
<1>2. Append(running_list, Waiting(t, kind, FALSE)) \in Seq(Entry)
  BY <1>1, AppendProperties DEF TypeOK
<1>. QED  BY <1>2 DEF TypeOK, Doname

LEMMA BuildAloneType ==
  ASSUME TypeOK, stack /= <<>>, BuildAlone
  PROVE  /\ state' \in [Target -> Doname]
         /\ running_list' \in Seq(Entry)
         /\ stack' \in Seq(Frame) /\ stack' /= <<>>
         /\ pc' \in {"serial", "check"}
<1>1. Top.target \in Target
  BY TopType DEF TypeOK, Frame
<1>2. CASE process_cnt = 0
  BY <1>2 DEF BuildAlone, TypeOK
<1>3. CASE process_cnt /= 0
  <2>1. /\ state' = [state EXCEPT ![Top.target] = "running"]
        /\ running_list' = Append(running_list, Waiting(Top.target, "serial", FALSE))
        /\ Returns("running")
    BY <1>3 DEF BuildAlone
  <2>2. "running" \in Doname
    BY DEF Doname
  <2>. QED  BY <1>1, <2>1, <2>2, ListedType, ReturnsType
<1>. QED  BY <1>2, <1>3

LEMMA StartJobType ==
  ASSUME TypeOK, stack /= <<>>, StartJob
  PROVE  /\ state' \in [Target -> Doname]
         /\ running_list' \in Seq(Entry)
         /\ process_cnt' \in Int
         /\ stack' \in Seq(Frame) /\ stack' /= <<>>
         /\ pc' = "check"
<1>1. Top \in Frame /\ Top.target \in Target
  BY TopType DEF TypeOK, Frame
<1>2. running_list' \in Seq(Entry)
  BY <1>1, JobType, AppendProperties DEF StartJob, TypeOK
<1>3. "running" \in Doname
  BY DEF Doname
<1>. QED  BY <1>1, <1>2, <1>3, ReturnsType, ListedType DEF StartJob, TypeOK

LEMMA PassOnType ==
  ASSUME TypeOK, stack /= <<>>, NEW r \in Doname, NEW failed \in BOOLEAN,
         PassOn(r, failed)
  PROVE  /\ deps' \in [Target -> Seq(Dependency)]
         /\ mtime' \in [Target -> Nat]
         /\ stack' \in Seq(Frame)
         /\ pc' \in {"deps", "goals", "next1", "next2"}
         /\ pc' = "deps" => stack' /= <<>>
         /\ build_failed_seen' \in BOOLEAN
         /\ fatal_in_progress' \in BOOLEAN
<1>1. /\ Top \in Frame /\ Below \in Seq(Frame)
      /\ Len(stack) \in Nat \ {0} /\ Len(Below) = Len(stack) - 1
  BY TopType DEF TypeOK
<1>2. CASE Len(stack) = 1
  <2>1. mtime' = LookAgain(Top.target, r)
    BY <1>2 DEF PassOn
  <2>2. mtime' \in [Target -> Nat]
    BY <2>1 DEF LookAgain, TypeOK
  <2>. QED  BY <1>2, <2>2, EmptySeq DEF PassOn, TypeOK
<1>3. CASE Len(stack) /= 1
  <2>. DEFINE f == Below[Len(Below)]
  <2>1. Len(Below) \in 1..Len(Below)
    BY <1>1, <1>3
  <2>2. f \in Frame
    BY <1>1, <2>1, ElementOfSeq
  <2>3. /\ stack' = [Below EXCEPT ![Len(Below)] = DependencyDone(f, Top.target, r)]
        /\ deps' = MarkBuilt(f, r)
        /\ pc' = "deps"
    BY <1>3 DEF PassOn
  <2>4. deps' \in [Target -> Seq(Dependency)]
    BY <2>2, <2>3, MarkBuiltType
  <2>5. DependencyDone(f, Top.target, r) \in Frame
    BY <1>1, <2>2, DependencyDoneType DEF Frame
  <2>6. stack' \in Seq(Frame) /\ Len(stack') = Len(Below)
    BY <1>1, <2>1, <2>3, <2>5, ExceptSeq
  <2>7. stack' /= <<>>
    BY <2>1, <2>6, EmptySeq
  <2>. QED  BY <2>3, <2>4, <2>6, <2>7 DEF PassOn, TypeOK
<1>. QED  BY <1>2, <1>3

LEMMA ConcludeType ==
  ASSUME TypeOK, stack /= <<>>, NEW r \in Doname, NEW times \in [Target -> Nat],
         NEW ds \in [Target -> Seq(Dependency)], Conclude(r, times, ds)
  PROVE  /\ mtime' \in [Target -> Nat]
         /\ state' \in [Target -> Doname]
         /\ deps' \in [Target -> Seq(Dependency)]
         /\ stack' \in Seq(Frame) /\ stack' /= <<>>
         /\ pc' \in {"deps", "check"}
<1>. DEFINE t == Top.target
<1>1. Top \in Frame /\ t \in Target
  BY TopType DEF TypeOK, Frame
<1>2. mtime' \in [Target -> Nat]
  BY DEF Conclude
<1>3. CASE r = "ok" /\ NewAutos(ds[t], Top.autos)
  <2>1. /\ state' = [state EXCEPT ![t] = "in_progress"]
        /\ deps' = IF Top.restart THEN ds ELSE [ds EXCEPT ![t] = Unbuilt(ds[t])]
        /\ stack' = AsTop([Activation(t, Top.auto) EXCEPT
                             !.second = Top.second, !.restart = Top.restart,
                             !.recheck = TRUE, !.autos = AutosOf(ds[t])])
        /\ pc' = "deps"
    BY <1>3 DEF Conclude
  <2>2. deps' \in [Target -> Seq(Dependency)]
    BY <2>1, <1>1, UnbuiltType
  <2>3. AutosOf(ds[t]) \in SUBSET (Target \cup {Wait})
    <3>1. \A i \in DOMAIN ds[t] : ds[t][i] \in Dependency
      BY <1>1, ElementOfSeq, LenProperties
    <3>. QED  BY <3>1 DEF AutosOf, Dependency
  <2>4. Activation(t, Top.auto) \in Frame /\ Top.second \in BOOLEAN /\ Top.restart \in BOOLEAN
    BY <1>1, ActivationType DEF Frame
  <2>5. [Activation(t, Top.auto) EXCEPT
           !.second = Top.second, !.restart = Top.restart,
           !.recheck = TRUE, !.autos = AutosOf(ds[t])] \in Frame
    BY <2>3, <2>4 DEF Frame
  <2>6. stack' \in Seq(Frame) /\ stack' /= <<>>
    BY <2>1, <2>5, AsTopType DEF TypeOK
  <2>7. state' \in [Target -> Doname]
    BY <2>1, <1>1 DEF TypeOK, Doname
  <2>. QED  BY <1>2, <2>1, <2>2, <2>6, <2>7
<1>4. CASE ~(r = "ok" /\ NewAutos(ds[t], Top.autos))
  <2>1. state' = [state EXCEPT ![t] = r] /\ deps' = ds /\ Returns(r)
    BY <1>4 DEF Conclude
  <2>. QED  BY <1>1, <1>2, <2>1, ReturnsType DEF TypeOK
<1>. QED  BY <1>3, <1>4
-----------------------------------------------------------------------------
(* Every step keeps the types *)

LEMMA InitType == Init => TypeInv
<1>. SUFFICES ASSUME Init PROVE TypeInv
  OBVIOUS
<1>1. deps \in [Target -> Seq(Dependency)] /\ mtime \in [Target -> Nat]
  BY GraphAssumption DEF Init
<1>2. <<>> \in Seq(Entry) /\ <<>> \in Seq(Frame)
  BY EmptySeq
<1>3. state \in [Target -> Doname] /\ rechecking \in [Target -> BOOLEAN]
  BY DEF Init, Doname
<1>4. running_list \in Seq(Entry) /\ stack \in Seq(Frame)
  BY <1>2 DEF Init
<1>5. process_cnt \in Int /\ gi \in Nat \ {0} /\ clock \in Nat
  BY GraphAssumption DEF Init
<1>. QED  BY <1>1, <1>3, <1>4, <1>5, OptionAssumption
          DEF Init, TypeInv, TypeOK, Activated

LEMMA EnterEarlyType == TypeInv /\ EnterEarly => TypeInv'
<1>. SUFFICES ASSUME TypeOK, Activated, EnterEarly PROVE TypeInv'
  BY DEF TypeInv
<1>. DEFINE t == Top.target
<1>1. stack \in Seq(Frame) /\ stack /= <<>>
  BY DEF EnterEarly, Activated, TypeOK
<1>2. t \in Target
  BY <1>1, TopType DEF Frame
<1>3. stack' \in Seq(Frame) /\ stack' /= <<>> /\ pc' = "check"
  <2>1. Returns("running") \/ Returns("ok")
    BY DEF EnterEarly
  <2>. QED  BY <1>1, <2>1, ReturnsType DEF Doname
<1>4. state' \in [Target -> Doname] /\ running_list' \in Seq(Entry)
  <2>1. \/ UNCHANGED <<state, running_list>>
        \/ /\ state' = [state EXCEPT ![t] = "running"]
           /\ running_list' = Append(running_list, Waiting(t, "pending", FALSE))
    BY DEF EnterEarly
  <2>2. Waiting(t, "pending", FALSE) \in Entry
    BY <1>2, WaitingType
  <2>3. Append(running_list, Waiting(t, "pending", FALSE)) \in Seq(Entry)
    BY <2>2, AppendProperties DEF TypeOK
  <2>4. [state EXCEPT ![t] = "running"] \in [Target -> Doname]
    BY <1>2 DEF TypeOK, Doname
  <2>. QED  BY <2>1, <2>3, <2>4 DEF TypeOK
<1>. QED  BY <1>3, <1>4 DEF EnterEarly, TypeInv, TypeOK, Activated, errorVars

LEMMA EnterFullType == TypeInv /\ EnterFull => TypeInv'
<1>. SUFFICES ASSUME TypeOK, Activated, EnterFull PROVE TypeInv'
  BY DEF TypeInv
<1>. DEFINE t == Top.target
            restart == state[t] = "pending"
            autos == IF KeepState THEN AutosOf(deps[t]) ELSE {}
            f == [Activation(t, Top.auto) EXCEPT !.second = Top.second,
                                                 !.restart = restart, !.autos = autos]
<1>1. stack \in Seq(Frame) /\ stack /= <<>>
  BY DEF EnterFull, Activated, TypeOK
<1>2. Top \in Frame /\ t \in Target
  BY <1>1, TopType DEF Frame
<1>3. deps' \in [Target -> Seq(Dependency)]
  <2>1. Unbuilt(deps[t]) \in Seq(Dependency)
    BY <1>2, UnbuiltType DEF TypeOK
  <2>2. deps' = IF restart THEN deps ELSE [deps EXCEPT ![t] = Unbuilt(deps[t])]
    BY DEF EnterFull
  <2>. QED  BY <2>1, <2>2, <1>2 DEF TypeOK
<1>4. f \in Frame
  <2>1. autos \in SUBSET (Target \cup {Wait})
    <3>1. \A i \in DOMAIN deps[t] : deps[t][i] \in Dependency
      BY <1>2, ElementOfSeq, LenProperties DEF TypeOK
    <3>. QED  BY <3>1 DEF AutosOf, Dependency
  <2>2. Activation(t, Top.auto) \in Frame /\ Top.second \in BOOLEAN
    BY <1>2, ActivationType DEF Frame
  <2>3. restart \in BOOLEAN
    OBVIOUS
  <2>. HIDE DEF autos, restart
  <2>. QED  BY <2>1, <2>2, <2>3 DEF Frame
<1>5. /\ stack' \in Seq(Frame) /\ stack' /= <<>> /\ pc' \in {"check", "deps"}
      /\ state' \in [Target -> Doname]
  <2>1. CASE state[t] = "in_progress"
    <3>1. Returns("ok") /\ UNCHANGED state
      BY <2>1 DEF EnterFull
    <3>. QED  BY <1>1, <3>1, ReturnsType DEF TypeOK, Doname
  <2>2. CASE state[t] /= "in_progress"
    <3>1. /\ state' = [state EXCEPT ![t] = "in_progress"]
          /\ stack' = AsTop(f)
          /\ pc' = "deps"
      BY <2>2 DEF EnterFull
    <3>. HIDE DEF f
    <3>. QED  BY <1>1, <1>2, <1>4, <3>1, AsTopType DEF TypeOK, Doname
  <2>. QED  BY <2>1, <2>2
<1>. QED  BY <1>3, <1>5 DEF EnterFull, TypeInv, TypeOK, Activated, listVars, errorVars

LEMMA DonameCheckType == TypeInv /\ DonameCheck => TypeInv'
<1>. SUFFICES ASSUME TypeOK, Activated, DonameCheck PROVE TypeInv'
  BY DEF TypeInv
<1>. DEFINE r == Top.result
<1>1. stack \in Seq(Frame) /\ stack /= <<>>
  BY DEF DonameCheck, Activated, TypeOK
<1>2. Top \in Frame /\ r \in Doname /\ "failed" \in Doname
  BY <1>1, TopType DEF Frame, Doname
<1>3. CASE PassOn(r, FALSE) \/ PassOn(r, TRUE) \/ PassOn("failed", TRUE)
  BY <1>1, <1>2, <1>3, PassOnType
     DEF DonameCheck, TypeInv, TypeOK, Activated, listVars
<1>4. CASE Fatal /\ UNCHANGED <<stack, deps, mtime, build_failed_seen>>
  BY <1>4 DEF Fatal, DonameCheck, TypeInv, TypeOK, Activated, listVars
<1>5. CASE /\ stack' = AsTop([Top EXCEPT !.second = TRUE])
           /\ pc' = "enter"
           /\ UNCHANGED <<deps, mtime, errorVars>>
  <2>1. [Top EXCEPT !.second = TRUE] \in Frame
    BY <1>2 DEF Frame
  <2>2. stack' \in Seq(Frame) /\ stack' /= <<>>
    BY <1>1, <1>5, <2>1, AsTopType
  <2>. QED  BY <1>5, <2>2 DEF DonameCheck, TypeInv, TypeOK, Activated, listVars, errorVars
<1>. QED  BY <1>3, <1>4, <1>5 DEF DonameCheck

LEMMA ScanDependencyType == TypeInv /\ ScanDependency => TypeInv'
<1>. SUFFICES ASSUME TypeOK, Activated, ScanDependency PROVE TypeInv'
  BY DEF TypeInv
<1>. DEFINE f == Top
            d == deps[f.target][f.i]
<1>1. stack \in Seq(Frame) /\ stack /= <<>>
  BY DEF ScanDependency, Activated, TypeOK
<1>2. f \in Frame
  BY <1>1, TopType
<1>3. deps[f.target] \in Seq(Dependency) /\ Len(deps[f.target]) \in Nat
  BY <1>2, LenProperties DEF TypeOK, Frame
<1>4. d \in Dependency
  BY <1>2, <1>3, ElementOfSeq, LenProperties DEF ScanDependency
<1>5. CASE /\ \/ stack' = AsTop([f EXCEPT !.i = @ + 1])
              \/ stack' = AsTop([f EXCEPT !.i = IF f.running
                                     THEN Len(deps[f.target]) + 1 ELSE @ + 1])
           /\ UNCHANGED <<deps, pc>>
  <2>1. \A n \in Nat \ {0} : [f EXCEPT !.i = n] \in Frame
    BY <1>2 DEF Frame
  <2>2. f.i + 1 \in Nat \ {0} /\ Len(deps[f.target]) + 1 \in Nat \ {0}
    BY <1>2, <1>3 DEF Frame
  <2>3. \E n \in Nat \ {0} : stack' = AsTop([f EXCEPT !.i = n])
    BY <1>5, <2>2
  <2>4. stack' \in Seq(Frame) /\ stack' /= <<>>
    BY <1>1, <2>1, <2>3, AsTopType
  <2>. QED  BY <1>5, <2>4 DEF ScanDependency, TypeInv, TypeOK, Activated, listVars, errorVars
<1>6. CASE /\ d.name /= Wait
           /\ stack' = AsTop(DependencyDone(f, d.name, state[d.name]))
           /\ deps' = MarkBuilt(f, state[d.name])
           /\ UNCHANGED pc
  <2>1. d.name \in Target /\ state[d.name] \in Doname
    BY <1>4, <1>6 DEF Dependency, TypeOK
  <2>2. deps' \in [Target -> Seq(Dependency)]
    BY <1>2, <1>6, <2>1, MarkBuiltType
  <2>3. stack' \in Seq(Frame) /\ stack' /= <<>>
    BY <1>1, <1>2, <1>6, <2>1, DependencyDoneType, AsTopType
  <2>. QED  BY <1>6, <2>2, <2>3 DEF ScanDependency, TypeInv, TypeOK, Activated, listVars, errorVars
<1>7. CASE /\ d.name /= Wait
           /\ stack' = Append(stack, Activation(d.name, d.auto))
           /\ pc' = "enter"
           /\ UNCHANGED deps
  <2>1. Activation(d.name, d.auto) \in Frame
    BY <1>4, <1>7, ActivationType DEF Dependency
  <2>2. stack' \in Seq(Frame) /\ stack' /= <<>>
    BY <1>1, <1>7, <2>1, AppendProperties
  <2>. QED  BY <1>7, <2>2 DEF ScanDependency, TypeInv, TypeOK, Activated, listVars, errorVars
<1>. QED  BY <1>5, <1>6, <1>7 DEF ScanDependency

LEMMA AddPendingType == TypeInv /\ AddPending => TypeInv'
<1>. SUFFICES ASSUME TypeOK, Activated, AddPending PROVE TypeInv'
  BY DEF TypeInv
<1>1. stack \in Seq(Frame) /\ stack /= <<>>
  BY DEF AddPending, Scanned, Activated, TypeOK
<1>2. Top.target \in Target
  BY <1>1, TopType DEF Frame
<1>3. stack' \in Seq(Frame) /\ stack' /= <<>> /\ pc' = "check"
  BY <1>1, ReturnsType DEF AddPending, Doname
<1>4. state' \in [Target -> Doname] /\ running_list' \in Seq(Entry)
  BY <1>2, ListedType DEF AddPending
<1>. QED  BY <1>3, <1>4 DEF AddPending, TypeInv, TypeOK, Activated, errorVars

LEMMA NoCommandType == TypeInv /\ NoCommand => TypeInv'
<1>. SUFFICES ASSUME TypeOK, Activated, NoCommand PROVE TypeInv'
  BY DEF TypeInv
<1>. DEFINE t == Top.target
            r == IF t \in Listed THEN "ok"
                 ELSE IF Top.result = "dont_know" /\ mtime[t] /= 0 THEN "ok"
                 ELSE Top.result
            times == IF t \in Listed THEN Nice(mtime, t) ELSE mtime
<1>1. stack \in Seq(Frame) /\ stack /= <<>>
  BY DEF NoCommand, Scanned, Activated, TypeOK
<1>2. t \in Target /\ Top.result \in Doname
  BY <1>1, TopType DEF Frame
<1>3. r \in Doname
  BY <1>2 DEF Doname
<1>4. times \in [Target -> Nat]
  BY <1>2, TimesType DEF TypeOK
<1>5. Conclude(r, times, deps)
  BY DEF NoCommand
<1>6. deps \in [Target -> Seq(Dependency)]
  BY DEF TypeOK
<1>7. /\ mtime' \in [Target -> Nat]
      /\ state' \in [Target -> Doname]
      /\ deps' \in [Target -> Seq(Dependency)]
      /\ stack' \in Seq(Frame) /\ stack' /= <<>>
      /\ pc' \in {"deps", "check"}
  <2>. HIDE DEF r, times
  <2>. QED  BY <1>1, <1>3, <1>4, <1>5, <1>6, ConcludeType
<1>. QED  BY <1>7 DEF NoCommand, TypeInv, TypeOK, Activated, listVars, errorVars

LEMMA CommandNotRunType == TypeInv /\ CommandNotRun => TypeInv'
<1>. SUFFICES ASSUME TypeOK, Activated, CommandNotRun PROVE TypeInv'
  BY DEF TypeInv
<1>. DEFINE t == Top.target
<1>1. stack \in Seq(Frame) /\ stack /= <<>>
  BY DEF CommandNotRun, Scanned, Activated, TypeOK
<1>2. t \in Target
  BY <1>1, TopType DEF Frame
<1>3. "failed" \in Doname /\ "ok" \in Doname
  BY DEF Doname
<1>4. mtime \in [Target -> Nat] /\ Nice(mtime, t) \in [Target -> Nat]
  BY <1>2, TimesType DEF TypeOK
<1>5. deps \in [Target -> Seq(Dependency)]
  BY DEF TypeOK
<1>6. Conclude("failed", mtime, deps) \/ Conclude("ok", Nice(mtime, t), deps)
  BY DEF CommandNotRun
<1>7. /\ mtime' \in [Target -> Nat]
      /\ state' \in [Target -> Doname]
      /\ deps' \in [Target -> Seq(Dependency)]
      /\ stack' \in Seq(Frame) /\ stack' /= <<>>
      /\ pc' \in {"deps", "check"}
  BY <1>1, <1>3, <1>4, <1>5, <1>6, ConcludeType
<1>8. rechecking' \in [Target -> BOOLEAN]
  BY <1>2 DEF CommandNotRun, TypeOK
<1>. QED  BY <1>7, <1>8 DEF CommandNotRun, TypeInv, TypeOK, Activated, listVars, errorVars

LEMMA RunCommandType == TypeInv /\ RunCommand => TypeInv'
<1>. SUFFICES ASSUME TypeOK, Activated, RunCommand PROVE TypeInv'
  BY DEF TypeInv
<1>1. stack \in Seq(Frame) /\ stack /= <<>>
  BY DEF RunCommand, Scanned, Activated, TypeOK
<1>2. CASE BuildAlone
  BY <1>1, <1>2, BuildAloneType DEF RunCommand, TypeInv, TypeOK, Activated, errorVars
<1>3. CASE pc' = "slots" /\ UNCHANGED <<state, running_list, stack>>
  BY <1>1, <1>3 DEF RunCommand, TypeInv, TypeOK, Activated, errorVars
<1>. QED  BY <1>2, <1>3 DEF RunCommand

LEMMA SerialExitType == TypeInv /\ SerialExit => TypeInv'
<1>. SUFFICES ASSUME TypeOK, Activated, SerialExit PROVE TypeInv'
  BY DEF TypeInv
<1>. DEFINE t == Top.target
            time == RecipeTime(t)
            ds(list) == [deps EXCEPT ![t] = list]
<1>1. stack \in Seq(Frame) /\ stack /= <<>>
  BY DEF SerialExit, Activated, TypeOK
<1>2. t \in Target
  BY <1>1, TopType DEF Frame
<1>3. time \in Nat /\ Nice(TimeFor(t, time), t) \in [Target -> Nat] /\ mtime \in [Target -> Nat]
  BY <1>2, RecipeTimeType, TimeForType, TimesType DEF TypeOK
<1>4. PICK list \in Reported(t, deps[t]) :
         \/ /\ Conclude("ok", Nice(TimeFor(t, time), t), ds(list))
            /\ clock' = Later(clock, time)
            /\ UNCHANGED errorVars
         \/ /\ Conclude("failed", mtime, ds(list))
            /\ UNCHANGED <<errorVars, clock>>
         \/ /\ Fatal
            /\ deps' = ds(list)
            /\ UNCHANGED <<state, mtime, stack, build_failed_seen, clock>>
  BY Zenon DEF SerialExit
<1>5. ds(list) \in [Target -> Seq(Dependency)]
  <2>1. list \in Seq(Dependency)
    BY <1>2, <1>4, ReportedType DEF TypeOK
  <2>. QED  BY <1>2, <2>1 DEF TypeOK
<1>6. clock' \in Nat
  BY <1>3, <1>4 DEF Later, TypeOK
<1>7. "failed" \in Doname /\ "ok" \in Doname
  BY DEF Doname
<1>8. CASE /\ \/ Conclude("ok", Nice(TimeFor(t, time), t), ds(list))
              \/ Conclude("failed", mtime, ds(list))
           /\ UNCHANGED errorVars
  <2>1. /\ mtime' \in [Target -> Nat]
        /\ state' \in [Target -> Doname]
        /\ deps' \in [Target -> Seq(Dependency)]
        /\ stack' \in Seq(Frame) /\ stack' /= <<>>
        /\ pc' \in {"deps", "check"}
    <3>. HIDE DEF ds, time
    <3>. QED  BY <1>1, <1>3, <1>5, <1>7, <1>8, ConcludeType
  <2>. QED  BY <1>6, <1>8, <2>1 DEF SerialExit, TypeInv, TypeOK, Activated, listVars, errorVars
<1>9. CASE /\ Fatal
           /\ deps' = ds(list)
           /\ UNCHANGED <<state, mtime, stack, build_failed_seen, clock>>
  <2>. HIDE DEF ds
  <2>. QED  BY <1>5, <1>9 DEF Fatal, SerialExit, TypeInv, TypeOK, Activated, listVars
<1>. QED  BY <1>4, <1>8, <1>9

LEMMA DistributeProcessType == TypeInv /\ DistributeProcess => TypeInv'
<1>. SUFFICES ASSUME TypeOK, Activated, DistributeProcess PROVE TypeInv'
  BY DEF TypeInv
<1>1. stack \in Seq(Frame) /\ stack /= <<>>
  BY DEF DistributeProcess, Activated, TypeOK
<1>2. CASE StartJob
  BY <1>1, <1>2, StartJobType
     DEF StartJob, DistributeProcess, TypeInv, TypeOK, Activated, errorVars
<1>3. CASE AwaitFor("slots") \/ AwaitFor("retry")
  BY <1>1, <1>3 DEF AwaitFor, DistributeProcess, TypeInv, TypeOK, Activated, errorVars
<1>4. CASE NoSlot
  BY <1>1, <1>4, BuildAloneType
     DEF NoSlot, DistributeProcess, TypeInv, TypeOK, Activated, errorVars
<1>5. CASE AdjustError
  BY <1>1, <1>5 DEF AdjustError, DistributeProcess, TypeInv, TypeOK, Activated, errorVars
<1>6. CASE /\ pc' = "slots"
           /\ UNCHANGED <<state, running_list, process_cnt, job_adjust_mode, stack, back>>
  BY <1>1, <1>6 DEF DistributeProcess, TypeInv, TypeOK, Activated, errorVars
<1>. QED  BY <1>2, <1>3, <1>4, <1>5, <1>6 DEF DistributeProcess

LEMMA JobExitType == TypeInv /\ (\E t \in Target : JobExit(t)) => TypeInv'
<1>. SUFFICES ASSUME TypeOK, Activated, NEW t \in Target, JobExit(t) PROVE TypeInv'
  BY DEF TypeInv
<1>1. PICK i \in DOMAIN running_list, exit \in {"ok", "failed"}, out \in BOOLEAN :
        /\ running_list' = [running_list EXCEPT
              ![i] = [running_list[i] EXCEPT !.exit = exit, !.out = out,
                                             !.time = RecipeTime(t)]]
        /\ clock' = IF exit = "ok" THEN Later(clock, RecipeTime(t)) ELSE clock
  BY DEF JobExit
<1>2. RecipeTime(t) \in Nat
  BY RecipeTimeType
<1>3. running_list[i] \in Entry /\ i \in 1..Len(running_list)
  BY ElementOfSeq, LenProperties DEF TypeOK
<1>4. [running_list[i] EXCEPT !.exit = exit, !.out = out, !.time = RecipeTime(t)] \in Entry
  BY <1>2, <1>3 DEF Entry
<1>5. running_list' \in Seq(Entry)
  BY <1>1, <1>3, <1>4, ExceptSeq DEF TypeOK
<1>6. clock' \in Nat
  BY <1>1, <1>2 DEF Later, TypeOK
<1>. QED  BY <1>5, <1>6 DEF JobExit, TypeInv, TypeOK, Activated, targetVars, errorVars

\* The set of indices of some entries is finite.
LEMMA IndicesFinite ==
  ASSUME running_list \in Seq(Entry), NEW S \in SUBSET (DOMAIN running_list)
  PROVE  IsFiniteSet(S) /\ Cardinality(S) \in Nat
<1>1. IsFiniteSet(1..Len(running_list))
  BY LenProperties, FS_Interval
<1>. QED  BY <1>1, LenProperties, FS_Subset, FS_CardinalityType

LEMMA AwaitParallelType == TypeInv /\ AwaitParallel => TypeInv'
<1>. SUFFICES ASSUME TypeOK, Activated, AwaitParallel PROVE TypeInv'
  BY DEF TypeInv
<1>. DEFINE new(i) == IF i \in Exited
                        THEN [running_list[i] EXCEPT !.st = running_list[i].exit]
                        ELSE running_list[i]
            reaped == [i \in DOMAIN running_list |-> new(i)]
<1>1. \A i \in DOMAIN running_list : running_list[i] \in Entry
  BY ElementOfSeq, LenProperties DEF TypeOK
<1>2. \A i \in DOMAIN running_list : new(i) \in Entry
  BY <1>1 DEF Entry, Exited
<1>3. reaped \in Seq(Entry)
  <2>1. reaped \in [1..Len(running_list) -> Entry] /\ Len(running_list) \in Nat
    BY <1>2, LenProperties DEF TypeOK
  <2>. QED  BY <2>1, FunctionIsSeq
<1>4. running_list' = reaped
  BY DEF AwaitParallel
<1>5. Cardinality(Exited) \in Nat
  BY IndicesFinite DEF Exited, TypeOK
<1>6. process_cnt' \in Int
  BY <1>5 DEF AwaitParallel, TypeOK
<1>. HIDE DEF reaped
<1>. QED  BY <1>3, <1>4, <1>6
          DEF AwaitParallel, TypeInv, TypeOK, Activated, targetVars, errorVars

LEMMA FinishDonameType ==
  ASSUME TypeOK, NEW e \in Entry, NEW ds, NEW rest \in Seq(Entry),
         FinishDoname(e, ds, rest)
  PROVE  /\ state' \in [Target -> Doname]
         /\ running_list' \in Seq(Entry)
         /\ mtime' \in [Target -> Nat]
         /\ rechecking' \in [Target -> BOOLEAN]
<1>. DEFINE t == e.target
<1>1. t \in Target /\ e.time \in Nat
  BY DEF Entry
<1>2. \A s \in Doname : [state EXCEPT ![t] = s] \in [Target -> Doname]
  BY <1>1 DEF TypeOK
<1>3. {"failed", "running", "ok"} \subseteq Doname
  BY DEF Doname
<1>4. CASE e.st = "failed"
  BY <1>2, <1>3, <1>4 DEF FinishDoname, TypeOK
<1>5. CASE e.st /= "failed"
  <2>1. mtime' \in [Target -> Nat]
    <3>1. mtime' = Nice(TimeFor(t, e.time), t)
      BY <1>5 DEF FinishDoname
    <3>. QED  BY <1>1, <3>1, TimeForType, TimesType
  <2>2. CASE NewAutos(ds, e.autos)
    <3>1. Append(rest, Waiting(t, "pending", TRUE)) \in Seq(Entry)
      BY <1>1, WaitingType, AppendProperties
    <3>2. [rechecking EXCEPT ![t] = TRUE] \in [Target -> BOOLEAN]
      BY DEF TypeOK
    <3>. QED  BY <1>2, <1>3, <1>5, <2>1, <2>2, <3>1, <3>2 DEF FinishDoname
  <2>3. CASE ~NewAutos(ds, e.autos)
    BY <1>2, <1>3, <1>5, <2>1, <2>3 DEF FinishDoname, TypeOK
  <2>. QED  BY <2>2, <2>3
<1>. QED  BY <1>4, <1>5

LEMMA FinishChildType == TypeInv /\ FinishChild => TypeInv'
<1>. SUFFICES ASSUME TypeOK, Activated, FinishChild PROVE TypeInv'
  BY DEF TypeInv
<1>1. PICK i \in Finished :
        LET e == running_list[i] IN
        \/ /\ Fatal
           /\ running_list' = Unlink(i)
           /\ UNCHANGED <<state, deps, mtime, rechecking, build_failed_seen>>
        \/ /\ Fatal
           /\ \E ds \in Reported(e.target, deps[e.target]) :
                 deps' = [deps EXCEPT ![e.target] = ds]
           /\ running_list' = Unlink(i)
           /\ UNCHANGED <<state, mtime, rechecking, build_failed_seen>>
        \/ /\ \E ds \in Reported(e.target, deps[e.target]) :
                /\ deps' = [deps EXCEPT ![e.target] = ds]
                /\ \/ FinishDoname(e, ds, Unlink(i))
                   \/ /\ running_list' = Unlink(i)
                      /\ UNCHANGED <<state, mtime, rechecking>>
           /\ build_failed_seen' = (build_failed_seen \/ e.st = "failed")
           /\ UNCHANGED <<pc, fatal_in_progress>>
  BY Zenon DEF FinishChild
<1>. DEFINE e == running_list[i]
            t == e.target
<1>2. i \in DOMAIN running_list
  BY DEF Finished
<1>3. e \in Entry /\ t \in Target
  <2>1. e \in Entry
    BY <1>2, ElementOfSeq, LenProperties DEF TypeOK
  <2>. QED  BY <2>1 DEF Entry
<1>4. Unlink(i) \in Seq(Entry)
  BY <1>2, UnlinkType DEF TypeOK
<1>5. \A ds \in Reported(t, deps[t]) :
         [deps EXCEPT ![t] = ds] \in [Target -> Seq(Dependency)]
  <2>1. \A ds \in Reported(t, deps[t]) : ds \in Seq(Dependency)
    BY <1>3, ReportedType DEF TypeOK
  <2>. QED  BY <1>3, <2>1 DEF TypeOK
<1>6. /\ state' \in [Target -> Doname]
      /\ deps' \in [Target -> Seq(Dependency)]
      /\ mtime' \in [Target -> Nat]
      /\ rechecking' \in [Target -> BOOLEAN]
      /\ running_list' \in Seq(Entry)
  <2>1. CASE /\ deps' = deps \/ \E ds \in Reported(t, deps[t]) :
                                   deps' = [deps EXCEPT ![t] = ds]
             /\ running_list' = Unlink(i)
             /\ UNCHANGED <<state, mtime, rechecking>>
    BY <1>4, <1>5, <2>1 DEF TypeOK
  <2>2. CASE \E ds \in Reported(t, deps[t]) :
                /\ deps' = [deps EXCEPT ![t] = ds]
                /\ FinishDoname(e, ds, Unlink(i))
    BY <1>3, <1>4, <1>5, <2>2, FinishDonameType
  <2>. QED  BY <1>1, <2>1, <2>2
<1>7. /\ UNCHANGED <<process_cnt, job_adjust_mode, stack, back, caller,
                     quiescent, gi, clock>>
      /\ pc = "finish"
  BY DEF FinishChild
<1>8. /\ pc' \in {"finish", "drain", "exit"}
      /\ fatal_in_progress' \in BOOLEAN
      /\ build_failed_seen' \in BOOLEAN
  BY <1>1, <1>7 DEF Fatal, TypeOK
<1>9. TypeOK'
  BY <1>6, <1>7, <1>8 DEF TypeOK
<1>10. Activated'
  BY <1>7, <1>8 DEF Activated
<1>. QED  BY <1>9, <1>10 DEF TypeInv

LEMMA FinishChildrenReturnsType == TypeInv /\ FinishChildrenReturns => TypeInv'
BY DEF FinishChildrenReturns, TypeInv, TypeOK, Activated, targetVars, listVars, errorVars

LEMMA FinishRunningType == TypeInv /\ FinishRunning => TypeInv'
BY DEF FinishRunning, TypeInv, TypeOK, Activated, targetVars, listVars, errorVars

LEMMA SingletonType ==
  ASSUME NEW S, NEW x \in S
  PROVE  <<x>> \in Seq(S) /\ <<x>> /= <<>>
OBVIOUS

LEMMA ResumeType ==
  ASSUME TypeOK, NEW i \in DOMAIN running_list, NEW s \in Doname,
         NEW where \in {"next1", "next2"}, Resume(i, s, where)
  PROVE  /\ running_list' \in Seq(Entry)
         /\ state' \in [Target -> Doname]
         /\ stack' \in Seq(Frame) /\ stack' /= <<>>
         /\ pc' = "enter" /\ caller' \in {"goals", "next1", "next2"}
         /\ quiescent' \in BOOLEAN
<1>1. running_list[i].target \in Target
  <2>1. running_list[i] \in Entry
    BY ElementOfSeq, LenProperties DEF TypeOK
  <2>. QED  BY <2>1 DEF Entry
<1>. DEFINE f == Activation(running_list[i].target, FALSE)
<1>2. f \in Frame
  BY <1>1, ActivationType
<1>3. running_list' \in Seq(Entry)
  BY UnlinkType DEF Resume, TypeOK
<1>4. stack' = <<f>>
  BY DEF Resume
<1>5. stack' \in Seq(Frame) /\ stack' /= <<>>
  <2>. HIDE DEF f
  <2>. QED  BY <1>2, <1>4, SingletonType
<1>6. state' \in [Target -> Doname]
  BY <1>1 DEF Resume, TypeOK
<1>. QED  BY <1>3, <1>5, <1>6 DEF Resume

LEMMA NextSerialType == TypeInv /\ NextSerial => TypeInv'
<1>. SUFFICES ASSUME TypeOK, Activated, NextSerial PROVE TypeInv'
  BY DEF TypeInv
<1>1. CASE \E i \in Serials : Resume(i, "pending", "next1")
  <2>1. PICK i \in DOMAIN running_list : Resume(i, "pending", "next1")
    BY <1>1 DEF Serials
  <2>2. "pending" \in Doname
    BY DEF Doname
  <2>. QED  BY <2>1, <2>2, ResumeType
            DEF NextSerial, TypeInv, TypeOK, Activated, errorVars
<1>2. CASE pc' = "next2" /\ UNCHANGED <<state, running_list, stack, caller, quiescent>>
  BY <1>2 DEF NextSerial, TypeInv, TypeOK, Activated, errorVars
<1>. QED  BY <1>1, <1>2 DEF NextSerial

LEMMA NextPendingType == TypeInv /\ NextPending => TypeInv'
<1>. SUFFICES ASSUME TypeOK, Activated, NextPending PROVE TypeInv'
  BY DEF TypeInv
<1>1. CASE /\ \E i \in Startable :
                Resume(i, IF running_list[i].redo THEN "dont_know" ELSE "pending",
                       "next2")
           /\ UNCHANGED errorVars
  <2>1. PICK i \in DOMAIN running_list, s \in {"dont_know", "pending"} :
          Resume(i, s, "next2")
    BY <1>1 DEF Startable
  <2>2. s \in Doname
    BY DEF Doname
  <2>. QED  BY <1>1, <2>1, <2>2, ResumeType
            DEF NextPending, TypeInv, TypeOK, Activated, errorVars
<1>2. CASE /\ Fatal \/ (pc' = "finish_running" /\ UNCHANGED fatal_in_progress)
           /\ UNCHANGED <<state, running_list, stack, caller, quiescent, build_failed_seen>>
  <2>1. pc' \in {"exit", "drain", "finish_running"} /\ fatal_in_progress' \in BOOLEAN
    BY <1>2 DEF Fatal, TypeOK
  <2>. QED  BY <1>2, <2>1 DEF NextPending, TypeInv, TypeOK, Activated
<1>. QED  BY <1>1, <1>2 DEF NextPending

LEMMA MakeTargetsType == TypeInv /\ MakeTargets => TypeInv'
<1>. SUFFICES ASSUME TypeOK, Activated, MakeTargets PROVE TypeInv'
  BY DEF TypeInv
<1>1. CASE /\ gi <= Len(Goals) /\ Goals[gi] /= Wait
           /\ gi' = gi + 1
           /\ stack' = <<Activation(Goals[gi], FALSE)>>
           /\ pc' = "enter" /\ caller' = "goals"
  <2>1. Goals[gi] \in Target
    BY <1>1, GraphAssumption, ElementOfSeq, LenProperties DEF TypeOK
  <2>. DEFINE f == Activation(Goals[gi], FALSE)
  <2>2. f \in Frame
    BY <2>1, ActivationType
  <2>3. stack' \in Seq(Frame) /\ stack' /= <<>>
    <3>1. stack' = <<f>>
      BY <1>1
    <3>. HIDE DEF f
    <3>. QED  BY <2>2, <3>1, SingletonType
  <2>4. UNCHANGED <<targetVars, listVars, back, quiescent, errorVars, clock>>
    BY DEF MakeTargets
  <2>5. gi' \in Nat \ {0}
    BY <1>1 DEF TypeOK
  <2>. HIDE DEF f
  <2>6. TypeOK'
    BY <1>1, <2>3, <2>4, <2>5 DEF TypeOK, targetVars, listVars, errorVars
  <2>7. Activated'
    BY <1>1, <2>3 DEF Activated
  <2>. QED  BY <2>6, <2>7 DEF TypeInv
<1>2. CASE /\ pc' \in {"goals", "finish_running", "done"}
           /\ gi' = gi \/ gi' = gi + 1
           /\ UNCHANGED <<stack, caller>>
  BY <1>2 DEF MakeTargets, TypeInv, TypeOK, Activated, targetVars, listVars, errorVars
<1>. QED  BY <1>1, <1>2 DEF MakeTargets

LEMMA DrainType == TypeInv /\ Drain => TypeInv'
BY DEF Drain, TypeInv, TypeOK, Activated, targetVars, listVars, errorVars

LEMMA StutterType == TypeInv /\ UNCHANGED vars => TypeInv'
BY DEF TypeInv, TypeOK, Activated, vars, targetVars, listVars, errorVars

LEMMA TypeStep == TypeInv /\ [Next]_vars => TypeInv'
<1>. SUFFICES ASSUME TypeInv, [Next]_vars PROVE TypeInv'
  OBVIOUS
<1>1. CASE MakeStep
  BY <1>1, EnterEarlyType, EnterFullType, DonameCheckType, ScanDependencyType,
     AddPendingType, NoCommandType, CommandNotRunType, RunCommandType,
     DistributeProcessType, AwaitParallelType, FinishChildType,
     FinishChildrenReturnsType, FinishRunningType, NextSerialType,
     NextPendingType, MakeTargetsType, DrainType DEF MakeStep
<1>2. CASE SerialExit
  BY <1>2, SerialExitType
<1>3. CASE \E t \in Target : JobExit(t)
  BY <1>3, JobExitType
<1>4. CASE Over \/ UNCHANGED vars
  BY <1>4, StutterType DEF Over
<1>. QED  BY <1>1, <1>2, <1>3, <1>4 DEF Next

\* Every variable keeps its type, whatever the makefile and the options.
THEOREM TypeCorrect == Spec => []TypeOK
<1>1. TypeInv => TypeOK
  BY DEF TypeInv
<1>. QED  BY <1>1, InitType, TypeStep, PTL DEF Spec
-----------------------------------------------------------------------------
(* parallel_process_cnt *)

\* The jobs of a list of entries; Jobs are those of running_list.
JobsOf(list) == {i \in DOMAIN list : list[i].st = "running"}

\* Without the semaphore the count never exceeds -j.
Bounded == AdjustMode /= "M2" =>
              job_adjust_mode /= "M2" /\ process_cnt <= PmakeMaxJobs

CountInv == /\ JobsCounted
            /\ pc = "serial" => process_cnt = 0
            /\ Bounded

IInv == TypeInv /\ CountInv
-----------------------------------------------------------------------------
(* What the operations on the list do to the number of jobs *)

LEMMA JobsFinite ==
  ASSUME NEW list \in Seq(Entry)
  PROVE  IsFiniteSet(JobsOf(list)) /\ Cardinality(JobsOf(list)) \in Nat
<1>1. DOMAIN list = 1..Len(list) /\ Len(list) \in Nat
  BY LenProperties
<1>2. IsFiniteSet(1..Len(list))
  BY <1>1, FS_Interval
<1>. QED  BY <1>1, <1>2, FS_Subset, FS_CardinalityType DEF JobsOf

LEMMA AppendCount ==
  ASSUME NEW list \in Seq(Entry), NEW e \in Entry
  PROVE  Cardinality(JobsOf(Append(list, e))) =
           IF e.st = "running" THEN Cardinality(JobsOf(list)) + 1
                               ELSE Cardinality(JobsOf(list))
<1>. DEFINE n == Len(list) + 1
<1>1. /\ Len(list) \in Nat
      /\ DOMAIN list = 1..Len(list)
      /\ DOMAIN Append(list, e) = 1..n
      /\ \A j \in 1..Len(list) : Append(list, e)[j] = list[j]
      /\ Append(list, e)[n] = e
  BY AppendProperties, LenProperties
<1>2. JobsOf(Append(list, e)) = IF e.st = "running" THEN JobsOf(list) \cup {n}
                                                    ELSE JobsOf(list)
  BY <1>1 DEF JobsOf
<1>3. n \notin JobsOf(list)
  BY <1>1 DEF JobsOf
<1>. QED  BY <1>2, <1>3, JobsFinite, FS_AddElement

\* The entries behind i move up: those that run are as many as before.
LEMMA UnlinkCount ==
  ASSUME running_list \in Seq(Entry), NEW i \in DOMAIN running_list,
         running_list[i].st /= "running"
  PROVE  Cardinality(JobsOf(Unlink(i))) = Cardinality(JobsOf(running_list))
<1>. DEFINE n == Len(running_list)
            S == JobsOf(running_list)
            T == JobsOf(Unlink(i))
            move == [j \in S |-> IF j < i THEN j ELSE j - 1]
<1>1. /\ n \in Nat /\ DOMAIN running_list = 1..n /\ i \in 1..n
      /\ DOMAIN Unlink(i) = 1..(n - 1)
      /\ \A j \in 1..(n - 1) :
            Unlink(i)[j] = running_list[IF j < i THEN j ELSE j + 1]
  BY UnlinkType, LenProperties
<1>2. S \subseteq 1..n /\ i \notin S
  BY <1>1 DEF JobsOf
<1>3. ASSUME NEW j \in S PROVE move[j] \in T
  <2>1. j \in 1..n /\ j /= i /\ running_list[j].st = "running"
    BY <1>1, <1>2 DEF JobsOf
  <2>2. CASE j < i
    BY <1>1, <2>1, <2>2 DEF JobsOf
  <2>3. CASE j > i
    <3>1. j - 1 \in 1..(n - 1) /\ ~(j - 1 < i) /\ (j - 1) + 1 = j
      BY <1>1, <2>1, <2>3
    <3>2. Unlink(i)[j - 1] = running_list[j]
      BY <1>1, <3>1
    <3>. QED  BY <1>1, <2>1, <2>3, <3>1, <3>2 DEF JobsOf
  <2>. QED  BY <1>1, <2>1, <2>2, <2>3
<1>4. ASSUME NEW a \in S, NEW b \in S, move[a] = move[b] PROVE a = b
  BY <1>1, <1>2, <1>4
<1>5. ASSUME NEW k \in T PROVE \E j \in S : move[j] = k
  <2>1. k \in 1..(n - 1) /\ Unlink(i)[k].st = "running"
    BY <1>1 DEF JobsOf
  <2>2. CASE k < i
    <3>1. k \in S
      BY <1>1, <2>1, <2>2 DEF JobsOf
    <3>. QED  BY <2>2, <3>1
  <2>3. CASE ~(k < i)
    <3>1. k + 1 \in 1..n /\ Unlink(i)[k] = running_list[k + 1]
      BY <1>1, <2>1, <2>3
    <3>2. k + 1 \in S
      BY <1>1, <2>1, <3>1 DEF JobsOf
    <3>3. move[k + 1] = k
      BY <1>1, <2>1, <2>3, <3>2
    <3>. QED  BY <3>2, <3>3
  <2>. QED  BY <2>2, <2>3
<1>6. ExistsBijection(S, T)
  <2>1. move \in [S -> T]
    BY <1>3
  <2>. HIDE DEF S, T, move
  <2>2. move \in Bijection(S, T)
    BY <1>4, <1>5, <2>1, Fun_IsBij
  <2>. QED  BY <2>2 DEF ExistsBijection
<1>. QED  BY <1>6, JobsFinite, FS_Bijection

LEMMA CountIsOfList == JobsCounted <=> process_cnt = Cardinality(JobsOf(running_list))
BY DEF JobsCounted, Jobs, JobsOf

\* A step that leaves the number of jobs alone.
LEMMA SameCount ==
  ASSUME CountInv, pc' = "serial" => process_cnt = 0,
         UNCHANGED <<process_cnt, job_adjust_mode>>,
         Cardinality(JobsOf(running_list')) = Cardinality(JobsOf(running_list))
  PROVE  CountInv'
<1>1. JobsCounted'
  BY DEF CountInv, JobsCounted, Jobs, JobsOf
<1>. QED  BY <1>1 DEF CountInv, Bounded

\* A target is put on the list, or not, and no job is started.
LEMMA ListedCount ==
  ASSUME TypeOK, NEW t \in Target, NEW kind \in {"pending", "serial"},
         NEW again \in BOOLEAN, NEW list \in Seq(Entry)
  PROVE  Cardinality(JobsOf(Append(list, Waiting(t, kind, again)))) =
           Cardinality(JobsOf(list))
<1>. DEFINE e == Waiting(t, kind, again)
<1>1. e \in Entry
  BY WaitingType
<1>2. e.st /= "running"
  BY DEF Waiting
<1>. QED  BY <1>1, <1>2, AppendCount

LEMMA BuildAloneCount ==
  ASSUME TypeOK, stack /= <<>>, CountInv, BuildAlone,
         UNCHANGED <<process_cnt, job_adjust_mode>>
  PROVE  CountInv'
<1>. DEFINE t == Top.target
<1>1. t \in Target
  BY TopType DEF TypeOK, Frame
<1>2. CASE process_cnt = 0
  BY <1>2, SameCount DEF BuildAlone, JobsOf
<1>3. CASE process_cnt /= 0
  <2>1. running_list' = Append(running_list, Waiting(t, "serial", FALSE))
    BY <1>3 DEF BuildAlone
  <2>2. Cardinality(JobsOf(running_list')) = Cardinality(JobsOf(running_list))
    BY <1>1, <2>1, ListedCount DEF TypeOK
  <2>3. pc' /= "serial"
    BY <1>3 DEF BuildAlone, Returns
  <2>. QED  BY <2>2, <2>3, SameCount
<1>. QED  BY <1>2, <1>3

LEMMA StartJobCount ==
  ASSUME TypeOK, stack /= <<>>, CountInv, StartJob,
         AdjustMode /= "M2" => process_cnt < PmakeMaxJobs
  PROVE  CountInv'
<1>1. Job(Top) \in Entry /\ Job(Top).st = "running"
  <2>1. Top \in Frame
    BY TopType DEF TypeOK
  <2>. QED  BY <2>1, JobType DEF Job, Waiting
<1>2. running_list' = Append(running_list, Job(Top)) /\ process_cnt' = process_cnt + 1
  BY DEF StartJob
<1>3. JobsCounted'
  <2>1. Cardinality(JobsOf(running_list')) = Cardinality(JobsOf(running_list)) + 1
    BY <1>1, <1>2, AppendCount DEF TypeOK, JobsOf
  <2>. QED  BY <1>2, <2>1 DEF CountInv, JobsCounted, Jobs, JobsOf
<1>4. Bounded'
  BY <1>2, OptionAssumption DEF StartJob, CountInv, Bounded, TypeOK
<1>5. pc' /= "serial"
  BY DEF StartJob, Returns
<1>. QED  BY <1>3, <1>4, <1>5 DEF CountInv
-----------------------------------------------------------------------------
(* The steps of make *)

\* The steps that do not touch the list: they never start a serial build.
LEMMA QuietCount ==
  ASSUME TypeOK, CountInv,
         \/ EnterFull \/ DonameCheck \/ ScanDependency \/ NoCommand
         \/ CommandNotRun \/ SerialExit \/ FinishChildrenReturns
         \/ FinishRunning \/ MakeTargets \/ Drain
  PROVE  CountInv'
<1>1. UNCHANGED listVars
  BY DEF EnterFull, DonameCheck, ScanDependency, NoCommand, CommandNotRun,
         SerialExit, FinishChildrenReturns, FinishRunning, MakeTargets, Drain
<1>2. CASE EnterFull \/ ScanDependency \/ FinishChildrenReturns \/ FinishRunning
           \/ MakeTargets \/ Drain
  <2>1. pc' /= "serial"
    BY <1>2 DEF EnterFull, ScanDependency, FinishChildrenReturns, FinishRunning,
                MakeTargets, Drain, Returns, TypeOK
  <2>. QED  BY <1>1, <2>1, SameCount DEF listVars, JobsOf
<1>3. CASE DonameCheck
  <2>1. pc' /= "serial"
    BY <1>3 DEF DonameCheck, PassOn, Fatal, TypeOK
  <2>. QED  BY <1>1, <2>1, SameCount DEF listVars, JobsOf
<1>4. CASE NoCommand \/ CommandNotRun \/ SerialExit
  <2>1. pc' /= "serial"
    BY <1>4 DEF NoCommand, CommandNotRun, SerialExit, Conclude, Returns, Fatal
  <2>. QED  BY <1>1, <2>1, SameCount DEF listVars, JobsOf
<1>. QED  BY <1>2, <1>3, <1>4

\* A target waits for its group, or for its dependencies.
LEMMA PendingCount ==
  ASSUME TypeOK, Activated, CountInv, EnterEarly \/ AddPending
  PROVE  CountInv'
<1>. DEFINE t == Top.target
<1>1. t \in Target
  <2>1. stack \in Seq(Frame) /\ stack /= <<>>
    BY DEF EnterEarly, AddPending, Scanned, Activated, TypeOK
  <2>. QED  BY <2>1, TopType DEF Frame
<1>2. running_list' \in {running_list, Append(running_list, Waiting(t, "pending", FALSE))}
  BY DEF EnterEarly, AddPending
<1>3. Cardinality(JobsOf(running_list')) = Cardinality(JobsOf(running_list))
  <2>1. Cardinality(JobsOf(Append(running_list, Waiting(t, "pending", FALSE)))) =
          Cardinality(JobsOf(running_list))
    BY <1>1, ListedCount DEF TypeOK
  <2>. QED  BY <1>2, <2>1
<1>4. pc' /= "serial" /\ UNCHANGED <<process_cnt, job_adjust_mode>>
  BY DEF EnterEarly, AddPending, Returns
<1>. QED  BY <1>3, <1>4, SameCount

LEMMA RunCommandCount ==
  ASSUME TypeOK, Activated, CountInv, RunCommand
  PROVE  CountInv'
<1>1. stack /= <<>>
  BY DEF RunCommand, Scanned, Activated
<1>2. CASE BuildAlone
  BY <1>1, <1>2, BuildAloneCount DEF RunCommand
<1>3. CASE pc' = "slots" /\ UNCHANGED running_list
  BY <1>3, SameCount DEF RunCommand, JobsOf
<1>. QED  BY <1>2, <1>3 DEF RunCommand

LEMMA DistributeProcessCount ==
  ASSUME TypeOK, Activated, CountInv, DistributeProcess
  PROVE  CountInv'
<1>1. stack /= <<>>
  BY DEF DistributeProcess, Activated
<1>2. CASE StartJob /\ (job_adjust_mode /= "M2" => process_cnt < PmakeMaxJobs)
  BY <1>1, <1>2, StartJobCount DEF CountInv, Bounded
<1>3. CASE NoSlot
  BY <1>1, <1>3, BuildAloneCount DEF NoSlot
<1>4. CASE /\ pc' /= "serial"
           /\ UNCHANGED <<running_list, process_cnt, job_adjust_mode>>
  BY <1>4, SameCount DEF JobsOf
<1>5. CASE AdjustError /\ job_adjust_mode = "M2"
  BY <1>5 DEF AdjustError, CountInv, Bounded, JobsCounted, Jobs
<1>6. \/ StartJob /\ (job_adjust_mode /= "M2" => process_cnt < PmakeMaxJobs)
      \/ NoSlot
      \/ AdjustError /\ job_adjust_mode = "M2"
      \/ AwaitFor("slots") \/ AwaitFor("retry")
      \/ pc' = "slots" /\ UNCHANGED <<running_list, process_cnt, job_adjust_mode>>
  <2>1. \A limit \in AdjustedLimits : limit \in Int /\ limit <= PmakeMaxJobs
    BY OptionAssumption DEF AdjustedLimits
  <2>2. process_cnt \in Int /\ PmakeMaxJobs \in Int
    BY OptionAssumption DEF TypeOK
  <2>3. ASSUME NEW limit \in AdjustedLimits, ~(process_cnt >= limit)
        PROVE  process_cnt < PmakeMaxJobs
    BY <2>1, <2>2, <2>3
  <2>. QED  BY <2>3 DEF DistributeProcess
<1>. QED  BY <1>2, <1>3, <1>4, <1>5, <1>6 DEF AwaitFor
-----------------------------------------------------------------------------
(* The end of jobs, and what waits on the list *)

\* A job that has ended still counts until await_parallel() reaps it.
LEMMA JobExitCount ==
  ASSUME TypeOK, CountInv, NEW t \in Target, JobExit(t)
  PROVE  CountInv'
<1>1. PICK i \in DOMAIN running_list, exit \in {"ok", "failed"}, out \in BOOLEAN :
        /\ running_list[i].st = "running"
        /\ running_list' = [running_list EXCEPT
              ![i] = [running_list[i] EXCEPT !.exit = exit, !.out = out,
                                             !.time = RecipeTime(t)]]
  BY DEF JobExit
<1>. DEFINE e == [running_list[i] EXCEPT !.exit = exit, !.out = out,
                                         !.time = RecipeTime(t)]
<1>2. running_list[i] \in Entry
  BY ElementOfSeq, LenProperties DEF TypeOK
<1>3. e.st = "running"
  BY <1>1, <1>2 DEF Entry
<1>4. running_list' = [running_list EXCEPT ![i] = e]
  BY <1>1
<1>5. JobsOf(running_list') = JobsOf(running_list)
  <2>. HIDE DEF e
  <2>1. /\ DOMAIN running_list' = DOMAIN running_list
        /\ \A j \in DOMAIN running_list :
             running_list'[j] = IF j = i THEN e ELSE running_list[j]
    BY <1>4 DEF TypeOK
  <2>. QED  BY <1>1, <1>3, <2>1 DEF JobsOf
<1>6. UNCHANGED <<process_cnt, job_adjust_mode, pc>>
  BY DEF JobExit
<1>. QED  BY <1>5, <1>6, SameCount DEF CountInv

\* Reaped processes leave the count and their entries stop running together.
LEMMA AwaitParallelCount ==
  ASSUME TypeOK, CountInv, AwaitParallel
  PROVE  CountInv'
<1>1. Exited \subseteq JobsOf(running_list)
  BY DEF Exited, JobsOf
<1>2. /\ DOMAIN running_list' = DOMAIN running_list
      /\ \A i \in DOMAIN running_list :
           /\ i \in Exited => running_list'[i].st = running_list[i].exit
           /\ i \notin Exited => running_list'[i] = running_list[i]
  <2>1. \A i \in DOMAIN running_list : running_list[i] \in Entry
    BY ElementOfSeq, LenProperties DEF TypeOK
  <2>. QED  BY <2>1 DEF AwaitParallel, Entry
<1>3. \A i \in Exited : running_list[i].exit /= "running"
  <2>1. \A i \in Exited : running_list[i] \in Entry
    BY ElementOfSeq, LenProperties DEF TypeOK, Exited
  <2>. QED  BY <2>1 DEF Entry
<1>4. JobsOf(running_list') = JobsOf(running_list) \ Exited
  BY <1>1, <1>2, <1>3 DEF JobsOf
<1>5. /\ Cardinality(JobsOf(running_list')) =
           Cardinality(JobsOf(running_list)) - Cardinality(Exited)
      /\ Cardinality(JobsOf(running_list)) \in Nat /\ Cardinality(Exited) \in Nat
  <2>1. IsFiniteSet(JobsOf(running_list)) /\ Cardinality(JobsOf(running_list)) \in Nat
    BY JobsFinite DEF TypeOK
  <2>2. JobsOf(running_list) \cap Exited = Exited
    BY <1>1
  <2>. QED  BY <1>1, <1>4, <2>1, <2>2, FS_Difference, FS_Subset, FS_CardinalityType
<1>6. process_cnt' = process_cnt - Cardinality(Exited)
  BY DEF AwaitParallel
<1>7. JobsCounted'
  <2>1. process_cnt = Cardinality(JobsOf(running_list))
    BY DEF CountInv, JobsCounted, Jobs, JobsOf
  <2>2. process_cnt' = Cardinality(JobsOf(running_list'))
    BY <1>5, <1>6, <2>1
  <2>. QED  BY <2>2 DEF JobsCounted, Jobs, JobsOf
<1>8. Bounded'
  <2>1. process_cnt' <= process_cnt /\ process_cnt' \in Int
    BY <1>5, <1>6 DEF TypeOK
  <2>2. job_adjust_mode' \in {job_adjust_mode, "NONE"}
    BY DEF AwaitParallel
  <2>. QED  BY <2>1, <2>2, OptionAssumption DEF CountInv, Bounded, TypeOK
<1>9. pc' /= "serial"
  BY DEF AwaitParallel
<1>. QED  BY <1>7, <1>8, <1>9 DEF CountInv

\* An entry that runs no more leaves the list; its target may wait again.
LEMMA FinishChildCount ==
  ASSUME TypeOK, CountInv, FinishChild
  PROVE  CountInv'
<1>1. PICK i \in Finished :
        /\ \/ running_list' = Unlink(i)
           \/ \E ds : FinishDoname(running_list[i], ds, Unlink(i))
        /\ pc' /= "serial"
        /\ UNCHANGED <<process_cnt, job_adjust_mode>>
  <2>1. PICK i \in Finished :
          LET e == running_list[i] IN
          /\ \/ running_list' = Unlink(i)
             \/ \E ds \in Reported(e.target, deps[e.target]) :
                   FinishDoname(e, ds, Unlink(i))
          /\ pc = "finish"
          /\ Fatal \/ UNCHANGED pc
          /\ UNCHANGED <<process_cnt, job_adjust_mode>>
    BY Zenon DEF FinishChild
  <2>. QED  BY <2>1 DEF Fatal
<1>2. i \in DOMAIN running_list /\ running_list[i].st /= "running"
  BY DEF Finished
<1>3. Cardinality(JobsOf(Unlink(i))) = Cardinality(JobsOf(running_list))
  BY <1>2, UnlinkCount DEF TypeOK
<1>4. Unlink(i) \in Seq(Entry)
  BY <1>2, UnlinkType DEF TypeOK
<1>5. running_list[i].target \in Target
  <2>1. running_list[i] \in Entry
    BY <1>2, ElementOfSeq, LenProperties DEF TypeOK
  <2>. QED  BY <2>1 DEF Entry
<1>6. running_list' \in {Unlink(i), Append(Unlink(i),
                           Waiting(running_list[i].target, "pending", TRUE))}
  BY <1>1 DEF FinishDoname
<1>7. Cardinality(JobsOf(running_list')) = Cardinality(JobsOf(running_list))
  <2>1. Cardinality(JobsOf(Append(Unlink(i),
                              Waiting(running_list[i].target, "pending", TRUE)))) =
          Cardinality(JobsOf(Unlink(i)))
    BY <1>4, <1>5, ListedCount
  <2>. QED  BY <1>3, <1>6, <2>1
<1>. QED  BY <1>1, <1>7, SameCount

LEMMA ProcessNextCount ==
  ASSUME TypeOK, CountInv, NextSerial \/ NextPending
  PROVE  CountInv'
<1>1. /\ \/ UNCHANGED running_list
         \/ \E i \in Serials \cup Startable : running_list' = Unlink(i)
      /\ pc' /= "serial"
      /\ UNCHANGED <<process_cnt, job_adjust_mode>>
  BY DEF NextSerial, NextPending, Resume, Fatal
<1>2. \A i \in Serials \cup Startable :
         i \in DOMAIN running_list /\ running_list[i].st /= "running"
  BY DEF Serials, Startable
<1>3. Cardinality(JobsOf(running_list')) = Cardinality(JobsOf(running_list))
  BY <1>1, <1>2, UnlinkCount DEF TypeOK
<1>. QED  BY <1>1, <1>3, SameCount
-----------------------------------------------------------------------------
LEMMA InitCount == Init => IInv
<1>. SUFFICES ASSUME Init PROVE IInv
  OBVIOUS
<1>1. JobsOf(<<>>) = {}
  BY DEF JobsOf
<1>2. JobsCounted
  BY <1>1, FS_EmptySet DEF Init, JobsCounted, Jobs, JobsOf
<1>3. Bounded
  BY OptionAssumption DEF Init, Bounded
<1>. QED  BY <1>2, <1>3, InitType DEF Init, IInv, CountInv

LEMMA CountStep == IInv /\ [Next]_vars => IInv'
<1>. SUFFICES ASSUME TypeInv, TypeOK, Activated, CountInv, [Next]_vars PROVE IInv'
  BY DEF IInv, TypeInv
<1>1. TypeInv'
  BY TypeStep
<1>2. CASE MakeStep
  BY <1>2, QuietCount, PendingCount, RunCommandCount, DistributeProcessCount,
     AwaitParallelCount, FinishChildCount, ProcessNextCount, <1>1 DEF MakeStep, IInv
<1>3. CASE SerialExit
  BY <1>1, <1>3, QuietCount DEF IInv
<1>4. CASE \E t \in Target : JobExit(t)
  BY <1>1, <1>4, JobExitCount DEF IInv
<1>5. CASE Over \/ UNCHANGED vars
  <2>1. UNCHANGED <<running_list, process_cnt, job_adjust_mode, pc>>
    BY <1>5 DEF Over, vars, listVars
  <2>. QED  BY <1>1, <2>1, SameCount DEF CountInv, IInv
<1>. QED  BY <1>2, <1>3, <1>4, <1>5 DEF Next

LEMMA Counted == Spec => []IInv
BY InitCount, CountStep, PTL DEF Spec

\* parallel_process_cnt (parallel.cc 407, 1423) is the number of jobs, with
\* every graph, also one with cycles, and with errors in the build.
THEOREM JobsAreCounted == Spec => []JobsCounted
<1>1. IInv => JobsCounted
  BY DEF IInv, CountInv
<1>. QED  BY <1>1, Counted, PTL

\* Without the semaphore distribute_process() (parallel.cc 358) never runs
\* more than -j jobs, whatever the load adjustment says.
THEOREM JobsAreLimited == Spec => []JobLimit
<1>1. IInv => JobLimit
  BY OptionAssumption DEF IInv, CountInv, JobsCounted, Bounded, JobLimit
<1>. QED  BY <1>1, Counted, PTL

\* A target that must be built alone is: when execute_serial() runs its
\* commands no job runs (doname.cc 1650, parallel.cc 1003).
THEOREM SerialIsAlone == Spec => []SerialAlone
<1>1. ASSUME IInv PROVE SerialAlone
  <2>1. IsFiniteSet(Jobs)
    BY <1>1, JobsFinite DEF IInv, TypeInv, TypeOK, Jobs, JobsOf
  <2>. QED  BY <1>1, <2>1, FS_EmptySet
            DEF IInv, CountInv, JobsCounted, SerialAlone
<1>. QED  BY <1>1, Counted, PTL
-----------------------------------------------------------------------------
(* The running list *)

\* The targets with an entry on a list.
Waits(list, t) == \E i \in DOMAIN list : list[i].target = t
Once(list)     == \A i, j \in DOMAIN list : list[i].target = list[j].target => i = j

\* The activations of doname() that are making their target: all those below
\* the top, and the top one from check_dependencies() to run_command().
TopIsMade ==
    \/ pc \in {"deps", "serial", "slots", "retry"}
    \/ pc \in {"await", "finish"} /\ back \in {"slots", "retry"}
Making == {k \in DOMAIN stack : k < Len(stack) \/ TopIsMade}

InDoname == TopIsMade \/ pc \in {"enter", "check"}

\* fatal() has been called.
Draining == \/ pc \in {"drain", "exit"}
            \/ pc \in {"await", "finish"} /\ back = "drain"

FatalInv == fatal_in_progress <=> Draining

\* Exactly the targets in state build_running are on the list.
ListInv == /\ Once(running_list)
           /\ \A t \in Target : state[t] = "running" <=> Waits(running_list, t)

\* No target is made by two activations, or by one while it is on the list.
MakingInv == \A k \in Making :
    /\ state[stack[k].target] = "in_progress"
    /\ stack[k].result \in {"dont_know", "failed"}
    /\ \A l \in Making : stack[l].target = stack[k].target => l = k

\* build_pending is the state of a target only on its way into doname().
PendingInv == \A t \in Target :
    state[t] = "pending" => pc = "enter" /\ t = Top.target

BuildInv == ListInv /\ MakingInv /\ PendingInv

\* process_next() looks at a list with entries.
QuietInv == /\ quiescent /\ pc \in {"next1", "next2"} => running_list /= <<>>
            /\ quiescent /\ InDoname => caller = "goals"

\* No target depends on itself: neither by what the makefiles say nor by what
\* the recipes report.
Lower(rank, t, list) == \A j \in DOMAIN list :
    list[j].name /= Wait => rank[list[j].name] < rank[t]
Descends(rank, ds) == \A t \in Target : Lower(rank, t, ds[t])
Ranks(rank) ==
    /\ rank \in [Target -> Nat]
    /\ \A m \in Makefiles : Descends(rank, m)
    /\ \A t \in Target : \A u \in Reports[t] : rank[u] < rank[t]
Acyclic == \E rank : Ranks(rank)
Rank    == CHOOSE rank : Ranks(rank)

NoGroups == \A t \in Target : Group[t] = {}

Chain == \A k, l \in DOMAIN stack :
    k < l => Rank[stack[l].target] < Rank[stack[k].target]

OrderInv == Descends(Rank, deps) /\ Chain

\* The output file of every job is there; make waits for all jobs to end.
EndInv == /\ \A i \in DOMAIN running_list : running_list[i].out
          /\ pc = "done" => running_list = <<>>
          /\ pc = "exit" => process_cnt = 0

RunningInv ==
    /\ IInv
    /\ FatalInv
    /\ QuietInv
    /\ Acyclic => OrderInv
    /\ Acyclic \/ NoGroups => (~fatal_in_progress => BuildInv)
    /\ MayLose = {} => EndInv
-----------------------------------------------------------------------------
(* The list *)

LEMMA AppendWaits ==
  ASSUME NEW list \in Seq(Entry), NEW e \in Entry, Once(list), ~Waits(list, e.target)
  PROVE  /\ Once(Append(list, e))
         /\ \A t : Waits(Append(list, e), t) <=> Waits(list, t) \/ t = e.target
<1>. DEFINE n == Len(list) + 1
<1>1. /\ Len(list) \in Nat
      /\ DOMAIN list = 1..Len(list)
      /\ DOMAIN Append(list, e) = 1..n
      /\ \A j \in 1..Len(list) : Append(list, e)[j] = list[j]
      /\ Append(list, e)[n] = e
  BY AppendProperties, LenProperties
<1>2. \A j \in 1..n : j = n \/ j \in 1..Len(list)
  BY <1>1
<1>3. n \in 1..n /\ \A j \in 1..Len(list) : j \in 1..n
  BY <1>1
<1>. HIDE DEF n
<1>4. Once(Append(list, e))
  BY <1>1, <1>2 DEF Once, Waits
<1>5. ASSUME NEW t PROVE Waits(Append(list, e), t) <=> Waits(list, t) \/ t = e.target
  BY <1>1, <1>2, <1>3 DEF Waits
<1>. QED  BY <1>4, <1>5

LEMMA UnlinkWaits ==
  ASSUME running_list \in Seq(Entry), NEW i \in DOMAIN running_list,
         Once(running_list)
  PROVE  /\ Once(Unlink(i))
         /\ \A t : Waits(Unlink(i), t) <=>
                     Waits(running_list, t) /\ t /= running_list[i].target
<1>. DEFINE n == Len(running_list)
            from(j) == IF j < i THEN j ELSE j + 1
<1>1. /\ n \in Nat /\ DOMAIN running_list = 1..n /\ i \in 1..n
      /\ DOMAIN Unlink(i) = 1..(n - 1)
      /\ \A j \in 1..(n - 1) : Unlink(i)[j] = running_list[from(j)]
  BY UnlinkType, LenProperties
<1>2. \A j \in 1..(n - 1) : from(j) \in 1..n /\ from(j) /= i
  BY <1>1
<1>3. \A j, k \in 1..(n - 1) : from(j) = from(k) => j = k
  BY <1>1
<1>4. \A k \in 1..n : k /= i => \E j \in 1..(n - 1) : from(j) = k
  <2>. TAKE k \in 1..n
  <2>1. CASE k < i
    <3>1. k \in 1..(n - 1) /\ from(k) = k
      BY <1>1, <2>1
    <3>. QED  BY <3>1
  <2>2. CASE k > i
    <3>1. k - 1 \in 1..(n - 1) /\ from(k - 1) = k
      BY <1>1, <2>2
    <3>. QED  BY <3>1
  <2>. QED  BY <1>1, <2>1, <2>2
<1>. HIDE DEF from, n
<1>5. Once(Unlink(i))
  BY <1>1, <1>2, <1>3 DEF Once
<1>6. ASSUME NEW t
      PROVE  Waits(Unlink(i), t) <=>
               Waits(running_list, t) /\ t /= running_list[i].target
  <2>1. ASSUME Waits(Unlink(i), t)
        PROVE  Waits(running_list, t) /\ t /= running_list[i].target
    <3>1. PICK j \in 1..(n - 1) : running_list[from(j)].target = t
      BY <1>1, <2>1 DEF Waits
    <3>2. from(j) \in 1..n /\ from(j) /= i
      BY <1>2
    <3>. QED  BY <1>1, <3>1, <3>2 DEF Waits, Once
  <2>2. ASSUME Waits(running_list, t), t /= running_list[i].target
        PROVE  Waits(Unlink(i), t)
    <3>1. PICK k \in 1..n : running_list[k].target = t
      BY <1>1, <2>2 DEF Waits
    <3>2. PICK j \in 1..(n - 1) : from(j) = k
      BY <1>4, <2>2, <3>1
    <3>. QED  BY <1>1, <3>1, <3>2 DEF Waits
  <2>. QED  BY <2>1, <2>2
<1>. QED  BY <1>5, <1>6

\* A target that is not on the list is put on it.
LEMMA PutOnList ==
  ASSUME TypeOK, ListInv, NEW e \in Entry, state[e.target] /= "running",
         running_list' = Append(running_list, e),
         state' = [state EXCEPT ![e.target] = "running"]
  PROVE  ListInv'
<1>1. e.target \in Target
  BY DEF Entry
<1>2. ~Waits(running_list, e.target)
  BY <1>1 DEF ListInv
<1>3. /\ Once(running_list')
      /\ \A t : Waits(running_list', t) <=> Waits(running_list, t) \/ t = e.target
  BY <1>2, AppendWaits DEF ListInv, TypeOK
<1>. QED  BY <1>1, <1>3 DEF ListInv, TypeOK

\* An entry leaves the list, and its target the state build_running.
LEMMA TakeOffList ==
  ASSUME TypeOK, ListInv, NEW i \in DOMAIN running_list, NEW s, s /= "running",
         running_list' = Unlink(i),
         state' = [state EXCEPT ![running_list[i].target] = s]
  PROVE  ListInv'
<1>1. running_list[i].target \in Target
  <2>1. running_list[i] \in Entry
    BY ElementOfSeq, LenProperties DEF TypeOK
  <2>. QED  BY <2>1 DEF Entry
<1>2. /\ Once(running_list')
      /\ \A t : Waits(running_list', t) <=>
                  Waits(running_list, t) /\ t /= running_list[i].target
  BY UnlinkWaits DEF ListInv, TypeOK
<1>. QED  BY <1>1, <1>2 DEF ListInv, TypeOK

\* The list is left alone and so are the targets in state build_running.
LEMMA SameList ==
  ASSUME TypeOK, ListInv, UNCHANGED running_list, NEW t \in Target, NEW s,
         state[t] /= "running", s /= "running",
         state' \in {state, [state EXCEPT ![t] = s]}
  PROVE  ListInv'
<1>1. state \in [Target -> Doname]
  BY DEF TypeOK
<1>2. CASE state' = state
  BY <1>2 DEF ListInv
<1>3. CASE state' = [state EXCEPT ![t] = s]
  <2>1. \A u \in Target : state'[u] = IF u = t THEN s ELSE state[u]
    BY <1>1, <1>3
  <2>2. \A u \in Target : state'[u] = "running" <=> state[u] = "running"
    BY <2>1
  <2>. QED  BY <2>2 DEF ListInv
<1>. QED  BY <1>2, <1>3
-----------------------------------------------------------------------------
(* The stack *)

LEMMA AsTopIs ==
  ASSUME stack \in Seq(Frame), stack /= <<>>, NEW f
  PROVE  /\ Len(stack) \in Nat \ {0} /\ DOMAIN stack = 1..Len(stack)
         /\ Len(AsTop(f)) = Len(stack) /\ DOMAIN AsTop(f) = DOMAIN stack
         /\ AsTop(f)[Len(stack)] = f
         /\ \A k \in 1..(Len(stack) - 1) : AsTop(f)[k] = stack[k]
<1>1. Len(stack) \in Nat \ {0} /\ DOMAIN stack = 1..Len(stack)
  BY EmptySeq, LenProperties
<1>2. /\ Below \in Seq(Frame) /\ Len(Below) = Len(stack) - 1
      /\ \A k \in 1..(Len(stack) - 1) : Below[k] = stack[k]
  <2>1. Len(stack) - 1 \in 0..Len(stack)
    BY <1>1
  <2>. QED  BY <2>1, PrefixType DEF Below
<1>. DEFINE S == Frame \cup {f}
<1>3. Below \in Seq(S)
  <2>1. \A s \in Seq(Frame) : s \in Seq(S)
    <3>1. Frame \subseteq S
      OBVIOUS
    <3>. HIDE DEF S
    <3>. QED  BY <3>1, SeqDef
  <2>. QED  BY <1>2, <2>1
<1>4. /\ Append(Below, f) \in Seq(S)
      /\ Len(Append(Below, f)) = Len(Below) + 1
      /\ \A k \in 1..Len(Below) : Append(Below, f)[k] = Below[k]
      /\ Append(Below, f)[Len(Below) + 1] = f
  <2>1. f \in S
    OBVIOUS
  <2>. HIDE DEF S
  <2>. QED  BY <1>3, <2>1, AppendProperties
<1>5. Len(Below) + 1 = Len(stack)
  BY <1>1, <1>2
<1>6. DOMAIN Append(Below, f) = 1..Len(Append(Below, f))
  <2>. HIDE DEF S
  <2>. QED  BY <1>4, LenProperties
<1>. HIDE DEF S
<1>. QED  BY <1>1, <1>2, <1>4, <1>5, <1>6 DEF AsTop

LEMMA SingletonIs ==
  ASSUME NEW f
  PROVE  Len(<<f>>) = 1 /\ DOMAIN <<f>> = {1} /\ <<f>>[1] = f
OBVIOUS
-----------------------------------------------------------------------------
(* fatal() *)

\* The steps that leave what fatal() is about alone.
LEMMA FatalStep ==
  ASSUME TypeOK, FatalInv, [Next]_vars
  PROVE  FatalInv' /\ (fatal_in_progress => fatal_in_progress')
<1>1. CASE EnterEarly \/ EnterFull \/ AddPending \/ RunCommand \/ ScanDependency
  BY <1>1 DEF EnterEarly, EnterFull, AddPending, RunCommand, ScanDependency,
     Scanned, BuildAlone, Returns, errorVars, FatalInv, Draining
<1>2. CASE DonameCheck
  BY <1>2 DEF DonameCheck, PassOn, Fatal, errorVars, FatalInv, Draining, TypeOK
<1>3. CASE NoCommand \/ CommandNotRun \/ SerialExit
  BY <1>3 DEF NoCommand, CommandNotRun, SerialExit, Conclude, Returns, Scanned,
     Fatal, errorVars, FatalInv, Draining
<1>4. CASE DistributeProcess
  BY <1>4 DEF DistributeProcess, AwaitFor, StartJob, NoSlot, BuildAlone, AdjustError,
     Returns, errorVars, FatalInv, Draining
<1>5. CASE AwaitParallel \/ FinishChildrenReturns \/ FinishRunning \/ Drain
  BY <1>5 DEF AwaitParallel, FinishChildrenReturns, FinishRunning, Drain,
     errorVars, FatalInv, Draining, TypeOK
<1>6. CASE FinishChild
  <2>1. /\ pc = "finish" /\ UNCHANGED back
        /\ Fatal \/ UNCHANGED <<pc, fatal_in_progress>>
    BY <1>6, Zenon DEF FinishChild
  <2>. QED  BY <2>1 DEF Fatal, FatalInv, Draining
<1>7. CASE NextSerial \/ NextPending
  BY <1>7 DEF NextSerial, NextPending, Resume, Fatal, errorVars, FatalInv, Draining
<1>8. CASE MakeTargets
  BY <1>8 DEF MakeTargets, errorVars, FatalInv, Draining
<1>9. CASE Over \/ UNCHANGED vars \/ \E t \in Target : JobExit(t)
  BY <1>9 DEF Over, vars, JobExit, errorVars, FatalInv, Draining
<1>. QED  BY <1>1, <1>2, <1>3, <1>4, <1>5, <1>6, <1>7, <1>8, <1>9 DEF Next, MakeStep
-----------------------------------------------------------------------------
(* The activations that are making their target *)

\* An activation that goes on making its target, with the same target.
Keeps(k) == /\ k \in Making /\ k \in DOMAIN stack
            /\ stack'[k].target = stack[k].target
            /\ stack'[k].result \in {"dont_know", "failed"}
            /\ state'[stack[k].target] = "in_progress"

LEMMA MakingKept ==
  ASSUME MakingInv, \A k \in Making' : Keeps(k)
  PROVE  MakingInv'
<1>. SUFFICES ASSUME NEW k \in Making'
     PROVE  /\ state'[stack'[k].target] = "in_progress"
            /\ stack'[k].result \in {"dont_know", "failed"}
            /\ \A l \in Making' : stack'[l].target = stack'[k].target => l = k
  BY DEF MakingInv
<1>1. k \in Making /\ stack'[k].target = stack[k].target
  BY DEF Keeps
<1>2. ASSUME NEW l \in Making', stack'[l].target = stack'[k].target PROVE l = k
  <2>1. l \in Making /\ stack'[l].target = stack[l].target
    BY DEF Keeps
  <2>. QED  BY <1>1, <1>2, <2>1 DEF MakingInv
<1>. QED  BY <1>1, <1>2 DEF Keeps

\* The top activation stays where it is, or is over: it makes its target then
\* no more, and the target may get any state.
LEMMA TopOver ==
  ASSUME TypeOK, stack /= <<>>, MakingInv, NEW f,
         stack' = AsTop(f) \/ UNCHANGED stack, ~TopIsMade',
         \A k \in Making : k < Len(stack) =>
            state'[stack[k].target] = state[stack[k].target]
  PROVE  MakingInv'
<1>1. /\ Len(stack) \in Nat \ {0} /\ DOMAIN stack = 1..Len(stack)
      /\ Len(stack') = Len(stack) /\ DOMAIN stack' = DOMAIN stack
      /\ \A k \in 1..(Len(stack) - 1) : stack'[k] = stack[k]
  BY AsTopIs DEF TypeOK
<1>2. ASSUME NEW k \in Making' PROVE Keeps(k)
  <2>1. k \in DOMAIN stack' /\ k < Len(stack')
    BY DEF Making
  <2>2. k \in 1..(Len(stack) - 1) /\ k \in Making /\ k < Len(stack) /\ k \in DOMAIN stack
    BY <1>1, <2>1 DEF Making
  <2>. QED  BY <1>1, <2>2 DEF Keeps, MakingInv
<1>. QED  BY <1>2, MakingKept

\* The activations below the top one make other targets.
Others == \A k \in DOMAIN stack : k < Len(stack) => stack[k].target /= Top.target

LEMMA TopIsAlone ==
  ASSUME TypeOK, stack /= <<>>, MakingInv, TopIsMade
  PROVE  /\ Others
         /\ state[Top.target] = "in_progress"
         /\ Top.result \in {"dont_know", "failed"}
<1>1. /\ Len(stack) \in Nat \ {0} /\ DOMAIN stack = 1..Len(stack)
  BY AsTopIs DEF TypeOK
<1>2. Len(stack) \in Making
  BY <1>1 DEF Making
<1>3. \A k \in DOMAIN stack : k < Len(stack) => k \in Making /\ k /= Len(stack)
  BY <1>1 DEF Making
<1>. QED  BY <1>2, <1>3 DEF MakingInv, Top, Others

\* The top activation makes its target from now on, or goes on with it.
LEMMA TopMakes ==
  ASSUME TypeOK, stack /= <<>>, MakingInv, Others, NEW f,
         stack' = AsTop(f), f.target = Top.target,
         f.result \in {"dont_know", "failed"},
         state' = [state EXCEPT ![Top.target] = "in_progress"]
  PROVE  MakingInv'
<1>. DEFINE n == Len(stack)
<1>1. /\ n \in Nat \ {0} /\ DOMAIN stack = 1..n
      /\ Len(stack') = n /\ DOMAIN stack' = DOMAIN stack
      /\ stack'[n] = f
      /\ \A k \in 1..(n - 1) : stack'[k] = stack[k]
  BY AsTopIs DEF TypeOK
<1>2. Top.target \in Target
  BY TopType DEF TypeOK, Frame
<1>3. \A k \in Making' : k = n \/ (k \in 1..(n - 1) /\ k \in Making /\ k < n)
  BY <1>1 DEF Making
<1>4. \A k \in 1..(n - 1) : k \in Making =>
        /\ stack'[k].target = stack[k].target
        /\ stack'[k].target /= f.target
        /\ state'[stack'[k].target] = "in_progress"
        /\ stack'[k].result \in {"dont_know", "failed"}
  <2>. TAKE k \in 1..(n - 1)
  <2>. HAVE k \in Making
  <2>1. k \in DOMAIN stack /\ k < Len(stack) /\ stack'[k] = stack[k]
    BY <1>1
  <2>2. stack[k].target \in Target
    <3>1. stack[k] \in Frame
      BY <1>1, <2>1, ElementOfSeq DEF TypeOK
    <3>. QED  BY <3>1 DEF Frame
  <2>3. stack[k].target /= Top.target
    BY <2>1 DEF Others
  <2>4. state'[stack[k].target] = state[stack[k].target]
    BY <2>2, <2>3 DEF TypeOK
  <2>. QED  BY <2>1, <2>3, <2>4 DEF MakingInv
<1>5. state'[f.target] = "in_progress"
  BY <1>2 DEF TypeOK
<1>. HIDE DEF n
<1>6. \A k \in Making' : /\ state'[stack'[k].target] = "in_progress"
                         /\ stack'[k].result \in {"dont_know", "failed"}
  BY <1>1, <1>3, <1>4, <1>5
<1>7. ASSUME NEW k \in Making', NEW l \in Making', stack'[l].target = stack'[k].target
      PROVE  l = k
  <2>1. CASE k = n \/ l = n
    BY <1>1, <1>3, <1>4, <1>7, <2>1
  <2>2. CASE k /= n /\ l /= n
    BY <1>1, <1>3, <1>4, <1>7, <2>2 DEF MakingInv
  <2>. QED  BY <2>1, <2>2
<1>. QED  BY <1>6, <1>7 DEF MakingInv
-----------------------------------------------------------------------------
(* doname(), doname_check() and check_dependencies() *)

\* A group with a running target does not depend on a target being made.
NewTop == GroupRunning(Top.target) => Others

\* Outside doname()'s first lines no target is pending.
LEMMA NoPending ==
  ASSUME PendingInv, pc /= "enter"
  PROVE  \A t \in Target : state[t] /= "pending"
BY DEF PendingInv

LEMMA PendingAfter ==
  ASSUME TypeOK, NEW t \in Target, NEW s, s /= "pending",
         \A u \in Target : state[u] = "pending" => u = t,
         state' = [state EXCEPT ![t] = s]
  PROVE  PendingInv'
BY DEF PendingInv, TypeOK

LEMMA PendingSame ==
  ASSUME \A t \in Target : state[t] /= "pending", UNCHANGED state
  PROVE  PendingInv'
BY DEF PendingInv

LEMMA TopTarget ==
  ASSUME TypeOK, stack /= <<>>
  PROVE  Top \in Frame /\ Top.target \in Target
BY TopType DEF TypeOK, Frame

LEMMA BelowTop ==
  ASSUME TypeOK, MakingInv, NEW k \in DOMAIN stack, k < Len(stack)
  PROVE  stack[k].target \in Target /\ state[stack[k].target] = "in_progress"
<1>1. k \in Making
  BY DEF Making
<1>2. stack[k] \in Frame
  BY ElementOfSeq, LenProperties DEF TypeOK
<1>. QED  BY <1>1, <1>2 DEF MakingInv, Frame

LEMMA EnterEarlyList ==
  ASSUME TypeOK, Activated, BuildInv, NewTop, EnterEarly
  PROVE  BuildInv'
<1>. DEFINE t == Top.target
<1>1. stack /= <<>> /\ t \in Target
  BY TopTarget DEF EnterEarly, Activated
<1>2. PICK r : stack' = AsTop([Top EXCEPT !.result = r]) /\ pc' = "check"
  BY DEF EnterEarly, Returns
<1>3. ~TopIsMade'
  BY <1>2 DEF TopIsMade
<1>4. \A u \in Target : state[u] = "pending" => u = t
  BY DEF BuildInv, PendingInv
<1>5. CASE state[t] \in {"running", "ok"} /\ UNCHANGED <<state, running_list>>
  <2>1. ListInv'
    BY <1>1, <1>5 DEF BuildInv, ListInv
  <2>2. MakingInv'
    BY <1>1, <1>2, <1>3, <1>5, TopOver DEF BuildInv
  <2>3. PendingInv'
    BY <1>4, <1>5, PendingSame
  <2>. QED  BY <2>1, <2>2, <2>3 DEF BuildInv
<1>6. CASE /\ state[t] /= "running" /\ GroupRunning(t)
           /\ state' = [state EXCEPT ![t] = "running"]
           /\ running_list' = Append(running_list, Waiting(t, "pending", FALSE))
  <2>1. ListInv'
    <3>1. Waiting(t, "pending", FALSE) \in Entry /\ Waiting(t, "pending", FALSE).target = t
      BY <1>1, WaitingType DEF Waiting
    <3>. QED  BY <1>1, <1>6, <3>1, PutOnList DEF BuildInv
  <2>2. \A k \in Making : k < Len(stack) =>
            state'[stack[k].target] = state[stack[k].target]
    BY <1>1, <1>6, BelowTop DEF NewTop, Others, Making, BuildInv, TypeOK
  <2>3. MakingInv'
    BY <1>1, <1>2, <1>3, <2>2, TopOver DEF BuildInv
  <2>4. PendingInv'
    BY <1>1, <1>4, <1>6, PendingAfter
  <2>. QED  BY <2>1, <2>3, <2>4 DEF BuildInv
<1>. QED  BY <1>5, <1>6 DEF EnterEarly

LEMMA EnterFullList ==
  ASSUME TypeOK, Activated, BuildInv, EnterFull
  PROVE  BuildInv'
<1>. DEFINE t == Top.target
            f == [Activation(t, Top.auto) EXCEPT
                    !.second = Top.second, !.restart = (state[t] = "pending"),
                    !.autos = IF KeepState THEN AutosOf(deps[t]) ELSE {}]
<1>1. stack /= <<>> /\ t \in Target
  BY TopTarget DEF EnterFull, Activated
<1>2. \A u \in Target : state[u] = "pending" => u = t
  BY DEF BuildInv, PendingInv
<1>3. state[t] /= "running" /\ UNCHANGED running_list
  BY DEF EnterFull, listVars
<1>4. CASE state[t] = "in_progress"
  <2>1. UNCHANGED state /\ stack' = AsTop([Top EXCEPT !.result = "ok"]) /\ pc' = "check"
    BY <1>4 DEF EnterFull, Returns
  <2>2. ListInv'
    BY <1>3, <2>1 DEF BuildInv, ListInv
  <2>3. ~TopIsMade'
    BY <2>1 DEF TopIsMade
  <2>4. MakingInv'
    BY <1>1, <2>1, <2>3, TopOver DEF BuildInv
  <2>5. PendingInv'
    BY <1>2, <1>4, <2>1, PendingSame
  <2>. QED  BY <2>2, <2>4, <2>5 DEF BuildInv
<1>5. CASE state[t] /= "in_progress"
  <2>1. /\ state' = [state EXCEPT ![t] = "in_progress"]
        /\ stack' = AsTop(f)
    BY <1>5 DEF EnterFull
  <2>2. ListInv'
    BY <1>1, <1>3, <2>1, SameList DEF BuildInv
  <2>3. Others
    BY <1>5, BelowTop DEF Others, BuildInv
  <2>4. f.target = t /\ f.result = "dont_know"
    BY DEF Activation
  <2>. HIDE DEF f
  <2>5. MakingInv'
    BY <1>1, <2>1, <2>3, <2>4, TopMakes DEF BuildInv
  <2>6. PendingInv'
    BY <1>1, <1>2, <2>1, PendingAfter
  <2>. QED  BY <2>2, <2>5, <2>6 DEF BuildInv
<1>. QED  BY <1>4, <1>5

\* The activation below the top one goes on with its next dependency.
LEMMA PassOnList ==
  ASSUME TypeOK, stack /= <<>>, MakingInv, NEW r \in Doname, NEW failed,
         PassOn(r, failed), UNCHANGED state, caller \in {"goals", "next1", "next2"}
  PROVE  MakingInv'
<1>. DEFINE n == Len(stack)
<1>1. /\ n \in Nat \ {0} /\ DOMAIN stack = 1..n
      /\ Below \in Seq(Frame) /\ Len(Below) = n - 1
      /\ \A k \in 1..(n - 1) : Below[k] = stack[k]
  <2>1. n \in Nat \ {0} /\ DOMAIN stack = 1..n
    BY AsTopIs DEF TypeOK
  <2>2. n - 1 \in 0..n
    BY <2>1
  <2>. QED  BY <2>1, <2>2, PrefixType DEF Below, TypeOK
<1>2. CASE n = 1
  <2>1. stack' = <<>> /\ DOMAIN stack' = {}
    BY <1>2 DEF PassOn
  <2>. QED  BY <2>1 DEF MakingInv, Making
<1>3. CASE n /= 1
  <2>. DEFINE f == Below[Len(Below)]
              g == DependencyDone(f, Top.target, r)
  <2>1. stack' = [Below EXCEPT ![n - 1] = g] /\ pc' = "deps"
    <3>1. stack' = [Below EXCEPT ![Len(Below)] = g] /\ pc' = "deps"
      BY <1>3 DEF PassOn
    <3>. HIDE DEF g
    <3>. QED  BY <1>1, <3>1
  <2>2. n - 1 \in 1..(n - 1) /\ f = stack[n - 1] /\ f \in Frame
    <3>1. n - 1 \in 1..(n - 1) /\ Len(Below) = n - 1
      BY <1>1, <1>3
    <3>2. Below[n - 1] \in Frame
      BY <1>1, <3>1, ElementOfSeq
    <3>. QED  BY <1>1, <3>1, <3>2
  <2>3. n - 1 \in Making
    <3>1. n - 1 \in DOMAIN stack /\ n - 1 < n
      BY <1>1, <2>2
    <3>. QED  BY <3>1 DEF Making
  <2>4. g.target = f.target /\ g.result \in {"dont_know", "failed"}
    BY <2>2, <2>3 DEF DependencyDone, Frame, MakingInv
  <2>. HIDE DEF f, g
  <2>5. /\ DOMAIN stack' = 1..(n - 1) /\ stack'[n - 1] = g
        /\ \A k \in 1..(n - 1) : k /= n - 1 => stack'[k] = stack[k]
    <3>1. DOMAIN Below = 1..(n - 1)
      BY <1>1, LenProperties
    <3>. QED  BY <1>1, <2>1, <2>2, <3>1
  <2>6. \A k \in Making' : k \in 1..(n - 1)
    BY <2>5 DEF Making
  <2>7. \A k \in 1..(n - 1) : k \in Making
    BY <1>1 DEF Making
  <2>8. \A k \in Making' : Keeps(k)
    <3>. TAKE k \in Making'
    <3>1. k \in 1..(n - 1) /\ k \in Making /\ k \in DOMAIN stack
      BY <1>1, <2>6, <2>7
    <3>2. stack'[k].target = stack[k].target
      BY <2>2, <2>4, <2>5, <3>1
    <3>3. stack'[k].result \in {"dont_know", "failed"}
      BY <2>4, <2>5, <3>1 DEF MakingInv
    <3>4. state'[stack[k].target] = "in_progress"
      BY <3>1 DEF MakingInv
    <3>. QED  BY <3>1, <3>2, <3>3, <3>4 DEF Keeps
  <2>. QED  BY <2>8, MakingKept
<1>. QED  BY <1>2, <1>3

LEMMA DonameCheckList ==
  ASSUME TypeOK, Activated, BuildInv, DonameCheck, ~fatal_in_progress'
  PROVE  BuildInv'
<1>1. stack /= <<>> /\ Top \in Frame
  BY TopTarget DEF DonameCheck, Activated
<1>2. UNCHANGED <<state, running_list, caller>> /\ pc = "check"
  BY DEF DonameCheck, listVars
<1>3. ListInv'
  BY <1>2 DEF BuildInv, ListInv
<1>4. PendingInv'
  BY <1>2, NoPending, PendingSame DEF BuildInv
<1>5. MakingInv'
  <2>1. CASE \E r \in Doname, failed \in BOOLEAN : PassOn(r, failed)
    BY <1>1, <1>2, <2>1, PassOnList DEF BuildInv, TypeOK
  <2>2. CASE stack' = AsTop([Top EXCEPT !.second = TRUE]) /\ pc' = "enter"
    <3>1. ~TopIsMade'
      BY <2>2 DEF TopIsMade
    <3>. QED  BY <1>1, <1>2, <2>2, <3>1, TopOver DEF BuildInv
  <2>. QED  BY <1>1, <2>1, <2>2 DEF DonameCheck, Fatal, Frame, Doname
<1>. QED  BY <1>3, <1>4, <1>5 DEF BuildInv

\* The loop goes to the next dependency, or calls doname() for this one.
LEMMA ScanDependencyList ==
  ASSUME TypeOK, Activated, BuildInv, ScanDependency
  PROVE  BuildInv'
<1>. DEFINE n == Len(stack)
            dep == deps[Top.target][Top.i]
<1>1. /\ stack /= <<>> /\ Top \in Frame /\ n \in Nat \ {0} /\ DOMAIN stack = 1..n
      /\ TopIsMade /\ pc = "deps"
  BY TopTarget, AsTopIs DEF ScanDependency, Activated, TypeOK, TopIsMade
<1>2. UNCHANGED <<state, running_list>> /\ pc /= "enter"
  BY DEF ScanDependency, listVars
<1>3. ListInv'
  BY <1>2 DEF BuildInv, ListInv
<1>4. PendingInv'
  BY <1>2, NoPending, PendingSame DEF BuildInv
<1>5. \A k \in DOMAIN stack : k \in Making
  BY <1>1 DEF Making
<1>6. CASE \E f : /\ stack' = AsTop(f) /\ f.target = Top.target
                  /\ f.result \in {Top.result, "failed"}
  <2>1. PICK f : /\ stack' = AsTop(f) /\ f.target = Top.target
                 /\ f.result \in {Top.result, "failed"}
    BY <1>6
  <2>2. /\ DOMAIN stack' = DOMAIN stack /\ stack'[n] = f
        /\ \A k \in 1..(n - 1) : stack'[k] = stack[k]
    BY <1>1, <2>1, AsTopIs DEF TypeOK
  <2>3. \A k \in Making' : Keeps(k)
    <3>. TAKE k \in Making'
    <3>1. k \in DOMAIN stack /\ k \in Making /\ (k = n \/ k \in 1..(n - 1))
      BY <1>1, <1>5, <2>2 DEF Making
    <3>2. Top = stack[n]
      BY DEF Top
    <3>. QED  BY <1>2, <2>1, <2>2, <3>1, <3>2 DEF Keeps, BuildInv, MakingInv
  <2>4. MakingInv'
    BY <2>3, MakingKept DEF BuildInv
  <2>. QED  BY <1>3, <1>4, <2>4 DEF BuildInv
<1>7. CASE stack' = Append(stack, Activation(dep.name, dep.auto)) /\ pc' = "enter"
  <2>. DEFINE f == Activation(dep.name, dep.auto)
              S == Frame \cup {f}
  <2>1. stack \in Seq(S) /\ f \in S
    <3>1. Frame \subseteq S
      OBVIOUS
    <3>. HIDE DEF S
    <3>2. stack \in Seq(S)
      BY <3>1, SeqDef DEF TypeOK
    <3>. QED  BY <3>2 DEF S
  <2>. HIDE DEF S, f
  <2>2. /\ Len(stack') = n + 1 /\ DOMAIN stack' = 1..(n + 1)
        /\ \A k \in 1..n : stack'[k] = stack[k]
    BY <1>1, <1>7, <2>1, AppendProperties, LenProperties DEF f
  <2>3. ~TopIsMade'
    BY <1>7 DEF TopIsMade
  <2>4. \A k \in Making' : Keeps(k)
    <3>. TAKE k \in Making'
    <3>1. k \in DOMAIN stack /\ k \in Making /\ stack'[k] = stack[k]
      BY <1>1, <1>5, <2>2, <2>3 DEF Making
    <3>. QED  BY <1>2, <3>1 DEF Keeps, BuildInv, MakingInv
  <2>5. MakingInv'
    BY <2>4, MakingKept DEF BuildInv
  <2>. QED  BY <1>3, <1>4, <2>5 DEF BuildInv
<1>8. \/ stack' = AsTop([Top EXCEPT !.i = @ + 1])
      \/ stack' = AsTop([Top EXCEPT !.i = IF Top.running
                            THEN Len(deps[Top.target]) + 1 ELSE @ + 1])
      \/ stack' = AsTop(DependencyDone(Top, dep.name, state[dep.name]))
      \/ stack' = Append(stack, Activation(dep.name, dep.auto)) /\ pc' = "enter"
  BY DEF ScanDependency
<1>9. ASSUME NEW f, f \in {[Top EXCEPT !.i = @ + 1],
                           [Top EXCEPT !.i = IF Top.running
                              THEN Len(deps[Top.target]) + 1 ELSE @ + 1],
                           DependencyDone(Top, dep.name, state[dep.name])}
      PROVE f.target = Top.target /\ f.result \in {Top.result, "failed"}
  BY <1>1, <1>9 DEF DependencyDone, Frame
<1>. QED  BY <1>6, <1>7, <1>8, <1>9

\* The target of the top activation goes on the list.
LEMMA TopToList ==
  ASSUME TypeOK, stack /= <<>>, BuildInv, TopIsMade, pc /= "enter",
         NEW e \in Entry, e.target = Top.target,
         running_list' = Append(running_list, e),
         state' = [state EXCEPT ![Top.target] = "running"],
         Returns("running")
  PROVE  BuildInv'
<1>1. Top.target \in Target
  BY TopTarget
<1>2. Others /\ state[Top.target] = "in_progress"
  BY TopIsAlone DEF BuildInv
<1>3. ListInv'
  BY <1>2, PutOnList DEF BuildInv
<1>4. stack' = AsTop([Top EXCEPT !.result = "running"]) /\ ~TopIsMade'
  BY DEF Returns, TopIsMade
<1>5. \A k \in Making : k < Len(stack) =>
         state'[stack[k].target] = state[stack[k].target]
  BY <1>2, BelowTop DEF Others, Making, BuildInv, TypeOK
<1>6. MakingInv'
  BY <1>4, <1>5, TopOver DEF BuildInv
<1>7. PendingInv'
  BY <1>1, NoPending, PendingAfter DEF BuildInv
<1>. QED  BY <1>3, <1>6, <1>7 DEF BuildInv

LEMMA AddPendingList ==
  ASSUME TypeOK, Activated, BuildInv, AddPending
  PROVE  BuildInv'
<1>1. stack /= <<>> /\ TopIsMade /\ pc /= "enter"
  BY DEF AddPending, Scanned, Activated, TopIsMade
<1>2. Top.target \in Target
  BY <1>1, TopTarget
<1>3. Waiting(Top.target, "pending", FALSE) \in Entry
      /\ Waiting(Top.target, "pending", FALSE).target = Top.target
  BY <1>2, WaitingType DEF Waiting
<1>. QED  BY <1>1, <1>3, TopToList DEF AddPending

\* make goes on with the top activation and the list as they are.
LEMMA TopGoesOn ==
  ASSUME TypeOK, BuildInv, TopIsMade, pc /= "enter",
         UNCHANGED <<state, running_list, stack>>
  PROVE  BuildInv'
<1>1. \A k \in Making' : Keeps(k)
  BY DEF Keeps, Making, BuildInv, MakingInv
<1>2. MakingInv'
  BY <1>1, MakingKept DEF BuildInv
<1>3. PendingInv'
  BY NoPending, PendingSame DEF BuildInv
<1>. QED  BY <1>2, <1>3 DEF BuildInv, ListInv
-----------------------------------------------------------------------------
(* The second half of doname(), run_command(), execute_parallel() *)

LEMMA ConcludeList ==
  ASSUME TypeOK, stack /= <<>>, BuildInv, TopIsMade, pc /= "enter",
         NEW r, r \in {"ok", "failed", "dont_know"}, NEW times, NEW ds,
         Conclude(r, times, ds), UNCHANGED running_list
  PROVE  BuildInv'
<1>. DEFINE t == Top.target
            f == [Activation(t, Top.auto) EXCEPT
                    !.second = Top.second, !.restart = Top.restart,
                    !.recheck = TRUE, !.autos = AutosOf(ds[t])]
<1>1. Top.target \in Target
  BY TopTarget
<1>2. Others /\ state[Top.target] = "in_progress"
  BY TopIsAlone DEF BuildInv
<1>3. CASE state' = [state EXCEPT ![t] = "in_progress"] /\ stack' = AsTop(f)
  <2>1. ListInv'
    BY <1>1, <1>2, <1>3, SameList DEF BuildInv
  <2>2. f.target = t /\ f.result = "dont_know"
    BY DEF Activation
  <2>3. PendingInv'
    BY <1>1, <1>3, NoPending, PendingAfter DEF BuildInv
  <2>. HIDE DEF f
  <2>4. MakingInv'
    BY <1>1, <1>2, <1>3, <2>2, TopMakes DEF BuildInv
  <2>. QED  BY <2>1, <2>3, <2>4 DEF BuildInv
<1>4. CASE state' = [state EXCEPT ![t] = r] /\ Returns(r)
  <2>1. ListInv'
    BY <1>1, <1>2, <1>4, SameList DEF BuildInv
  <2>2. PendingInv'
    BY <1>1, <1>4, NoPending, PendingAfter DEF BuildInv
  <2>3. stack' = AsTop([Top EXCEPT !.result = r]) /\ ~TopIsMade'
    BY <1>4 DEF Returns, TopIsMade
  <2>4. \A k \in Making : k < Len(stack) =>
           state'[stack[k].target] = state[stack[k].target]
    BY <1>2, <1>4, BelowTop DEF Others, Making, BuildInv, TypeOK
  <2>5. MakingInv'
    BY <2>3, <2>4, TopOver DEF BuildInv
  <2>. QED  BY <2>1, <2>2, <2>5 DEF BuildInv
<1>. QED  BY <1>3, <1>4 DEF Conclude

LEMMA NotBuiltList ==
  ASSUME TypeOK, Activated, BuildInv, NoCommand \/ CommandNotRun
  PROVE  BuildInv'
<1>1. stack /= <<>> /\ TopIsMade /\ pc /= "enter" /\ UNCHANGED running_list
  BY DEF NoCommand, CommandNotRun, Scanned, Activated, TopIsMade, listVars
<1>2. Top.result \in {"dont_know", "failed"}
  BY <1>1, TopIsAlone DEF BuildInv
<1>3. PICK r, times, ds : r \in {"ok", "failed", "dont_know"} /\ Conclude(r, times, ds)
  BY <1>2 DEF NoCommand, CommandNotRun
<1>. QED  BY <1>1, <1>3, ConcludeList

LEMMA SerialExitList ==
  ASSUME TypeOK, Activated, BuildInv, SerialExit, ~fatal_in_progress'
  PROVE  BuildInv'
<1>1. stack /= <<>> /\ TopIsMade /\ pc /= "enter" /\ UNCHANGED running_list
  BY DEF SerialExit, Activated, TopIsMade, listVars
<1>2. PICK r, times, ds : r \in {"ok", "failed"} /\ Conclude(r, times, ds)
  BY DEF SerialExit, Fatal
<1>. QED  BY <1>1, <1>2, ConcludeList

LEMMA BuildAloneList ==
  ASSUME TypeOK, stack /= <<>>, BuildInv, TopIsMade, pc /= "enter", BuildAlone
  PROVE  BuildInv'
<1>1. Top.target \in Target
  BY TopTarget
<1>2. Waiting(Top.target, "serial", FALSE) \in Entry
      /\ Waiting(Top.target, "serial", FALSE).target = Top.target
  BY <1>1, WaitingType DEF Waiting
<1>. QED  BY <1>2, TopToList, TopGoesOn DEF BuildAlone

LEMMA RunCommandList ==
  ASSUME TypeOK, Activated, BuildInv, RunCommand
  PROVE  BuildInv'
<1>1. stack /= <<>> /\ TopIsMade /\ pc /= "enter"
  BY DEF RunCommand, Scanned, Activated, TopIsMade
<1>. QED  BY <1>1, BuildAloneList, TopGoesOn DEF RunCommand

LEMMA DistributeProcessList ==
  ASSUME TypeOK, Activated, BuildInv, DistributeProcess
  PROVE  BuildInv'
<1>1. stack /= <<>> /\ TopIsMade /\ pc /= "enter"
  BY DEF DistributeProcess, Activated, TopIsMade
<1>2. CASE StartJob
  <2>1. Top \in Frame
    BY <1>1, TopTarget
  <2>2. Job(Top) \in Entry
    BY <2>1, JobType
  <2>3. Job(Top).target = Top.target
    BY DEF Job, Waiting
  <2>. QED  BY <1>1, <1>2, <2>2, <2>3, TopToList DEF StartJob
<1>3. CASE NoSlot
  BY <1>1, <1>3, BuildAloneList DEF NoSlot
<1>4. CASE UNCHANGED <<state, running_list, stack>>
  BY <1>1, <1>4, TopGoesOn
<1>. QED  BY <1>2, <1>3, <1>4 DEF DistributeProcess, AwaitFor, AdjustError
-----------------------------------------------------------------------------
(* Jobs end, and the list is worked on *)

\* doname() is not active, or goes on as it was; entries change in place.
LEMMA SameTargets ==
  ASSUME TypeOK, BuildInv, pc /= "enter" \/ UNCHANGED <<pc, stack>>,
         UNCHANGED <<state, stack>>,
         TopIsMade' => TopIsMade,
         DOMAIN running_list' = DOMAIN running_list,
         \A i \in DOMAIN running_list : running_list'[i].target = running_list[i].target
  PROVE  BuildInv'
<1>1. ListInv'
  BY DEF BuildInv, ListInv, Once, Waits
<1>2. \A k \in Making' : Keeps(k)
  BY DEF Keeps, Making, BuildInv, MakingInv
<1>3. MakingInv'
  BY <1>2, MakingKept DEF BuildInv
<1>4. PendingInv'
  BY DEF BuildInv, PendingInv, Top
<1>. QED  BY <1>1, <1>3, <1>4 DEF BuildInv

LEMMA JobExitList ==
  ASSUME TypeOK, BuildInv, NEW t \in Target, JobExit(t)
  PROVE  BuildInv'
<1>1. PICK i \in DOMAIN running_list, exit \in {"ok", "failed"}, out \in BOOLEAN :
        running_list' = [running_list EXCEPT
              ![i] = [running_list[i] EXCEPT !.exit = exit, !.out = out,
                                             !.time = RecipeTime(t)]]
  BY DEF JobExit
<1>2. running_list[i] \in Entry
  BY ElementOfSeq, LenProperties DEF TypeOK
<1>3. /\ DOMAIN running_list' = DOMAIN running_list
      /\ \A j \in DOMAIN running_list : running_list'[j].target = running_list[j].target
  BY <1>1, <1>2 DEF Entry
<1>4. UNCHANGED <<state, stack, pc, back>>
  BY DEF JobExit, targetVars
<1>5. TopIsMade' => TopIsMade
  BY <1>4 DEF TopIsMade
<1>. QED  BY <1>3, <1>4, <1>5, SameTargets

LEMMA AwaitParallelList ==
  ASSUME TypeOK, BuildInv, AwaitParallel
  PROVE  BuildInv'
<1>1. \A i \in DOMAIN running_list : running_list[i] \in Entry
  BY ElementOfSeq, LenProperties DEF TypeOK
<1>2. /\ DOMAIN running_list' = DOMAIN running_list
      /\ \A i \in DOMAIN running_list : running_list'[i].target = running_list[i].target
  BY <1>1 DEF AwaitParallel, Entry
<1>3. UNCHANGED <<state, stack, back>> /\ pc = "await" /\ pc' = "finish"
  BY DEF AwaitParallel, targetVars
<1>4. TopIsMade' => TopIsMade
  BY <1>3 DEF TopIsMade
<1>. QED  BY <1>2, <1>3, <1>4, SameTargets

LEMMA FinishChildList ==
  ASSUME TypeOK, BuildInv, FatalInv, FinishChild, ~fatal_in_progress'
  PROVE  BuildInv'
<1>1. PICK i \in Finished :
        LET e == running_list[i] IN
        /\ pc = "finish" /\ UNCHANGED <<pc, back, stack, fatal_in_progress>>
        /\ \E ds : IF back /= "drain" THEN FinishDoname(e, ds, Unlink(i)) ELSE TRUE
  <2>1. PICK i \in Finished :
          LET e == running_list[i] IN
          /\ pc = "finish" /\ UNCHANGED <<back, stack>>
          /\ \/ Fatal
             \/ /\ \E ds : IF back /= "drain" THEN FinishDoname(e, ds, Unlink(i))
                                              ELSE TRUE
                /\ UNCHANGED <<pc, fatal_in_progress>>
    BY Zenon DEF FinishChild
  <2>. QED  BY <2>1 DEF Fatal
<1>. DEFINE e == running_list[i]
            t == e.target
<1>2. back /= "drain"
  BY <1>1 DEF FatalInv, Draining
<1>3. PICK ds : FinishDoname(e, ds, Unlink(i))
  BY <1>1, <1>2
<1>4. i \in DOMAIN running_list /\ t \in Target
  <2>1. i \in DOMAIN running_list
    BY DEF Finished
  <2>2. e \in Entry
    BY <2>1, ElementOfSeq, LenProperties DEF TypeOK
  <2>. QED  BY <2>1, <2>2 DEF Entry
<1>5. state[t] = "running"
  BY <1>4 DEF BuildInv, ListInv, Waits
<1>6. \E s \in {"ok", "failed", "running"} : state' = [state EXCEPT ![t] = s]
  BY <1>3 DEF FinishDoname
<1>7. ListInv'
  <2>1. CASE \E s \in {"ok", "failed"} :
                state' = [state EXCEPT ![t] = s] /\ running_list' = Unlink(i)
    BY <1>4, <2>1, TakeOffList DEF BuildInv
  <2>2. CASE /\ state' = [state EXCEPT ![t] = "running"]
             /\ running_list' = Append(Unlink(i), Waiting(t, "pending", TRUE))
    <3>1. /\ Once(Unlink(i))
          /\ \A u : Waits(Unlink(i), u) <=> Waits(running_list, u) /\ u /= t
      BY <1>4, UnlinkWaits DEF BuildInv, ListInv, TypeOK
    <3>2. Unlink(i) \in Seq(Entry)
      BY <1>4, UnlinkType DEF TypeOK
    <3>. DEFINE w == Waiting(t, "pending", TRUE)
    <3>3. w \in Entry /\ w.target = t
      BY <1>4, WaitingType DEF Waiting
    <3>4. ~Waits(Unlink(i), w.target)
      BY <3>1, <3>3
    <3>5. /\ Once(running_list')
          /\ \A u : Waits(running_list', u) <=> Waits(Unlink(i), u) \/ u = t
      <4>1. running_list' = Append(Unlink(i), w)
        BY <2>2
      <4>. HIDE DEF w, t, e
      <4>. QED  BY <3>1, <3>2, <3>3, <3>4, <4>1, AppendWaits
    <3>6. Waits(running_list, t)
      BY <1>4 DEF Waits
    <3>. QED  BY <1>4, <1>5, <2>2, <3>1, <3>5, <3>6 DEF ListInv, BuildInv, TypeOK
  <2>. QED  BY <1>3, <2>1, <2>2 DEF FinishDoname
<1>8. \A k \in Making' : Keeps(k)
  <2>. TAKE k \in Making'
  <2>1. k \in Making /\ k \in DOMAIN stack /\ stack' = stack
    BY <1>1 DEF Making, TopIsMade
  <2>2. state[stack[k].target] = "in_progress" /\ stack[k].target \in Target
    <3>1. stack[k] \in Frame
      BY <2>1, ElementOfSeq, LenProperties DEF TypeOK
    <3>. QED  BY <2>1, <3>1 DEF BuildInv, MakingInv, Frame
  <2>3. state'[stack[k].target] = "in_progress"
    BY <1>4, <1>5, <1>6, <2>2 DEF TypeOK
  <2>. QED  BY <2>1, <2>3 DEF Keeps, BuildInv, MakingInv
<1>9. MakingInv'
  BY <1>8, MakingKept DEF BuildInv
<1>10. PendingInv'
  <2>1. \A u \in Target : state[u] /= "pending"
    BY <1>1, NoPending DEF BuildInv
  <2>. QED  BY <1>4, <1>6, <2>1 DEF PendingInv, TypeOK
<1>. QED  BY <1>7, <1>9, <1>10 DEF BuildInv

LEMMA QuietList ==
  ASSUME TypeOK, BuildInv, FinishChildrenReturns \/ FinishRunning,
         ~fatal_in_progress, FatalInv
  PROVE  BuildInv'
<1>1. UNCHANGED <<state, stack, running_list>> /\ pc /= "enter"
  BY DEF FinishChildrenReturns, FinishRunning, targetVars, listVars
<1>2. TopIsMade' => TopIsMade
  BY DEF FinishChildrenReturns, FinishRunning, TopIsMade, FatalInv, Draining, TypeOK
<1>. QED  BY <1>1, <1>2, SameTargets

\* An entry leaves the list and its target goes into doname().
LEMMA ResumeList ==
  ASSUME TypeOK, BuildInv, pc /= "enter", NEW i \in DOMAIN running_list,
         NEW s \in {"pending", "dont_know"}, NEW where, Resume(i, s, where)
  PROVE  BuildInv'
<1>. DEFINE t == running_list[i].target
            f == Activation(t, FALSE)
<1>1. t \in Target
  <2>1. running_list[i] \in Entry
    BY ElementOfSeq, LenProperties DEF TypeOK
  <2>. QED  BY <2>1 DEF Entry
<1>2. /\ running_list' = Unlink(i) /\ state' = [state EXCEPT ![t] = s]
      /\ stack' = <<f>> /\ pc' = "enter"
  BY DEF Resume
<1>3. ListInv'
  BY <1>2, TakeOffList DEF BuildInv
<1>4. f.target = t
  BY DEF Activation
<1>. HIDE DEF f
<1>5. Len(stack') = 1 /\ DOMAIN stack' = {1} /\ stack'[1] = f
  BY <1>2, SingletonIs
<1>6. MakingInv'
  BY <1>2, <1>5 DEF MakingInv, Making, TopIsMade
<1>7. Top' = f
  BY <1>5 DEF Top
<1>8. PendingInv'
  BY <1>1, <1>2, <1>4, <1>7, NoPending DEF PendingInv, BuildInv, TypeOK
<1>. QED  BY <1>3, <1>6, <1>8 DEF BuildInv

LEMMA ProcessNextList ==
  ASSUME TypeOK, BuildInv, NextSerial \/ NextPending, ~fatal_in_progress'
  PROVE  BuildInv'
<1>1. pc /= "enter"
  BY DEF NextSerial, NextPending
<1>2. CASE \E i \in DOMAIN running_list, s \in {"pending", "dont_know"} : \E where :
              Resume(i, s, where)
  BY <1>1, <1>2, ResumeList
<1>3. CASE UNCHANGED <<state, running_list, stack>> /\ pc' \in {"next2", "finish_running"}
  <2>1. ~TopIsMade'
    BY <1>3 DEF TopIsMade
  <2>. QED  BY <1>1, <1>3, <2>1, SameTargets
<1>4. \/ \E i \in Serials \cup Startable, s \in {"pending", "dont_know"} : \E where :
            Resume(i, s, where)
      \/ UNCHANGED <<state, running_list, stack>> /\ pc' \in {"next2", "finish_running"}
  BY DEF NextSerial, NextPending, Fatal
<1>5. \A i \in Serials \cup Startable : i \in DOMAIN running_list
  BY DEF Serials, Startable
<1>. QED  BY <1>2, <1>3, <1>4, <1>5

LEMMA MakeTargetsList ==
  ASSUME TypeOK, BuildInv, MakeTargets
  PROVE  BuildInv'
<1>1. UNCHANGED <<state, running_list>> /\ pc /= "enter"
  BY DEF MakeTargets, targetVars, listVars
<1>2. CASE UNCHANGED stack /\ pc' \in {"finish_running", "goals", "done"}
  <2>1. ~TopIsMade'
    BY <1>2 DEF TopIsMade
  <2>. QED  BY <1>1, <1>2, <2>1, SameTargets
<1>3. CASE \E f : stack' = <<f>> /\ pc' = "enter"
  <2>1. MakingInv'
    BY <1>3, SingletonIs DEF MakingInv, Making, TopIsMade
  <2>2. PendingInv'
    BY <1>1, NoPending, PendingSame DEF BuildInv
  <2>3. ListInv'
    BY <1>1 DEF ListInv, BuildInv
  <2>. QED  BY <2>1, <2>2, <2>3 DEF BuildInv
<1>. QED  BY <1>2, <1>3 DEF MakeTargets

LEMMA BuildStep ==
  ASSUME TypeOK, Activated, BuildInv, FatalInv, EnterEarly => NewTop, [Next]_vars,
         ~fatal_in_progress, ~fatal_in_progress'
  PROVE  BuildInv'
<1>1. CASE MakeStep
  <2>1. ~Drain
    BY DEF Drain, FatalInv, Draining
  <2>. QED  BY <1>1, <2>1, EnterEarlyList, EnterFullList, DonameCheckList,
            ScanDependencyList, AddPendingList, NotBuiltList, RunCommandList,
            DistributeProcessList, AwaitParallelList, FinishChildList, QuietList,
            ProcessNextList, MakeTargetsList DEF MakeStep
<1>2. CASE SerialExit
  BY <1>2, SerialExitList
<1>3. CASE \E t \in Target : JobExit(t)
  BY <1>3, JobExitList
<1>4. CASE Over \/ UNCHANGED vars
  <2>1. UNCHANGED <<state, running_list, stack, pc, back>>
    BY <1>4 DEF Over, vars, targetVars, listVars
  <2>2. TopIsMade' => TopIsMade
    BY <2>1 DEF TopIsMade
  <2>. QED  BY <2>1, <2>2, SameTargets
<1>. QED  BY <1>1, <1>2, <1>3, <1>4 DEF Next
-----------------------------------------------------------------------------
(* Without a cycle, every activation is for a lower target than those below it *)

LEMMA RankIs == Acyclic => Ranks(Rank)
BY DEF Acyclic, Rank

LEMMA UnbuiltLower ==
  ASSUME NEW t, NEW ds \in Seq(Dependency), Lower(Rank, t, ds)
  PROVE  Lower(Rank, t, Unbuilt(ds))
<1>1. \A j \in DOMAIN ds : ds[j] \in Dependency
  BY ElementOfSeq, LenProperties
<1>2. /\ DOMAIN Unbuilt(ds) = DOMAIN ds
      /\ \A j \in DOMAIN ds : Unbuilt(ds)[j].name = ds[j].name
  BY <1>1 DEF Unbuilt, Dependency
<1>. QED  BY <1>2 DEF Lower

LEMMA MarkBuiltLower ==
  ASSUME TypeOK, NEW f \in Frame, NEW r, Descends(Rank, deps)
  PROVE  Descends(Rank, MarkBuilt(f, r))
<1>. DEFINE ds == deps[f.target]
            Mark(d) == [d EXCEPT !.built = TRUE, !.stale = d.stale \/ r = "dont_know"]
            new == [j \in DOMAIN ds |-> IF j = f.i THEN Mark(ds[j]) ELSE ds[j]]
<1>1. f.target \in Target /\ ds \in Seq(Dependency)
  BY DEF TypeOK, Frame
<1>2. \A j \in DOMAIN ds : ds[j] \in Dependency
  BY <1>1, ElementOfSeq, LenProperties
<1>3. DOMAIN new = DOMAIN ds /\ \A j \in DOMAIN ds : new[j].name = ds[j].name
  BY <1>2 DEF Dependency
<1>4. Lower(Rank, f.target, ds)
  BY <1>1 DEF Descends
<1>5. MarkBuilt(f, r) = [deps EXCEPT ![f.target] = new]
  BY Zenon DEF MarkBuilt
<1>. HIDE DEF new, ds
<1>6. Lower(Rank, f.target, new)
  BY <1>3, <1>4 DEF Lower
<1>. QED  BY <1>1, <1>5, <1>6 DEF Descends, TypeOK

LEMMA ReportedLower ==
  ASSUME Acyclic, NEW t \in Target, NEW ds \in Seq(Dependency),
         NEW list \in Reported(t, ds), Lower(Rank, t, ds)
  PROVE  Lower(Rank, t, list)
<1>. DEFINE R == Reports[t]
            Mark(d) == IF d.auto THEN [d EXCEPT !.stale = d.name \notin R,
                                                !.built = d.built /\ d.name \notin R]
                                 ELSE d
            known == {ds[j].name : j \in DOMAIN ds}
            marked == [j \in DOMAIN ds |-> Mark(ds[j])]
            added(q) == [j \in DOMAIN q |-> Depend(q[j], TRUE)]
<1>1. CASE ~(KeepState /\ R /= {})
  BY <1>1 DEF Reported
<1>2. CASE KeepState /\ R /= {}
  <2>1. PICK q \in Orders(R \ known) : list = marked \o added(q)
    BY <1>2 DEF Reported
  <2>2. \A j \in DOMAIN ds : ds[j] \in Dependency
    BY ElementOfSeq, LenProperties
  <2>3. \A j \in DOMAIN ds : marked[j] \in Dependency /\ marked[j].name = ds[j].name
    BY <2>2 DEF Dependency
  <2>4. marked \in Seq(Dependency) /\ Len(marked) = Len(ds)
    <3>1. marked = [j \in DOMAIN ds |-> marked[j]]
          /\ \A j \in DOMAIN ds : marked[j] \in Dependency
      BY <2>3
    <3>. HIDE DEF marked
    <3>. QED  BY <3>1, MapType
  <2>5. PICK n \in Nat : q \in [1..n -> R]
    <3>1. IsFiniteSet(R \ known)
      BY GraphAssumption, FS_Subset
    <3>2. Cardinality(R \ known) \in Nat
      BY <3>1, FS_CardinalityType
    <3>. QED  BY <3>2 DEF Orders
  <2>6. /\ added(q) \in [1..n -> Dependency]
        /\ \A j \in 1..n : added(q)[j].name \in R
    BY <2>5, GraphAssumption DEF Depend, Dependency
  <2>7. added(q) \in Seq(Dependency) /\ Len(added(q)) = n
    <3>. HIDE DEF added
    <3>. QED  BY <2>5, <2>6, FunctionIsSeq
  <2>8. \A u \in R : Rank[u] < Rank[t]
    BY RankIs DEF Ranks
  <2>9. DOMAIN ds = 1..Len(ds) /\ Len(ds) \in Nat /\ DOMAIN list = 1..(Len(ds) + n)
        /\ \A j \in 1..(Len(ds) + n) :
             list[j] = IF j <= Len(ds) THEN marked[j] ELSE added(q)[j - Len(ds)]
    <3>1. DOMAIN ds = 1..Len(ds) /\ Len(ds) \in Nat
      BY LenProperties
    <3>. HIDE DEF marked, added
    <3>2. marked \o added(q) \in Seq(Dependency)
      BY <2>4, <2>7, ConcatProperties
    <3>3. Len(list) = Len(ds) + n
      <4>1. Len(marked \o added(q)) = Len(marked) + Len(added(q))
        BY <2>4, <2>7, ConcatProperties
      <4>. QED  BY <2>1, <2>4, <2>7, <4>1
    <3>4. DOMAIN list = 1..(Len(ds) + n)
      BY <2>1, <3>2, <3>3, LenProperties
    <3>5. \A j \in 1..(Len(ds) + n) :
             list[j] = IF j <= Len(ds) THEN marked[j] ELSE added(q)[j - Len(ds)]
      <4>1. \A j \in 1..(Len(marked) + Len(added(q))) : (marked \o added(q))[j] =
               IF j <= Len(marked) THEN marked[j] ELSE added(q)[j - Len(marked)]
        BY <2>4, <2>7, ConcatProperties
      <4>. QED  BY <2>1, <2>4, <2>7, <4>1
    <3>. QED  BY <3>1, <3>4, <3>5
  <2>. HIDE DEF marked, added, R
  <2>. SUFFICES ASSUME NEW j \in DOMAIN list, list[j].name /= Wait
                PROVE  Rank[list[j].name] < Rank[t]
    BY DEF Lower
  <2>10. CASE j <= Len(ds)
    <3>1. j \in DOMAIN ds /\ list[j].name = ds[j].name
      BY <2>3, <2>5, <2>9, <2>10
    <3>. QED  BY <3>1 DEF Lower
  <2>11. CASE ~(j <= Len(ds))
    <3>1. j - Len(ds) \in 1..n
      BY <2>5, <2>9, <2>11
    <3>2. list[j] = added(q)[j - Len(ds)]
      BY <2>9, <2>11
    <3>3. list[j].name \in R
      BY <2>6, <3>1, <3>2
    <3>. QED  BY <2>8, <3>3
  <2>. QED  BY <2>10, <2>11
<1>. QED  BY <1>1, <1>2

\* The list of one target is replaced.
LEMMA OneListLower ==
  ASSUME NEW ds \in [Target -> Seq(Dependency)], Descends(Rank, ds),
         NEW t \in Target, NEW list, Lower(Rank, t, list)
  PROVE  Descends(Rank, [ds EXCEPT ![t] = list])
BY DEF Descends

LEMMA ChainTop ==
  ASSUME TypeOK, stack /= <<>>, Chain, NEW f, f.target = Top.target, stack' = AsTop(f)
  PROVE  Chain'
<1>1. /\ Len(stack) \in Nat \ {0} /\ DOMAIN stack = 1..Len(stack)
      /\ DOMAIN stack' = DOMAIN stack /\ stack'[Len(stack)] = f
      /\ \A k \in 1..(Len(stack) - 1) : stack'[k] = stack[k]
  BY AsTopIs DEF TypeOK
<1>2. \A k \in DOMAIN stack : stack'[k].target = stack[k].target
  <2>1. \A k \in DOMAIN stack : k = Len(stack) \/ k \in 1..(Len(stack) - 1)
    BY <1>1
  <2>. QED  BY <1>1, <2>1 DEF Top
<1>. QED  BY <1>1, <1>2 DEF Chain

LEMMA ChainPassOn ==
  ASSUME TypeOK, stack /= <<>>, Chain, Descends(Rank, deps), NEW r, NEW failed,
         PassOn(r, failed)
  PROVE  OrderInv'
<1>. DEFINE n == Len(stack)
<1>1. /\ n \in Nat \ {0} /\ DOMAIN stack = 1..n
      /\ Below \in Seq(Frame) /\ Len(Below) = n - 1 /\ DOMAIN Below = 1..(n - 1)
      /\ \A k \in 1..(n - 1) : Below[k] = stack[k]
  <2>1. n \in Nat \ {0} /\ DOMAIN stack = 1..n
    BY AsTopIs DEF TypeOK
  <2>2. n - 1 \in 0..n
    BY <2>1
  <2>. QED  BY <2>1, <2>2, PrefixType, LenProperties DEF Below, TypeOK
<1>2. CASE n = 1
  <2>1. stack' = <<>> /\ DOMAIN stack' = {} /\ UNCHANGED deps
    BY <1>2 DEF PassOn
  <2>. QED  BY <2>1 DEF OrderInv, Chain
<1>3. CASE n /= 1
  <2>. DEFINE f == Below[Len(Below)]
              g == DependencyDone(f, Top.target, r)
  <2>1. stack' = [Below EXCEPT ![n - 1] = g] /\ deps' = MarkBuilt(f, r)
    BY <1>1, <1>3 DEF PassOn
  <2>2. n - 1 \in 1..(n - 1) /\ f = stack[n - 1] /\ f \in Frame
    BY <1>1, <1>3, ElementOfSeq DEF TypeOK
  <2>3. g.target = f.target
    BY <2>2 DEF DependencyDone, Frame
  <2>4. Descends(Rank, deps')
    BY <2>1, <2>2, MarkBuiltLower
  <2>. HIDE DEF f, g
  <2>5. DOMAIN stack' = 1..(n - 1)
        /\ \A k \in 1..(n - 1) : stack'[k].target = stack[k].target
    BY <1>1, <2>1, <2>2, <2>3
  <2>6. \A k \in 1..(n - 1) : k \in DOMAIN stack
    BY <1>1
  <2>. HIDE DEF n
  <2>7. Chain'
    BY <2>5, <2>6 DEF Chain
  <2>. QED  BY <2>4, <2>7 DEF OrderInv
<1>. QED  BY <1>2, <1>3

LEMMA ChainScan ==
  ASSUME TypeOK, Activated, Acyclic, OrderInv, ScanDependency
  PROVE  OrderInv'
<1>. DEFINE n == Len(stack)
            t == Top.target
            dep == deps[t][Top.i]
            f == Activation(dep.name, dep.auto)
<1>1. /\ stack /= <<>> /\ Top \in Frame /\ t \in Target
      /\ n \in Nat \ {0} /\ DOMAIN stack = 1..n
  BY TopTarget, AsTopIs DEF ScanDependency, Activated, TypeOK
<1>2. CASE stack' = Append(stack, f) /\ dep.name /= Wait /\ UNCHANGED deps
           /\ Top.i \in DOMAIN deps[t]
  <2>1. Rank[dep.name] < Rank[t]
    BY <1>1, <1>2 DEF OrderInv, Descends, Lower
  <2>2. deps[t] \in Seq(Dependency)
    BY <1>1 DEF TypeOK
  <2>3. dep.name \in Target /\ dep.auto \in BOOLEAN
    <3>1. dep \in Dependency
      BY <1>2, <2>2, ElementOfSeq, LenProperties
    <3>. QED  BY <1>2, <3>1 DEF Dependency
  <2>4. f \in Frame /\ f.target = dep.name
    BY <2>3, ActivationType DEF Activation
  <2>. HIDE DEF f
  <2>5. /\ DOMAIN stack' = 1..(n + 1) /\ stack'[n + 1] = f
        /\ \A k \in 1..n : stack'[k] = stack[k]
    BY <1>2, <2>4, AppendProperties, LenProperties DEF TypeOK
  <2>6. Rank \in [Target -> Nat]
    BY RankIs DEF Ranks
  <2>7. \A k \in 1..n : stack[k].target \in Target /\ Rank[stack[k].target] \in Nat
    <3>1. \A k \in 1..n : stack[k] \in Frame
      BY <1>1, ElementOfSeq DEF TypeOK
    <3>. QED  BY <2>6, <3>1 DEF Frame
  <2>8. \A k \in 1..n : Rank[dep.name] < Rank[stack[k].target]
    <3>. TAKE k \in 1..n
    <3>1. Rank[dep.name] \in Nat /\ Rank[t] \in Nat
      BY <1>1, <2>3, <2>6
    <3>2. t = stack[n].target
      BY DEF Top
    <3>3. CASE k = n
      BY <2>1, <3>2, <3>3
    <3>4. CASE k /= n
      <4>1. k < n /\ k \in DOMAIN stack /\ n \in DOMAIN stack
        <5>. HIDE DEF n, t, dep
        <5>. QED  BY <1>1, <3>4
      <4>2. Rank[t] < Rank[stack[k].target]
        BY <3>2, <4>1 DEF OrderInv, Chain
      <4>3. Rank[stack[k].target] \in Nat
        BY <2>7
      <4>. HIDE DEF dep, t, n
      <4>. QED  BY <2>1, <3>1, <4>2, <4>3
    <3>. QED  BY <3>3, <3>4
  <2>9. Chain'
    <3>. SUFFICES ASSUME NEW k \in 1..(n + 1), NEW l \in 1..(n + 1), k < l
                  PROVE  Rank[stack'[l].target] < Rank[stack'[k].target]
      BY <2>5 DEF Chain
    <3>1. k \in 1..n
      BY <1>1
    <3>2. CASE l = n + 1
      BY <2>4, <2>5, <2>8, <3>1, <3>2
    <3>3. CASE l /= n + 1
      <4>1. l \in 1..n
        BY <1>1, <3>3
      <4>. QED  BY <1>1, <2>5, <3>1, <4>1 DEF OrderInv, Chain
    <3>. QED  BY <3>2, <3>3
  <2>. QED  BY <1>2, <2>9 DEF OrderInv
<1>3. CASE \E g : /\ stack' = AsTop(g) /\ g.target = t
                  /\ deps' \in {deps, MarkBuilt(Top, state[dep.name])}
  <2>1. Chain'
    BY <1>1, <1>3, ChainTop DEF OrderInv
  <2>2. Descends(Rank, deps')
    BY <1>1, <1>3, MarkBuiltLower DEF OrderInv
  <2>. QED  BY <2>1, <2>2 DEF OrderInv
<1>4. ASSUME NEW g, g \in {[Top EXCEPT !.i = @ + 1],
                           [Top EXCEPT !.i = IF Top.running
                              THEN Len(deps[Top.target]) + 1 ELSE @ + 1],
                           DependencyDone(Top, dep.name, state[dep.name])}
      PROVE g.target = t
  BY <1>1, <1>4 DEF DependencyDone, Frame
<1>5. /\ Top.i \in DOMAIN deps[t]
      /\ \/ stack' = AsTop([Top EXCEPT !.i = @ + 1]) /\ UNCHANGED deps
         \/ stack' = AsTop([Top EXCEPT !.i = IF Top.running
                            THEN Len(deps[Top.target]) + 1 ELSE @ + 1])
            /\ UNCHANGED deps
         \/ stack' = AsTop(DependencyDone(Top, dep.name, state[dep.name]))
            /\ deps' = MarkBuilt(Top, state[dep.name])
         \/ stack' = Append(stack, f) /\ dep.name /= Wait /\ UNCHANGED deps
  BY DEF ScanDependency
<1>. HIDE DEF f, dep
<1>. QED  BY <1>2, <1>3, <1>4, <1>5

LEMMA EnterFullOrder ==
  ASSUME TypeOK, Activated, OrderInv, EnterFull
  PROVE  OrderInv'
<1>. DEFINE t == Top.target
            f == [Activation(t, Top.auto) EXCEPT
                    !.second = Top.second, !.restart = (state[t] = "pending"),
                    !.autos = IF KeepState THEN AutosOf(deps[t]) ELSE {}]
<1>1. stack /= <<>> /\ Top \in Frame /\ t \in Target
  BY TopTarget DEF EnterFull, Activated
<1>2. deps' \in {deps, [deps EXCEPT ![t] = Unbuilt(deps[t])]}
  BY DEF EnterFull
<1>3. Descends(Rank, deps')
  <2>1. deps[t] \in Seq(Dependency) /\ Lower(Rank, t, deps[t])
    BY <1>1 DEF TypeOK, OrderInv, Descends
  <2>2. Lower(Rank, t, Unbuilt(deps[t]))
    BY <2>1, UnbuiltLower
  <2>3. deps \in [Target -> Seq(Dependency)] /\ Descends(Rank, deps)
    BY DEF OrderInv, TypeOK
  <2>4. Descends(Rank, [deps EXCEPT ![t] = Unbuilt(deps[t])])
    <3>. HIDE DEF t
    <3>. QED  BY <1>1, <2>2, <2>3, OneListLower
  <2>. QED  BY <1>2, <2>3, <2>4
<1>4. stack' = AsTop(f) \/ stack' = AsTop([Top EXCEPT !.result = "ok"])
  BY DEF EnterFull, Returns
<1>5. f.target = t /\ [Top EXCEPT !.result = "ok"].target = t
  BY <1>1 DEF Activation, Frame
<1>. HIDE DEF f
<1>6. Chain'
  BY <1>1, <1>4, <1>5, ChainTop DEF OrderInv
<1>. QED  BY <1>3, <1>6 DEF OrderInv

LEMMA ReturnsOrder ==
  ASSUME TypeOK, stack /= <<>>, Chain, NEW r, Returns(r)
  PROVE  Chain'
<1>1. Top \in Frame
  BY TopTarget
<1>2. [Top EXCEPT !.result = r].target = Top.target
  BY <1>1 DEF Frame
<1>. QED  BY <1>2, ChainTop DEF Returns

LEMMA SameOrder ==
  ASSUME OrderInv, UNCHANGED <<stack, deps>>
  PROVE  OrderInv'
BY DEF OrderInv, Chain

LEMMA ConcludeOrder ==
  ASSUME TypeOK, stack /= <<>>, OrderInv, NEW r, NEW times,
         NEW ds \in [Target -> Seq(Dependency)], Descends(Rank, ds),
         Conclude(r, times, ds)
  PROVE  OrderInv'
<1>. DEFINE t == Top.target
            f == [Activation(t, Top.auto) EXCEPT
                    !.second = Top.second, !.restart = Top.restart,
                    !.recheck = TRUE, !.autos = AutosOf(ds[t])]
<1>1. Top \in Frame /\ t \in Target
  BY TopTarget
<1>2. deps' \in {ds, [ds EXCEPT ![t] = Unbuilt(ds[t])]}
  BY DEF Conclude
<1>3. Descends(Rank, deps')
  <2>1. ds[t] \in Seq(Dependency) /\ Lower(Rank, t, ds[t])
    BY <1>1 DEF Descends
  <2>2. Lower(Rank, t, Unbuilt(ds[t]))
    BY <2>1, UnbuiltLower
  <2>. QED  BY <1>1, <1>2, <2>2, OneListLower
<1>4. stack' = AsTop(f) \/ Returns(r)
  BY DEF Conclude
<1>5. f.target = t
  BY DEF Activation
<1>. HIDE DEF f
<1>6. Chain'
  BY <1>1, <1>4, <1>5, ChainTop, ReturnsOrder DEF OrderInv
<1>. QED  BY <1>3, <1>6 DEF OrderInv

LEMMA SerialExitOrder ==
  ASSUME TypeOK, Activated, Acyclic, OrderInv, SerialExit
  PROVE  OrderInv'
<1>. DEFINE t == Top.target
<1>1. stack /= <<>> /\ Top \in Frame /\ t \in Target
  BY TopTarget DEF SerialExit, Activated
<1>2. PICK list \in Reported(t, deps[t]) :
        LET ds == [deps EXCEPT ![t] = list] IN
        \/ \E r, times : Conclude(r, times, ds)
        \/ deps' = ds /\ UNCHANGED stack
  BY DEF SerialExit
<1>. DEFINE ds == [deps EXCEPT ![t] = list]
<1>3. ds \in [Target -> Seq(Dependency)] /\ Descends(Rank, ds)
  <2>1. deps[t] \in Seq(Dependency) /\ Lower(Rank, t, deps[t])
    BY <1>1 DEF TypeOK, OrderInv, Descends
  <2>2. list \in Seq(Dependency) /\ Lower(Rank, t, list)
    BY <1>1, <2>1, ReportedType, ReportedLower
  <2>3. Descends(Rank, ds)
    BY <1>1, <2>2, OneListLower DEF TypeOK, OrderInv
  <2>. QED  BY <1>1, <2>2, <2>3 DEF TypeOK
<1>4. \/ \E r, times : Conclude(r, times, ds)
      \/ deps' = ds /\ UNCHANGED stack
  BY <1>2
<1>5. CASE deps' = ds /\ UNCHANGED stack
  BY <1>3, <1>5 DEF OrderInv, Chain
<1>. HIDE DEF ds
<1>. QED  BY <1>1, <1>3, <1>4, <1>5, ConcludeOrder

LEMMA FinishChildOrder ==
  ASSUME TypeOK, Acyclic, OrderInv, FinishChild
  PROVE  OrderInv'
<1>1. PICK i \in Finished :
        LET t == running_list[i].target IN
        /\ UNCHANGED stack
        /\ \/ UNCHANGED deps
           \/ \E ds \in Reported(t, deps[t]) : deps' = [deps EXCEPT ![t] = ds]
  BY Zenon DEF FinishChild
<1>. DEFINE t == running_list[i].target
<1>2. t \in Target
  <2>1. running_list[i] \in Entry
    BY ElementOfSeq, LenProperties DEF TypeOK, Finished
  <2>. QED  BY <2>1 DEF Entry
<1>3. CASE UNCHANGED deps
  BY <1>1, <1>3, SameOrder
<1>4. CASE \E ds \in Reported(t, deps[t]) : deps' = [deps EXCEPT ![t] = ds]
  <2>1. PICK list \in Reported(t, deps[t]) : deps' = [deps EXCEPT ![t] = list]
    BY <1>4
  <2>2. deps[t] \in Seq(Dependency) /\ Lower(Rank, t, deps[t])
    BY <1>2 DEF TypeOK, OrderInv, Descends
  <2>3. Lower(Rank, t, list)
    BY <1>2, <2>2, ReportedLower
  <2>4. Descends(Rank, deps')
    BY <1>2, <2>1, <2>3, OneListLower DEF TypeOK, OrderInv
  <2>. QED  BY <1>1, <2>4 DEF OrderInv, Chain
<1>. QED  BY <1>1, <1>3, <1>4

LEMMA ChainSingle ==
  ASSUME NEW f, stack' = <<f>>
  PROVE  Chain'
BY SingletonIs DEF Chain

LEMMA OrderStep ==
  ASSUME TypeOK, Activated, Acyclic, OrderInv, [Next]_vars
  PROVE  OrderInv'
<1>1. CASE EnterFull \/ ScanDependency \/ SerialExit \/ FinishChild
  BY <1>1, EnterFullOrder, ChainScan, SerialExitOrder, FinishChildOrder
<1>2. CASE EnterEarly \/ AddPending \/ RunCommand \/ DistributeProcess
  <2>1. stack /= <<>> /\ UNCHANGED deps
    BY <1>2 DEF EnterEarly, AddPending, RunCommand, DistributeProcess, Scanned,
       Activated, targetVars
  <2>2. UNCHANGED stack \/ \E r : Returns(r)
    BY <1>2 DEF EnterEarly, AddPending, RunCommand, DistributeProcess, BuildAlone,
       StartJob, NoSlot, AwaitFor, AdjustError
  <2>3. Chain'
    BY <2>1, <2>2, ReturnsOrder DEF OrderInv, Chain
  <2>. QED  BY <2>1, <2>3 DEF OrderInv
<1>3. CASE DonameCheck
  <2>1. stack /= <<>> /\ Top \in Frame
    BY <1>3, TopTarget DEF DonameCheck, Activated
  <2>2. \/ \E r, failed : PassOn(r, failed)
        \/ UNCHANGED <<stack, deps>>
        \/ stack' = AsTop([Top EXCEPT !.second = TRUE]) /\ UNCHANGED deps
    BY <1>3 DEF DonameCheck
  <2>3. [Top EXCEPT !.second = TRUE].target = Top.target
    BY <2>1 DEF Frame
  <2>4. CASE stack' = AsTop([Top EXCEPT !.second = TRUE]) /\ UNCHANGED deps
    BY <2>1, <2>3, <2>4, ChainTop DEF OrderInv
  <2>. QED  BY <2>1, <2>2, <2>4, ChainPassOn, SameOrder DEF OrderInv
<1>4. CASE NoCommand \/ CommandNotRun
  <2>1. stack /= <<>>
    BY <1>4 DEF NoCommand, CommandNotRun, Scanned, Activated
  <2>2. \E r, times : Conclude(r, times, deps)
    BY <1>4 DEF NoCommand, CommandNotRun
  <2>. QED  BY <2>1, <2>2, ConcludeOrder DEF OrderInv, TypeOK
<1>5. CASE NextSerial \/ NextPending \/ MakeTargets
  <2>1. UNCHANGED deps /\ (UNCHANGED stack \/ \E f : stack' = <<f>>)
    BY <1>5 DEF NextSerial, NextPending, MakeTargets, Resume, targetVars
  <2>. QED  BY <2>1, ChainSingle DEF OrderInv, Chain
<1>6. CASE AwaitParallel \/ FinishChildrenReturns \/ FinishRunning \/ Drain
  BY <1>6, SameOrder DEF AwaitParallel, FinishChildrenReturns, FinishRunning, Drain,
     targetVars
<1>7. CASE Over \/ UNCHANGED vars \/ \E t \in Target : JobExit(t)
  BY <1>7, SameOrder DEF Over, vars, JobExit, targetVars
<1>. QED  BY <1>1, <1>2, <1>3, <1>4, <1>5, <1>6, <1>7 DEF Next, MakeStep
-----------------------------------------------------------------------------
(* process_next() *)

LEMMA QuietStep ==
  ASSUME TypeOK, QuietInv, FatalInv, [Next]_vars
  PROVE  QuietInv'
<1>1. CASE EnterEarly \/ EnterFull \/ AddPending \/ RunCommand \/ ScanDependency
  <2>1. /\ pc \in {"enter", "deps"} /\ UNCHANGED <<quiescent, caller>>
        /\ pc' \in {"check", "deps", "enter", "serial", "slots"}
    BY <1>1 DEF EnterEarly, EnterFull, AddPending, RunCommand, ScanDependency,
       Scanned, BuildAlone, Returns
  <2>. QED  BY <2>1 DEF QuietInv, InDoname, TopIsMade
<1>2. CASE DonameCheck
  BY <1>2 DEF DonameCheck, PassOn, Fatal, QuietInv, InDoname, TopIsMade, TypeOK
<1>3. CASE NoCommand \/ CommandNotRun \/ SerialExit
  <2>1. /\ pc \in {"serial", "deps"} /\ UNCHANGED <<quiescent, caller>>
        /\ pc' \in {"check", "deps", "drain", "exit"}
    BY <1>3 DEF NoCommand, CommandNotRun, SerialExit, Conclude, Returns, Scanned, Fatal
  <2>. QED  BY <2>1 DEF QuietInv, InDoname, TopIsMade
<1>4. CASE DistributeProcess
  BY <1>4 DEF DistributeProcess, AwaitFor, StartJob, NoSlot, BuildAlone, AdjustError,
     Returns, QuietInv, InDoname, TopIsMade
<1>5. CASE AwaitParallel \/ FinishRunning \/ Drain
  BY <1>5 DEF AwaitParallel, FinishRunning, Drain, listVars, QuietInv, InDoname,
     TopIsMade
<1>6. CASE FinishChildrenReturns
  BY <1>6 DEF FinishChildrenReturns, listVars, QuietInv, InDoname, TopIsMade, TypeOK
<1>7. CASE FinishChild
  <2>1. /\ pc = "finish" /\ UNCHANGED <<back, quiescent, caller>>
        /\ Fatal \/ UNCHANGED pc
    BY <1>7, Zenon DEF FinishChild
  <2>. QED  BY <2>1 DEF Fatal, QuietInv, InDoname, TopIsMade
<1>8. CASE NextSerial \/ NextPending \/ MakeTargets
  <2>1. \/ quiescent' = FALSE
        \/ pc' = "enter" /\ caller' = "goals"
        \/ pc = "next1" /\ pc' = "next2" /\ UNCHANGED <<quiescent, running_list>>
        \/ pc' \in {"drain", "exit", "goals", "finish_running", "done"}
    BY <1>8 DEF NextSerial, NextPending, MakeTargets, Resume, Fatal
  <2>. QED  BY <2>1 DEF QuietInv, InDoname, TopIsMade
<1>9. CASE \E t \in Target : JobExit(t)
  <2>1. UNCHANGED <<pc, back, quiescent, caller>>
    BY <1>9 DEF JobExit
  <2>2. DOMAIN running_list' = DOMAIN running_list
    BY <1>9 DEF JobExit
  <2>3. running_list \in Seq(Entry)
    BY DEF TypeOK
  <2>4. running_list /= <<>> => running_list' /= <<>>
    <3>1. running_list /= <<>> => 1 \in DOMAIN running_list
      BY <2>3, EmptySeq, LenProperties
    <3>2. DOMAIN <<>> = {}
      OBVIOUS
    <3>. QED  BY <2>2, <3>1, <3>2
  <2>. QED  BY <2>1, <2>4 DEF QuietInv, InDoname, TopIsMade
<1>10. CASE Over \/ UNCHANGED vars
  BY <1>10 DEF Over, vars, listVars, QuietInv, InDoname, TopIsMade
<1>. QED  BY <1>1, <1>2, <1>3, <1>4, <1>5, <1>6, <1>7, <1>8, <1>9, <1>10
          DEF Next, MakeStep
-----------------------------------------------------------------------------
(* The end of make *)

Outs(list) == \A i \in DOMAIN list : list[i].out

LEMMA AppendOut ==
  ASSUME NEW list \in Seq(Entry), NEW e \in Entry, Outs(list), e.out
  PROVE  Outs(Append(list, e))
<1>1. /\ Len(list) \in Nat
      /\ DOMAIN list = 1..Len(list)
      /\ DOMAIN Append(list, e) = 1..(Len(list) + 1)
      /\ \A j \in 1..Len(list) : Append(list, e)[j] = list[j]
      /\ Append(list, e)[Len(list) + 1] = e
  BY AppendProperties, LenProperties
<1>2. \A j \in 1..(Len(list) + 1) : j = Len(list) + 1 \/ j \in 1..Len(list)
  BY <1>1
<1>. QED  BY <1>1, <1>2 DEF Outs

LEMMA UnlinkOut ==
  ASSUME running_list \in Seq(Entry), NEW i \in DOMAIN running_list, Outs(running_list)
  PROVE  Outs(Unlink(i))
<1>. DEFINE n == Len(running_list)
<1>1. /\ n \in Nat /\ DOMAIN running_list = 1..n /\ i \in 1..n
      /\ DOMAIN Unlink(i) = 1..(n - 1)
      /\ \A j \in 1..(n - 1) :
            Unlink(i)[j] = running_list[IF j < i THEN j ELSE j + 1]
  BY UnlinkType, LenProperties
<1>2. \A j \in 1..(n - 1) : (IF j < i THEN j ELSE j + 1) \in 1..n
  BY <1>1
<1>. HIDE DEF n
<1>. QED  BY <1>1, <1>2 DEF Outs

\* A new entry says that the output file is there.
LEMMA WaitingOut ==
  ASSUME NEW list \in Seq(Entry), Outs(list), NEW t \in Target,
         NEW kind \in {"pending", "serial"}, NEW again \in BOOLEAN
  PROVE  Outs(Append(list, Waiting(t, kind, again)))
<1>. DEFINE e == Waiting(t, kind, again)
<1>1. e \in Entry
  BY WaitingType
<1>2. e.out
  BY DEF Waiting
<1>. HIDE DEF e
<1>3. Outs(Append(list, e))
  BY <1>1, <1>2, AppendOut
<1>. QED  BY <1>3 DEF e

LEMMA BuildAloneOut ==
  ASSUME TypeOK, stack /= <<>>, Outs(running_list), BuildAlone
  PROVE  Outs(running_list') /\ pc' \notin {"done", "exit"}
<1>1. Top.target \in Target /\ running_list \in Seq(Entry)
  BY TopTarget DEF TypeOK
<1>2. running_list' \in {running_list,
                         Append(running_list, Waiting(Top.target, "serial", FALSE))}
  BY DEF BuildAlone
<1>3. Outs(Append(running_list, Waiting(Top.target, "serial", FALSE)))
  BY <1>1, WaitingOut
<1>. QED  BY <1>2, <1>3 DEF BuildAlone, Returns

\* A step of doname() does not end make, unless fatal() calls fatal().
LEMMA DonameEnd ==
  ASSUME TypeOK, Activated, FatalInv, EndInv,
         \/ EnterEarly \/ EnterFull \/ DonameCheck \/ ScanDependency \/ AddPending
         \/ NoCommand \/ CommandNotRun \/ RunCommand \/ DistributeProcess
         \/ SerialExit
  PROVE  EndInv'
<1>1. Outs(running_list) /\ running_list \in Seq(Entry)
  BY DEF EndInv, Outs, TypeOK
<1>. SUFFICES Outs(running_list') /\ pc' \notin {"done", "exit"}
  BY DEF EndInv, Outs
<1>2. CASE EnterEarly \/ AddPending
  <2>1. stack /= <<>>
    BY <1>2 DEF EnterEarly, AddPending, Scanned, Activated
  <2>2. Top.target \in Target
    BY <2>1, TopTarget
  <2>3. running_list' \in {running_list,
                           Append(running_list, Waiting(Top.target, "pending", FALSE))}
    BY <1>2 DEF EnterEarly, AddPending
  <2>4. Outs(Append(running_list, Waiting(Top.target, "pending", FALSE)))
    BY <1>1, <2>2, WaitingOut
  <2>5. pc' = "check"
    BY <1>2 DEF EnterEarly, AddPending, Returns
  <2>6. Outs(running_list')
    BY <1>1, <2>3, <2>4
  <2>. QED  BY <2>5, <2>6
<1>3. CASE EnterFull \/ ScanDependency
  BY <1>1, <1>3 DEF EnterFull, ScanDependency, Returns, listVars
<1>4. CASE DonameCheck
  <2>1. /\ UNCHANGED running_list
        /\ pc' \in {caller, "deps", "enter"} \/ Fatal
        /\ pc = "check"
    BY <1>4 DEF DonameCheck, PassOn, listVars
  <2>2. ~fatal_in_progress
    BY <2>1 DEF FatalInv, Draining
  <2>. QED  BY <1>1, <2>1, <2>2 DEF Fatal, TypeOK
<1>5. CASE NoCommand \/ CommandNotRun \/ SerialExit
  <2>1. /\ UNCHANGED running_list
        /\ pc' \in {"check", "deps"} \/ Fatal
        /\ pc \in {"deps", "serial"}
    BY <1>5, Zenon DEF NoCommand, CommandNotRun, SerialExit, Scanned, Conclude,
       Returns, listVars
  <2>2. ~fatal_in_progress
    BY <2>1 DEF FatalInv, Draining
  <2>3. pc' \in {"check", "deps", "drain"}
    BY <2>1, <2>2, Zenon DEF Fatal
  <2>. QED  BY <1>1, <2>1, <2>3
<1>6. CASE RunCommand
  <2>1. stack /= <<>>
    BY <1>6 DEF RunCommand, Scanned, Activated
  <2>. QED  BY <1>1, <1>6, <2>1, BuildAloneOut DEF RunCommand
<1>7. CASE DistributeProcess
  <2>1. stack /= <<>>
    BY <1>7 DEF DistributeProcess, Activated
  <2>2. CASE StartJob
    <3>1. Job(Top) \in Entry
      BY <2>1, TopTarget, JobType
    <3>2. Job(Top).out
      BY DEF Job, Waiting
    <3>3. running_list' = Append(running_list, Job(Top)) /\ pc' = "check"
      BY <2>2 DEF StartJob, Returns
    <3>. QED  BY <1>1, <3>1, <3>2, <3>3, AppendOut
  <2>3. CASE NoSlot
    BY <1>1, <2>1, <2>3, BuildAloneOut DEF NoSlot
  <2>4. CASE UNCHANGED running_list /\ pc' \in {"slots", "await"}
    BY <1>1, <2>4
  <2>. QED  BY <1>7, <2>2, <2>3, <2>4 DEF DistributeProcess, AwaitFor, AdjustError
<1>. QED  BY <1>2, <1>3, <1>4, <1>5, <1>6, <1>7

LEMMA JobExitEnd ==
  ASSUME TypeOK, MayLose = {}, EndInv, NEW t \in Target, JobExit(t)
  PROVE  EndInv'
<1>1. PICK i \in DOMAIN running_list, exit \in {"ok", "failed"} :
        running_list' = [running_list EXCEPT
              ![i] = [running_list[i] EXCEPT !.exit = exit, !.out = TRUE,
                                             !.time = RecipeTime(t)]]
  BY DEF JobExit
<1>2. running_list[i] \in Entry
  BY ElementOfSeq, LenProperties DEF TypeOK
<1>3. /\ DOMAIN running_list' = DOMAIN running_list
      /\ \A j \in DOMAIN running_list : running_list'[j].out
  BY <1>1, <1>2 DEF Entry, EndInv
<1>4. UNCHANGED <<pc, process_cnt>>
  BY DEF JobExit
<1>5. pc /= "done"
  <2>1. running_list /= <<>>
    BY <1>1
  <2>. QED  BY <2>1 DEF EndInv
<1>. QED  BY <1>3, <1>4, <1>5 DEF EndInv

LEMMA AwaitParallelEnd ==
  ASSUME TypeOK, EndInv, AwaitParallel
  PROVE  EndInv'
<1>1. \A i \in DOMAIN running_list : running_list[i] \in Entry
  BY ElementOfSeq, LenProperties DEF TypeOK
<1>2. /\ DOMAIN running_list' = DOMAIN running_list
      /\ \A i \in DOMAIN running_list : running_list'[i].out
  BY <1>1 DEF AwaitParallel, Entry, EndInv
<1>3. pc' = "finish"
  BY DEF AwaitParallel
<1>. QED  BY <1>2, <1>3 DEF EndInv

LEMMA FinishChildEnd ==
  ASSUME TypeOK, FatalInv, EndInv, FinishChild
  PROVE  EndInv'
<1>1. PICK i \in Finished :
        LET e == running_list[i] IN
        /\ pc = "finish"
        /\ running_list' = Unlink(i) \/ \E ds : FinishDoname(e, ds, Unlink(i))
        /\ ~e.out \/ (Fatal /\ ~fatal_in_progress) \/ UNCHANGED pc
  BY Zenon DEF FinishChild
<1>. DEFINE e == running_list[i]
            t == e.target
<1>2. i \in DOMAIN running_list /\ t \in Target /\ e.out
  <2>1. i \in DOMAIN running_list
    BY DEF Finished
  <2>2. e \in Entry
    BY <2>1, ElementOfSeq, LenProperties DEF TypeOK
  <2>. QED  BY <2>1, <2>2 DEF Entry, EndInv
<1>3. Unlink(i) \in Seq(Entry) /\ Outs(Unlink(i))
  BY <1>2, UnlinkType, UnlinkOut DEF TypeOK, EndInv, Outs
<1>4. running_list' \in {Unlink(i), Append(Unlink(i), Waiting(t, "pending", TRUE))}
  BY <1>1 DEF FinishDoname
<1>5. Outs(running_list')
  BY <1>2, <1>3, <1>4, WaitingOut
<1>6. pc' \notin {"done", "exit"}
  BY <1>1, <1>2 DEF Fatal
<1>. QED  BY <1>5, <1>6 DEF EndInv, Outs

LEMMA EndStep ==
  ASSUME IInv, FatalInv, MayLose = {}, EndInv, [Next]_vars
  PROVE  EndInv'
<1>1. TypeOK /\ Activated
  BY DEF IInv, TypeInv
<1>2. CASE \/ EnterEarly \/ EnterFull \/ DonameCheck \/ ScanDependency \/ AddPending
           \/ NoCommand \/ CommandNotRun \/ RunCommand \/ DistributeProcess
           \/ SerialExit
  BY <1>1, <1>2, DonameEnd
<1>3. CASE AwaitParallel \/ FinishChild \/ \E t \in Target : JobExit(t)
  BY <1>1, <1>3, AwaitParallelEnd, FinishChildEnd, JobExitEnd, Zenon
<1>4. CASE NextSerial \/ NextPending
  <2>0. pc \in {"next1", "next2"} /\ ~fatal_in_progress
    BY <1>4 DEF NextSerial, NextPending, FatalInv, Draining
  <2>1. /\ pc' \notin {"done", "exit"}
        /\ \/ UNCHANGED running_list
           \/ \E i \in DOMAIN running_list : running_list' = Unlink(i)
    BY <1>4, <2>0, Zenon DEF NextSerial, NextPending, Resume, Fatal, Serials, Startable
  <2>2. Outs(running_list')
    BY <1>1, <2>1, UnlinkOut DEF EndInv, Outs, TypeOK
  <2>. QED  BY <2>1, <2>2 DEF EndInv, Outs
<1>5. CASE FinishChildrenReturns \/ FinishRunning \/ MakeTargets
  BY <1>1, <1>5 DEF FinishChildrenReturns, FinishRunning, MakeTargets, listVars, EndInv,
     TypeOK
<1>6. CASE Drain
  <2>1. process_cnt \in Nat
    <3>1. process_cnt = Cardinality(JobsOf(running_list))
      BY CountIsOfList DEF IInv, CountInv
    <3>. QED  BY <1>1, <3>1, JobsFinite DEF TypeOK
  <2>. QED  BY <1>6, <2>1 DEF Drain, listVars, EndInv
<1>7. CASE Over \/ UNCHANGED vars
  BY <1>7 DEF Over, vars, listVars, EndInv
<1>. QED  BY <1>2, <1>3, <1>4, <1>5, <1>6, <1>7 DEF Next, MakeStep
-----------------------------------------------------------------------------
(* The theorems *)

LEMMA LeastNumber ==
  ASSUME NEW T \in SUBSET Nat, T /= {}
  PROVE  \E n \in T : \A k \in T : n <= k
<1>1. PICK n \in T : \A k \in T : <<k, n>> \notin OpToRel(<, Nat)
  BY NatLessThanWellFounded, WFMin
<1>2. \A k \in T : ~(k < n)
  BY <1>1 DEF OpToRel
<1>. QED  BY <1>2

LEMMA TopIsNew ==
  ASSUME TypeOK, stack /= <<>>, (Acyclic /\ OrderInv) \/ NoGroups
  PROVE  NewTop
<1>1. CASE NoGroups
  BY <1>1, TopTarget DEF NoGroups, NewTop, GroupRunning
<1>2. CASE Acyclic /\ OrderInv
  <2>1. Rank[Top.target] \in Nat
    BY <1>2, RankIs, TopTarget DEF Ranks
  <2>2. Len(stack) \in DOMAIN stack
    BY AsTopIs DEF TypeOK
  <2>3. \A k \in DOMAIN stack : k < Len(stack) =>
           Rank[Top.target] < Rank[stack[k].target]
    BY <1>2, <2>2 DEF OrderInv, Chain, Top
  <2>. QED  BY <2>1, <2>3 DEF NewTop, Others
<1>. QED  BY <1>1, <1>2

LEMMA RunningInit == Init => RunningInv
<1>. SUFFICES ASSUME Init PROVE RunningInv
  OBVIOUS
<1>1. IInv
  BY InitCount
<1>2. running_list = <<>> /\ stack = <<>> /\ DOMAIN <<>> = {}
      /\ pc = "goals" /\ back = "goals" /\ ~fatal_in_progress
  BY DEF Init
<1>3. FatalInv /\ QuietInv /\ EndInv
  BY <1>2 DEF FatalInv, Draining, QuietInv, InDoname, TopIsMade, EndInv
<1>4. BuildInv
  BY <1>2 DEF Init, BuildInv, ListInv, Once, Waits, MakingInv, Making, PendingInv
<1>5. Acyclic => OrderInv
  <2>1. deps \in Makefiles
    BY DEF Init
  <2>. QED  BY <1>2, <2>1, RankIs DEF Ranks, OrderInv, Chain
<1>. QED  BY <1>1, <1>3, <1>4, <1>5 DEF RunningInv

LEMMA RunningStep == RunningInv /\ [Next]_vars => RunningInv'
<1>. SUFFICES ASSUME RunningInv, [Next]_vars PROVE RunningInv'
  OBVIOUS
<1>1. TypeOK /\ Activated /\ FatalInv /\ QuietInv /\ IInv
  BY DEF RunningInv, IInv, TypeInv
<1>2. IInv'
  BY <1>1, CountStep
<1>3. FatalInv' /\ (fatal_in_progress => fatal_in_progress') /\ QuietInv'
  BY <1>1, FatalStep, QuietStep
<1>4. Acyclic => OrderInv'
  BY <1>1, OrderStep DEF RunningInv
<1>5. MayLose = {} => EndInv'
  BY <1>1, EndStep DEF RunningInv
<1>6. ASSUME Acyclic \/ NoGroups, ~fatal_in_progress' PROVE BuildInv'
  <2>1. ~fatal_in_progress /\ BuildInv
    BY <1>3, <1>6 DEF RunningInv
  <2>2. EnterEarly => stack /= <<>>
    BY <1>1 DEF EnterEarly, Activated
  <2>3. EnterEarly => NewTop
    BY <1>1, <1>6, <2>2, TopIsNew DEF RunningInv
  <2>. QED  BY <1>1, <1>6, <2>1, <2>3, BuildStep
<1>. QED  BY <1>2, <1>3, <1>4, <1>5, <1>6 DEF RunningInv

\* What the running list, the activations of doname() and the flags of fatal()
\* and process_next() always satisfy, in every reachable state.
THEOREM RunningInvariant == Spec => []RunningInv
BY RunningInit, RunningStep, PTL DEF Spec

\* The running list of parallel.cc: a target is build_running exactly while it
\* has its one entry.  It takes that no rule has a "+" group, or that no target
\* depends on itself (doname.cc 373 puts a target of a running group on the
\* list even when it is in progress).
THEOREM ListIsOfRunning ==
  ASSUME Acyclic \/ NoGroups
  PROVE  Spec => []OneEntryPerTarget
<1>1. RunningInv => OneEntryPerTarget
  BY DEF RunningInv, BuildInv, ListInv, Once, Waits, OneEntryPerTarget
<1>. QED  BY <1>1, RunningInvariant, PTL

\* process_next() never says "deadlock detected" (parallel.cc 1191) when no
\* target depends on itself: the lowest target on the list can go on.
THEOREM NoneIsStuck ==
  ASSUME Acyclic
  PROVE  Spec => []NoDeadlock
<1>1. ASSUME RunningInv PROVE NoDeadlock
  <2>. SUFFICES ASSUME pc = "next2", Deadlock PROVE FALSE
    BY DEF NoDeadlock
  <2>. DEFINE rk(i) == Rank[running_list[i].target]
  <2>1. TypeOK /\ BuildInv /\ OrderInv
    BY <1>1 DEF RunningInv, IInv, TypeInv, FatalInv, Draining
  <2>2. running_list /= <<>>
    BY <1>1 DEF RunningInv, QuietInv, Deadlock
  <2>3. \A i \in DOMAIN running_list :
           running_list[i].target \in Target /\ rk(i) \in Nat
    <3>1. \A i \in DOMAIN running_list : running_list[i] \in Entry
      BY <2>1, ElementOfSeq, LenProperties DEF TypeOK
    <3>. QED  BY <3>1, RankIs DEF Ranks, Entry
  <2>4. PICK i \in DOMAIN running_list : \A j \in DOMAIN running_list : rk(i) <= rk(j)
    <3>. DEFINE S == {rk(j) : j \in DOMAIN running_list}
    <3>1. S \subseteq Nat /\ S /= {}
      <4>0. running_list \in Seq(Entry)
        BY <2>1 DEF TypeOK
      <4>1. 1 \in DOMAIN running_list
        BY <2>2, <4>0, EmptySeq, LenProperties
      <4>2. \A j \in DOMAIN running_list : rk(j) \in Nat
        BY <2>3
      <4>. HIDE DEF rk
      <4>. QED  BY <4>1, <4>2
    <3>2. PICK m \in S : \A x \in S : m <= x
      <4>. HIDE DEF S
      <4>. QED  BY <3>1, LeastNumber
    <3>3. PICK i \in DOMAIN running_list : rk(i) = m
      BY <3>2
    <3>4. \A j \in DOMAIN running_list : rk(j) \in S
      OBVIOUS
    <3>. HIDE DEF S, rk
    <3>. QED  BY <3>2, <3>3, <3>4
  <2>. DEFINE t == running_list[i].target
  <2>5. running_list[i].st = "pending" /\ ~GroupRunning(t)
    BY <2>3 DEF Deadlock, GroupRunning, IsRunning
  <2>6. ASSUME NEW j \in DOMAIN deps[t], deps[t][j].name /= Wait
        PROVE  state[deps[t][j].name] \notin {"running", "pending", "serial"}
    <3>. DEFINE d == deps[t][j].name
    <3>1. d \in Target /\ Rank[d] < Rank[t]
      <4>1. t \in Target /\ deps[t] \in Seq(Dependency)
        BY <2>1, <2>3 DEF TypeOK
      <4>2. deps[t][j] \in Dependency
        BY <4>1, ElementOfSeq, LenProperties
      <4>. QED  BY <2>1, <2>6, <4>1, <4>2 DEF Dependency, OrderInv, Descends, Lower
    <3>2. state[d] /= "serial"
      BY <2>1, <3>1 DEF TypeOK, Doname
    <3>3. state[d] /= "pending"
      BY <2>1, <3>1 DEF BuildInv, PendingInv
    <3>4. state[d] /= "running"
      <4>. SUFFICES ASSUME NEW k \in DOMAIN running_list, running_list[k].target = d
                    PROVE  FALSE
        BY <2>1, <3>1 DEF BuildInv, ListInv, Waits
      <4>1. rk(k) = Rank[d] /\ rk(i) = Rank[t]
        OBVIOUS
      <4>2. rk(k) \in Nat /\ rk(i) \in Nat /\ rk(i) <= rk(k)
        BY <2>3, <2>4
      <4>. HIDE DEF rk, d, t
      <4>. QED  BY <3>1, <4>1, <4>2
    <3>. QED  BY <3>2, <3>3, <3>4
  <2>7. i \in Startable
    BY <2>5, <2>6 DEF Startable
  <2>. QED  BY <2>7 DEF Deadlock
<1>. QED  BY <1>1, RunningInvariant, PTL

\* make ends, well or by fatal() (misc.cc 189), only when every job has been
\* waited for.  It takes that the output file of a job does not vanish: then
\* fatal() is called while it waits, and exits at once.
THEOREM AllJobsAreAwaited ==
  ASSUME MayLose = {}
  PROVE  Spec => []NoJobLeft
<1>1. ASSUME RunningInv PROVE NoJobLeft
  <2>1. EndInv /\ running_list \in Seq(Entry) /\ process_cnt = Cardinality(Jobs)
    BY <1>1 DEF RunningInv, IInv, TypeInv, TypeOK, CountInv, JobsCounted
  <2>2. CASE pc = "done"
    <3>1. DOMAIN <<>> = {}
      OBVIOUS
    <3>. QED  BY <2>1, <2>2, <3>1 DEF EndInv, NoJobLeft, Jobs
  <2>3. CASE pc = "exit"
    <3>1. IsFiniteSet(Jobs)
      BY <2>1, JobsFinite DEF Jobs, JobsOf
    <3>. QED  BY <2>1, <2>3, <3>1, FS_EmptySet DEF EndInv, NoJobLeft
  <2>. QED  BY <2>2, <2>3 DEF NoJobLeft
<1>. QED  BY <1>1, RunningInvariant, PTL
=============================================================================
