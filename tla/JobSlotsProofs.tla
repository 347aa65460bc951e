--------------------------- MODULE JobSlotsProofs ---------------------------
(***************************************************************************)
(* The permits of the M2 semaphore are conserved, the semaphore stays      *)
(* while a dmake uses it, and the limit holds for all dmakes of one family *)
(* together, however many there are: proofs for JobSlots.                  *)
(***************************************************************************)
EXTENDS JobSlots, FiniteSetTheorems, FunctionTheorems,
        WellFoundedInduction, TLAPS

-----------------------------------------------------------------------------
(* Jobs                                                                    *)

LEMMA KidsFinite ==
  ASSUME NEW d
  PROVE  /\ IsFiniteSet(Kids(d)) /\ Cardinality(Kids(d)) \in Nat
         /\ Cardinality(Kids(d)) = 0 <=> Kids(d) = {}
<1>1. IsFiniteSet(Kids(d))
  BY FS_Subset, SlotsAssumption DEF Kids
<1>. QED  BY <1>1, FS_CardinalityType, FS_EmptySet

\* A dmake without jobs has neither commands nor dmakes below it.
LEMMA NoJobs ==
  ASSUME NEW d \in Dmake, TypeOK
  PROVE  /\ Jobs(d) \in Nat
         /\ Jobs(d) = 0 <=> running[d] = 0 /\ ended[d] = 0 /\ Kids(d) = {}
BY KidsFinite DEF Jobs, TypeOK

-----------------------------------------------------------------------------
(* What each dmake is, whatever becomes of the others                      *)

\* Nothing is known of a dmake that was not started.
NewIsFresh(d) ==
    pc[d] = "new" => boss[d] = None /\ mode[d] = "UNKNOWN" /\ d \notin forked

\* Only dmakes that go on have others below them: as jobs, or one alone.
BossWaits(d) ==
    boss[d] /= None =>
      /\ pc[d] /= "new"
      /\ pc[boss[d]] \in {"work", "slots", "wait", "retry", "serial"}
      /\ d \in forked <=> pc[boss[d]] /= "serial"

SerialIsAlone(d) ==
    pc[d] = "serial" => \A a, b \in Kids(d) : a = b

\* Who has no jobs.
Jobless(d) ==
    /\ pc[d] \in {"new", "serial", "stat", "destroy", "detach", "gone"}
         => running[d] = 0 /\ ended[d] = 0
    /\ pc[d] = "killed" => ended[d] = 0
    /\ mode[d] = "UNKNOWN" => /\ running[d] = 0 /\ ended[d] = 0
                              /\ pc[d] /= "serial" => Kids(d) = {}

\* The semaphore of a dmake is the one its environment names.
SemIsNamed(d) ==
    /\ sem[d] /= None => mode[d] = "M2" /\ env[d].file = sem[d]
    /\ mode[d] = "M2" /\ pc[d] /= "gone" => sem[d] /= None
    /\ pc[d] = "gone" => sem[d] = None
    /\ pc[d] \in {"stat", "destroy", "detach"} => mode[d] = "M2"
    /\ pc[d] \in {"slots", "wait", "retry"} => left[d] > 0

\* A name is that of a dmake which made a semaphore.
NameIsMade(d) ==
    /\ env[d].file /= None => /\ mode[env[d].file] = "M2"
                              /\ env[env[d].file].file = env[d].file
    /\ live[d] => mode[d] = "M2"

Shape ==
    /\ pc[Root] /= "new" /\ boss[Root] = None /\ Root \notin forked
    /\ \A d \in Dmake : /\ NewIsFresh(d) /\ BossWaits(d) /\ SerialIsAlone(d)
                        /\ Jobless(d) /\ SemIsNamed(d) /\ NameIsMade(d)

LEMMA InitShape == Init => TypeOK /\ Shape
BY SlotsAssumption DEF Init, TypeOK, Shape, NewIsFresh, BossWaits, SerialIsAlone, Jobless,
     SemIsNamed, NameIsMade, Kids

\* A command is started, as a job or by d itself.
LEMMA CommandType ==
  ASSUME NEW d \in Dmake, TypeOK, Shape, left[d] > 0
  PROVE  /\ StartJob(d) /\ value' \in [Dmake -> Nat] => TypeOK'
         /\ Serially(d) => TypeOK'
<1>1. left[d] - 1 \in 0..Recipes
  BY SlotsAssumption DEF TypeOK
<1>2. ASSUME left' = [left EXCEPT ![d] = @ - 1] PROVE left' \in [Dmake -> 0..Recipes]
  BY <1>1, <1>2 DEF TypeOK
<1>3. ASSUME StartJob(d), value' \in [Dmake -> Nat] PROVE TypeOK'
  <2>1. left' \in [Dmake -> 0..Recipes]
    BY <1>2, <1>3 DEF StartJob
  <2>2. /\ running' \in [Dmake -> Nat] /\ boss' \in [Dmake -> Dmake \cup {None}]
        /\ forked' \subseteq Dmake
    BY <1>3 DEF StartJob, Command, TypeOK
  <2>3. pc' \in [Dmake -> {"new", "work", "slots", "wait", "retry", "serial",
                              "stat", "destroy", "detach", "gone", "killed"}]
    BY <1>3 DEF StartJob, Command, TypeOK
  <2>4. env' \in [Dmake -> [adjust : {"M2", "NO"}, file : Dmake \cup {None}]]
    BY <1>3 DEF StartJob, Command, TypeOK
  <2>. QED  BY <1>3, <2>1, <2>2, <2>3, <2>4 DEF StartJob, TypeOK
<1>4. ASSUME Serially(d) PROVE TypeOK'
  <2>1. left' \in [Dmake -> 0..Recipes]
    BY <1>2, <1>4 DEF Serially
  <2>2. boss' \in [Dmake -> Dmake \cup {None}]
    BY <1>4 DEF Serially, TypeOK, shared, family
  <2>3. pc' \in [Dmake -> {"new", "work", "slots", "wait", "retry", "serial",
                              "stat", "destroy", "detach", "gone", "killed"}]
    BY <1>4 DEF Serially, TypeOK
  <2>4. env' \in [Dmake -> [adjust : {"M2", "NO"}, file : Dmake \cup {None}]]
    BY <1>4 DEF Serially, TypeOK
  <2>. QED  BY <1>4, <2>1, <2>2, <2>3, <2>4 DEF Serially, TypeOK, shared
<1>. QED  BY <1>3, <1>4

LEMMA StepType ==
  ASSUME NEW d \in Dmake, TypeOK, Shape,
         Step(d) \/ JobExit(d) \/ SerialExit(d) \/ Crash(d)
  PROVE  TypeOK'
<1>. USE SlotsAssumption DEF family, shared
<1>1. CASE Begin(d)
  BY <1>1 DEF Begin, TypeOK
<1>2. CASE Alone(d)
  BY <1>2, CommandType DEF Alone
<1>3. CASE AdjustInit(d)
  <2>1. env' \in [Dmake -> [adjust : {"M2", "NO"}, file : Dmake \cup {None}]]
    BY <1>3 DEF AdjustInit, M2Init, AdjustError, TypeOK
  <2>2. SemOf(d) \in Dmake
    BY DEF SemOf, TypeOK
  <2>3. /\ sem' \in [Dmake -> Dmake \cup {None}]
        /\ live' \in [Dmake -> BOOLEAN] /\ value' \in [Dmake -> Nat]
    <3>1. CASE M2Init(d)
      <4>. DEFINE s == SemOf(d)
      <4>. HIDE DEF s
      <4>1. /\ sem' = [sem EXCEPT ![d] = s]
            /\ \/ /\ live' = [live EXCEPT ![d] = TRUE]
                  /\ value' = [value EXCEPT ![d] = MaxJobs]
               \/ UNCHANGED <<live, value>>
        BY <3>1 DEF M2Init, s
      <4>2. s \in Dmake
        BY <2>2 DEF s
      <4>3. sem' \in [Dmake -> Dmake \cup {None}]
        BY <4>1, <4>2 DEF TypeOK
      <4>4. live' \in [Dmake -> BOOLEAN]
        BY <4>1 DEF TypeOK
      <4>5. value' \in [Dmake -> Nat]
        BY <4>1 DEF TypeOK
      <4>. QED  BY <4>3, <4>4, <4>5
    <3>2. CASE AdjustError(d)
      BY <3>2 DEF AdjustError, TypeOK
    <3>. QED  BY <1>3, <3>1, <3>2 DEF AdjustInit
  <2>. QED  BY <1>3, <2>1, <2>3 DEF AdjustInit, AdjustError, TypeOK
<1>4. CASE Acquire(d)
  <2>1. left[d] > 0 /\ sem[d] \in Dmake
    BY <1>4 DEF Acquire, TypeOK, Shape, SemIsNamed
  <2>2. CASE Serially(d)
    BY <2>1, <2>2, CommandType
  <2>3. CASE StartJob(d)
    <3>1. value' \in [Dmake -> Nat]
      BY <1>4, <2>1, <2>3 DEF Acquire, Permit, NoSlot, Serially, TypeOK
    <3>. QED  BY <2>1, <2>3, <3>1, CommandType
  <2>4. CASE ~Serially(d) /\ ~StartJob(d)
    BY <1>4, <2>4 DEF Acquire, NoSlot, TypeOK
  <2>. QED  BY <2>2, <2>3, <2>4
<1>5. CASE Unadjusted(d)
  <2>1. left[d] > 0 /\ value' \in [Dmake -> Nat] /\ StartJob(d)
    BY <1>5 DEF Unadjusted, TypeOK, Shape, SemIsNamed
  <2>. QED  BY <2>1, CommandType
<1>6. CASE AwaitParallel(d)
  <2>1. value' \in [Dmake -> Nat]
    <3>1. ended[d] \in Nat /\ Cardinality(Zombies(d)) \in Nat
      <4>1. IsFiniteSet(Zombies(d))
        <5>1. Zombies(d) \subseteq Kids(d)
          BY DEF Zombies
        <5>. QED  BY <5>1, KidsFinite, FS_Subset
      <4>. QED  BY <4>1, FS_CardinalityType DEF TypeOK
    <3>2. ASSUME mode[d] = "M2" PROVE value[sem[d]] + ended[d] + Cardinality(Zombies(d)) \in Nat
      <4>1. sem[d] \in Dmake
        BY <1>6, <3>2 DEF AwaitParallel, TypeOK, Shape, SemIsNamed
      <4>. QED  BY <3>1, <4>1 DEF TypeOK
    <3>. HIDE DEF Zombies
    <3>. QED  BY <1>6, <3>2 DEF AwaitParallel, Release, TypeOK
  <2>. QED  BY <1>6, <2>1 DEF AwaitParallel, TypeOK
<1>7. CASE Finish(d)
  BY <1>7 DEF Finish, TypeOK
<1>8. CASE Stat(d)
  BY <1>8 DEF Stat, TypeOK
<1>9. CASE Fini(d)
  BY <1>9 DEF Fini, TypeOK
<1>10. CASE JobExit(d)
  BY <1>10 DEF JobExit, TypeOK
<1>11. CASE SerialExit(d)
  BY <1>11 DEF SerialExit, TypeOK
<1>12. CASE Crash(d)
  BY <1>12 DEF Crash, TypeOK
<1>. QED
  BY <1>1, <1>2, <1>3, <1>4, <1>5, <1>6, <1>7, <1>8, <1>9, <1>10, <1>11, <1>12 DEF Step

\* A dmake starts a job.
LEMMA StartJobShape ==
  ASSUME NEW d \in Dmake, TypeOK, Shape, StartJob(d), pc[d] \in {"slots", "retry"},
         mode[d] /= "UNKNOWN"
  PROVE  Shape'
<1>. USE SlotsAssumption DEF TypeOK, Shape, NewIsFresh, BossWaits, SerialIsAlone, Jobless,
         SemIsNamed, NameIsMade, Kids
<1>1. CASE UNCHANGED <<boss, forked, env>>
  BY <1>1 DEF StartJob, Command
<1>2. ASSUME NEW q \in Dmake, pc[q] = "new",
             pc' = [pc EXCEPT ![d] = "work", ![q] = "work"],
             boss' = [boss EXCEPT ![q] = d], forked' = forked \cup {q},
             env' = [env EXCEPT ![q] = env[d]], UNCHANGED running
      PROVE  Shape'
  <2>1. UNCHANGED <<mode, sem, ended, live>> /\ left' = [left EXCEPT ![d] = @ - 1]
    BY DEF StartJob
  <2>2. q /= d /\ q /= Root
    BY <1>2
  <2>3. \A e \in Dmake : NewIsFresh(e)'
    BY <1>2, <2>1, <2>2
  <2>4. \A e \in Dmake : BossWaits(e)'
    BY <1>2, <2>1, <2>2
  <2>5. \A e \in Dmake : SerialIsAlone(e)'
    BY <1>2, <2>1, <2>2
  <2>6. \A e \in Dmake : Jobless(e)'
    BY <1>2, <2>1, <2>2
  <2>7. \A e \in Dmake : SemIsNamed(e)'
    BY <1>2, <2>1, <2>2
  <2>8. \A e \in Dmake : NameIsMade(e)'
    BY <1>2, <2>1, <2>2
  <2>. QED  BY <1>2, <2>2, <2>3, <2>4, <2>5, <2>6, <2>7, <2>8
<1>. QED  BY <1>1, <1>2 DEF StartJob, Command

\* A dmake runs a recipe itself.
LEMMA SeriallyShape ==
  ASSUME NEW d \in Dmake, TypeOK, Shape, Serially(d), pc[d] \in {"work", "slots", "retry"},
         Jobs(d) = 0
  PROVE  Shape'
<1>0. running[d] = 0 /\ ended[d] = 0 /\ Kids(d) = {}
  BY NoJobs
<1>. USE SlotsAssumption, <1>0 DEF TypeOK, Shape, NewIsFresh, BossWaits, SerialIsAlone, Jobless,
         SemIsNamed, NameIsMade, Kids, shared
<1>1. CASE UNCHANGED <<boss, env>> /\ pc' = [pc EXCEPT ![d] = "serial"]
  BY <1>1 DEF Serially
<1>2. ASSUME NEW q \in Dmake, pc[q] = "new",
             pc' = [pc EXCEPT ![d] = "serial", ![q] = "work"],
             boss' = [boss EXCEPT ![q] = d],
             env' = [env EXCEPT ![q] = env[d]]
      PROVE  Shape'
  <2>1. /\ UNCHANGED <<mode, sem, forked, running, ended, live>>
        /\ left' = [left EXCEPT ![d] = @ - 1]
    BY DEF Serially
  <2>2. q /= d /\ q /= Root
    BY <1>2
  <2>3. \A e \in Dmake : NewIsFresh(e)'
    BY <1>2, <2>1, <2>2
  <2>4. \A e \in Dmake : BossWaits(e)'
    BY <1>2, <2>1, <2>2
  <2>5. \A e \in Dmake : SerialIsAlone(e)'
    BY <1>2, <2>1, <2>2
  <2>6. \A e \in Dmake : Jobless(e)'
    BY <1>2, <2>1, <2>2
  <2>7. \A e \in Dmake : SemIsNamed(e)'
    BY <1>2, <2>1, <2>2
  <2>8. \A e \in Dmake : NameIsMade(e)'
    BY <1>2, <2>1, <2>2
  <2>. QED  BY <1>2, <2>1, <2>2, <2>3, <2>4, <2>5, <2>6, <2>7, <2>8
<1>. QED  BY <1>1, <1>2 DEF Serially

LEMMA StepShape ==
  ASSUME NEW d \in Dmake, TypeOK, Shape,
         Step(d) \/ JobExit(d) \/ SerialExit(d) \/ Crash(d)
  PROVE  Shape'
<1>. USE SlotsAssumption DEF family, shared
<1>1. CASE Begin(d)
  BY <1>1 DEF Begin, TypeOK, Shape, NewIsFresh, BossWaits, SerialIsAlone, Jobless,
     SemIsNamed, NameIsMade, Kids
<1>2. CASE Alone(d)
  BY <1>2, SeriallyShape DEF Alone
<1>3. CASE AdjustInit(d)
  <2>. USE DEF TypeOK, Shape, NewIsFresh, BossWaits, SerialIsAlone, Jobless,
     SemIsNamed, NameIsMade, Kids
  <2>1. CASE AdjustError(d)
    BY <1>3, <2>1 DEF AdjustInit, AdjustError
  <2>2. CASE M2Init(d) /\ env[d].file = None
    <3>1. /\ sem' = [sem EXCEPT ![d] = d] /\ live' = [live EXCEPT ![d] = TRUE]
          /\ env' = [env EXCEPT ![d].file = d]
      BY <2>2 DEF M2Init, SemOf
    <3>2. /\ pc[d] = "slots" /\ mode[d] = "UNKNOWN"
          /\ UNCHANGED <<pc, boss, forked, running, ended, left>>
      BY <1>3 DEF AdjustInit
    <3>3. mode' = [mode EXCEPT ![d] = "M2"]
      BY <1>3, <2>2, <3>1, <3>2 DEF AdjustInit, AdjustError
    <3>4. \A e \in Dmake : NewIsFresh(e)' /\ BossWaits(e)' /\ SerialIsAlone(e)'
      BY <3>1, <3>2, <3>3
    <3>5. \A e \in Dmake : Jobless(e)' /\ SemIsNamed(e)'
      BY <3>1, <3>2, <3>3
    <3>6. \A e \in Dmake : NameIsMade(e)'
      BY <3>1, <3>2, <3>3
    <3>. QED  BY <3>1, <3>2, <3>3, <3>4, <3>5, <3>6
  <2>3. CASE M2Init(d) /\ env[d].file /= None /\ mode' = [mode EXCEPT ![d] = "M2"]
    BY <1>3, <2>3 DEF AdjustInit, M2Init, SemOf
  <2>. QED  BY <1>3, <2>1, <2>2, <2>3 DEF AdjustInit
<1>4. CASE Acquire(d)
  <2>1. CASE Serially(d) /\ Jobs(d) = 0
    BY <1>4, <2>1, SeriallyShape DEF Acquire
  <2>2. CASE StartJob(d)
    BY <1>4, <2>2, StartJobShape DEF Acquire
  <2>3. CASE ~StartJob(d) /\ ~(Serially(d) /\ Jobs(d) = 0)
    BY <1>4, <2>3 DEF Acquire, NoSlot, TypeOK, Shape, NewIsFresh, BossWaits, SerialIsAlone,
       Jobless, SemIsNamed, NameIsMade, Kids
  <2>. QED  BY <2>1, <2>2, <2>3
<1>5. CASE Unadjusted(d)
  BY <1>5, StartJobShape DEF Unadjusted
<1>6. CASE AwaitParallel(d)
  BY <1>6 DEF AwaitParallel, TypeOK, Shape, NewIsFresh, BossWaits, SerialIsAlone,
     Jobless, SemIsNamed, NameIsMade, Kids
<1>7. CASE Finish(d)
  BY <1>7, NoJobs DEF Finish, TypeOK, Shape, NewIsFresh, BossWaits, SerialIsAlone,
     Jobless, SemIsNamed, NameIsMade, Kids
<1>8. CASE Stat(d)
  BY <1>8 DEF Stat, TypeOK, Shape, NewIsFresh, BossWaits, SerialIsAlone,
     Jobless, SemIsNamed, NameIsMade, Kids
<1>9. CASE Fini(d)
  BY <1>9 DEF Fini, TypeOK, Shape, NewIsFresh, BossWaits, SerialIsAlone,
     Jobless, SemIsNamed, NameIsMade, Kids
<1>10. CASE JobExit(d)
  BY <1>10 DEF JobExit, TypeOK, Gone, Shape, NewIsFresh, BossWaits, SerialIsAlone,
     Jobless, SemIsNamed, NameIsMade, Kids
<1>11. CASE SerialExit(d)
  BY <1>11 DEF SerialExit, TypeOK, Shape, NewIsFresh, BossWaits, SerialIsAlone,
     Jobless, SemIsNamed, NameIsMade, Kids
<1>12. CASE Crash(d)
  BY <1>12 DEF Crash, Gone, TypeOK, Shape, NewIsFresh, BossWaits, SerialIsAlone,
     Jobless, SemIsNamed, NameIsMade, Kids
<1>. QED
  BY <1>1, <1>2, <1>3, <1>4, <1>5, <1>6, <1>7, <1>8, <1>9, <1>10, <1>11, <1>12 DEF Step

-----------------------------------------------------------------------------
(* Counting jobs                                                           *)

\* As many jobs of one kind as there are names for them.
LEMMA TaggedCard ==
  ASSUME NEW d, NEW kind, NEW T, IsFiniteSet(T)
  PROVE  /\ IsFiniteSet({d} \X {kind} \X T)
         /\ Cardinality({d} \X {kind} \X T) = Cardinality(T)
<1>. DEFINE S == {d} \X {kind} \X T
            tag == [t \in T |-> <<d, kind, t>>]
<1>1. tag \in [T -> S]
  OBVIOUS
<1>2. \A a, b \in T : tag[a] = tag[b] => a = b
  OBVIOUS
<1>3. \A x \in S : \E t \in T : tag[t] = x
  OBVIOUS
<1>. HIDE DEF S, tag
<1>4. tag \in Bijection(T, S)
  BY <1>1, <1>2, <1>3, Fun_IsBij
<1>5. IsFiniteSet(S) /\ Cardinality(S) = Cardinality(T)
  BY <1>4, FS_Bijection DEF ExistsBijection
<1>. QED  BY <1>5 DEF S

\* The jobs of a dmake are its commands and the dmakes below it.
LEMMA JobsCard ==
  ASSUME NEW d, NEW n \in Nat, NEW K, IsFiniteSet(K)
  PROVE  LET J == ({d} \X {"command"} \X (1..n)) \cup ({d} \X {"dmake"} \X K)
         IN  /\ IsFiniteSet(J) /\ Cardinality(J) = n + Cardinality(K)
             /\ \A x \in J : x[1] = d
<1>. DEFINE A == {d} \X {"command"} \X (1..n)
            B == {d} \X {"dmake"} \X K
<1>1. IsFiniteSet(1..n) /\ Cardinality(1..n) = n
  BY FS_Interval
<1>2. IsFiniteSet(A) /\ Cardinality(A) = n
  BY <1>1, TaggedCard
<1>3. IsFiniteSet(B) /\ Cardinality(B) = Cardinality(K)
  BY TaggedCard
<1>4. A \cap B = {}
  OBVIOUS
<1>5. \A x \in A \cup B : x[1] = d
  OBVIOUS
<1>6. Cardinality(K) \in Nat
  BY FS_CardinalityType
<1>. HIDE DEF A, B
<1>7. IsFiniteSet(A \cup B) /\ Cardinality(A \cup B) = n + Cardinality(K)
  BY <1>2, <1>3, <1>4, <1>6, FS_Union, FS_EmptySet
<1>. QED  BY <1>5, <1>7 DEF A, B

\* The sets J[u], whose elements say which u they belong to, make up `all', and
\* without that of d `others'.
Apart(U, J, d, all, others) ==
    /\ IsFiniteSet(U)
    /\ \A u \in U : IsFiniteSet(J[u]) /\ \A x \in J[u] : x[1] = u
    /\ \A x : x \in all <=> \E u \in U : x \in J[u]
    /\ \A x : x \in others <=> \E u \in U \ {d} : x \in J[u]

\* The jobs of several dmakes are those of one of them and of the others.
LEMMA OneApart ==
  ASSUME NEW U, NEW J, NEW d, NEW all, NEW others, Apart(U, J, d, all, others)
  PROVE  /\ IsFiniteSet(all) /\ IsFiniteSet(others)
         /\ Cardinality(all) = Cardinality(others)
                               + (IF d \in U THEN Cardinality(J[d]) ELSE 0)
<1>. DEFINE F == [u \in U |-> J[u]]
<1>. USE DEF Apart
<1>1. IsFiniteSet(all)
  <2>1. F \in Surjection(U, {J[u] : u \in U})
    BY DEF Surjection
  <2>2. IsFiniteSet({J[u] : u \in U})
    BY <2>1, FS_Surjection
  <2>3. \A T \in {J[u] : u \in U} : IsFiniteSet(T)
    OBVIOUS
  <2>4. all = UNION {J[u] : u \in U}
    OBVIOUS
  <2>. QED  BY <2>2, <2>3, <2>4, FS_UNION
<1>2. IsFiniteSet(others)
  <2>1. others \subseteq all
    OBVIOUS
  <2>. QED  BY <1>1, <2>1, FS_Subset
<1>3. CASE d \in U
  <2>1. all = others \cup J[d]
    BY <1>3
  <2>2. others \cap J[d] = {}
    BY <1>3
  <2>3. IsFiniteSet(J[d])
    BY <1>3
  <2>4. Cardinality(others \cup J[d]) = Cardinality(others) + Cardinality(J[d])
                                        - Cardinality(others \cap J[d])
    BY <1>2, <2>3, FS_Union
  <2>5. Cardinality(others \cap J[d]) = 0
    BY <2>2, FS_EmptySet
  <2>6. Cardinality(others) \in Nat /\ Cardinality(J[d]) \in Nat
    BY <1>2, <2>3, FS_CardinalityType
  <2>7. Cardinality(all) = Cardinality(others) + Cardinality(J[d])
    BY <2>1, <2>4, <2>5, <2>6
  <2>. QED  BY <1>1, <1>2, <1>3, <2>7
<1>4. CASE d \notin U
  <2>1. all = others
    <3>1. U \ {d} = U
      BY <1>4
    <3>. QED  BY <3>1
  <2>2. Cardinality(others) \in Nat
    BY <1>2, FS_CardinalityType
  <2>3. Cardinality(all) = Cardinality(others) + 0
    BY <2>1, <2>2
  <2>. QED  BY <1>1, <1>2, <1>4, <2>3
<1>. QED  BY <1>3, <1>4

\* The jobs of one dmake in the state before a step or after it.
LEMMA JobsOfCard ==
  ASSUME NEW d \in Dmake
  PROVE  /\ TypeOK => /\ IsFiniteSet(JobsOf(d)) /\ Cardinality(JobsOf(d)) = Jobs(d)
                      /\ Jobs(d) \in Nat /\ \A x \in JobsOf(d) : x[1] = d
         /\ TypeOK' => /\ IsFiniteSet(JobsOf(d)') /\ Cardinality(JobsOf(d)') = Jobs(d)'
                       /\ Jobs(d)' \in Nat /\ \A x \in JobsOf(d)' : x[1] = d
<1>1. \A K \in SUBSET Dmake : IsFiniteSet(K) /\ Cardinality(K) \in Nat
  BY FS_Subset, FS_CardinalityType, SlotsAssumption
<1>2. Kids(d) \in SUBSET Dmake /\ Kids(d)' \in SUBSET Dmake
  BY DEF Kids
<1>3. ASSUME TypeOK
      PROVE  /\ IsFiniteSet(JobsOf(d)) /\ Cardinality(JobsOf(d)) = Jobs(d)
             /\ Jobs(d) \in Nat /\ \A x \in JobsOf(d) : x[1] = d
  <2>1. running[d] \in Nat /\ ended[d] \in Nat /\ running[d] + ended[d] \in Nat
    BY <1>3 DEF TypeOK
  <2>. DEFINE n == running[d] + ended[d]
              K == Kids(d)
              S == ({d} \X {"command"} \X (1..n)) \cup ({d} \X {"dmake"} \X K)
  <2>2. JobsOf(d) = S /\ Jobs(d) = n + Cardinality(K)
    BY DEF JobsOf, Jobs
  <2>3. n \in Nat /\ IsFiniteSet(K) /\ Cardinality(K) \in Nat
    BY <1>1, <1>2, <2>1
  <2>4. IsFiniteSet(S) /\ Cardinality(S) = n + Cardinality(K) /\ \A x \in S : x[1] = d
    <3>. HIDE DEF n, K
    <3>. QED  BY <2>3, JobsCard
  <2>. HIDE DEF S, n, K
  <2>. QED  BY <2>2, <2>3, <2>4
<1>4. ASSUME TypeOK'
      PROVE  /\ IsFiniteSet(JobsOf(d)') /\ Cardinality(JobsOf(d)') = Jobs(d)'
             /\ Jobs(d)' \in Nat /\ \A x \in JobsOf(d)' : x[1] = d
  <2>1. running'[d] \in Nat /\ ended'[d] \in Nat /\ running'[d] + ended'[d] \in Nat
    BY <1>4 DEF TypeOK
  <2>. DEFINE n == running'[d] + ended'[d]
              K == Kids(d)'
              S == ({d} \X {"command"} \X (1..n)) \cup ({d} \X {"dmake"} \X K)
  <2>2. JobsOf(d)' = S /\ Jobs(d)' = n + Cardinality(K)
    BY DEF JobsOf, Jobs
  <2>3. n \in Nat /\ IsFiniteSet(K) /\ Cardinality(K) \in Nat
    BY <1>1, <1>2, <2>1
  <2>4. IsFiniteSet(S) /\ Cardinality(S) = n + Cardinality(K) /\ \A x \in S : x[1] = d
    <3>. HIDE DEF n, K
    <3>. QED  BY <2>3, JobsCard
  <2>. HIDE DEF S, n, K
  <2>. QED  BY <2>2, <2>3, <2>4
<1>. QED  BY <1>3, <1>4

\* A step that changes the jobs of one dmake changes the number of permits
\* taken by as much.
LEMMA HoldersStep ==
  ASSUME NEW d \in Dmake, NEW s \in Dmake, TypeOK, TypeOK',
         \A u \in Dmake \ {d} : /\ u \in Users(s) <=> u \in Users(s)'
                                /\ u \in Users(s) => JobsOf(u)' = JobsOf(u)
  PROVE  \E n \in Nat :
           /\ Cardinality(Holders(s)) = n + (IF d \in Users(s) THEN Jobs(d) ELSE 0)
           /\ Cardinality(Holders(s)') = n + (IF d \in Users(s)' THEN Jobs(d)' ELSE 0)
<1>. DEFINE J == [u \in Dmake |-> JobsOf(u)]
            K == [u \in Dmake |-> JobsOf(u)']
            U == Users(s)
            V == Users(s)'
            all == Holders(s)
            after == Holders(s)'
            others == UNION {J[u] : u \in U \ {d}}
<1>1. U \subseteq Dmake /\ V \subseteq Dmake /\ IsFiniteSet(U) /\ IsFiniteSet(V)
  BY FS_Subset, SlotsAssumption DEF Users
<1>2. /\ \A x : x \in all <=> \E u \in U : x \in J[u]
      /\ \A x : x \in after <=> \E u \in V : x \in K[u]
  BY <1>1 DEF Holders
<1>3. \A u \in U : IsFiniteSet(J[u]) /\ \A x \in J[u] : x[1] = u
  BY <1>1, JobsOfCard
<1>4. \A u \in V : IsFiniteSet(K[u]) /\ \A x \in K[u] : x[1] = u
  BY <1>1, JobsOfCard
<1>5. Cardinality(J[d]) = Jobs(d) /\ Cardinality(K[d]) = Jobs(d)'
  BY JobsOfCard
<1>6. \A x : x \in others <=> \E u \in U \ {d} : x \in J[u]
  OBVIOUS
<1>7. \A x : x \in others <=> \E u \in V \ {d} : x \in K[u]
  BY <1>1
<1>. HIDE DEF J, K, U, V, all, after, others
<1>8. Apart(U, J, d, all, others) /\ Apart(V, K, d, after, others)
  BY <1>1, <1>2, <1>3, <1>4, <1>6, <1>7 DEF Apart
<1>9. /\ Cardinality(all) = Cardinality(others) + (IF d \in U THEN Cardinality(J[d]) ELSE 0)
      /\ Cardinality(after) = Cardinality(others) + (IF d \in V THEN Cardinality(K[d]) ELSE 0)
      /\ IsFiniteSet(others)
  BY <1>8, OneApart
<1>10. Cardinality(others) \in Nat
  BY <1>9, FS_CardinalityType
<1>. QED  BY <1>5, <1>9, <1>10 DEF U, V, all, after

-----------------------------------------------------------------------------
(* Permits                                                                 *)

\* The step of d leaves the jobs of all others that have semaphore s alone.
OthersKeep(d, s) ==
    \A u \in Dmake \ {d} : /\ u \in Users(s) <=> u \in Users(s)'
                           /\ u \in Users(s) => JobsOf(u)' = JobsOf(u)

\* The permits that d has of semaphore s.
Share(d, s) == IF d \in Users(s) THEN Jobs(d) ELSE 0

\* The permits of s and those that d has are as many as before, or fewer when
\* a dmake was killed.
LEMMA Conserves ==
  ASSUME NEW d \in Dmake, NEW s \in Dmake, TypeOK, TypeOK', OthersKeep(d, s),
         SlotsConserved, live[s],
         value'[s] + Share(d, s)' <= value[s] + Share(d, s),
         Killed' = {} => Killed = {} /\ value'[s] + Share(d, s)' = value[s] + Share(d, s)
  PROVE  /\ value'[s] + Cardinality(Holders(s)') <= MaxJobs
         /\ Killed' = {} => value'[s] + Cardinality(Holders(s)') = MaxJobs
<1>1. PICK n \in Nat : /\ Cardinality(Holders(s)) = n + Share(d, s)
                       /\ Cardinality(Holders(s)') = n + Share(d, s)'
  BY HoldersStep DEF OthersKeep, Share
<1>2. /\ value[s] + Cardinality(Holders(s)) <= MaxJobs
      /\ Killed = {} => value[s] + Cardinality(Holders(s)) = MaxJobs
  BY DEF SlotsConserved
<1>3. value[s] \in Nat /\ value'[s] \in Nat /\ Share(d, s) \in Nat /\ Share(d, s)' \in Nat
  BY JobsOfCard DEF TypeOK, Share
<1>. HIDE DEF Share, Killed, Holders
<1>. QED  BY <1>1, <1>2, <1>3, SlotsAssumption

\* A step that changes neither permits nor jobs.
LEMMA SameJobs ==
  ASSUME NEW d \in Dmake, TypeOK, TypeOK', SlotsConserved, UNCHANGED <<boss, running, ended, value>>,
         \A u \in Dmake \ {d} : pc'[u] = pc[u] /\ sem'[u] = sem[u],
         \A s \in Dmake : live'[s] => live[s] /\ Share(d, s)' = Share(d, s),
         Killed' = {} => Killed = {}
  PROVE  SlotsConserved'
<1>. SUFFICES ASSUME NEW s \in Dmake, live'[s]
              PROVE  /\ value'[s] + Cardinality(Holders(s)') <= MaxJobs
                     /\ Killed' = {} => value'[s] + Cardinality(Holders(s)') = MaxJobs
  BY DEF SlotsConserved
<1>1. OthersKeep(d, s)
  BY DEF OthersKeep, Users, JobsOf, Kids, Gone
<1>2. live[s] /\ Share(d, s)' = Share(d, s)
  OBVIOUS
<1>3. Share(d, s) \in Nat /\ value[s] \in Nat
  BY JobsOfCard DEF Share, TypeOK
<1>. QED  BY <1>1, <1>2, <1>3, Conserves

\* A job more, which took a permit if d has the semaphore.
LEMMA StartJobConserves ==
  ASSUME NEW d \in Dmake, TypeOK, TypeOK', Shape, SlotsConserved, StartJob(d),
         pc[d] \in {"slots", "retry"},
         \/ mode[d] = "M2" /\ value[sem[d]] > 0
                           /\ value' = [value EXCEPT ![sem[d]] = @ - 1]
         \/ mode[d] = "NONE" /\ UNCHANGED value
  PROVE  SlotsConserved'
<1>. SUFFICES ASSUME NEW s \in Dmake, live'[s]
              PROVE  /\ value'[s] + Cardinality(Holders(s)') <= MaxJobs
                     /\ Killed' = {} => value'[s] + Cardinality(Holders(s)') = MaxJobs
  BY DEF SlotsConserved
<1>1. live[s] /\ Killed' = Killed
  BY DEF StartJob, Command, Killed, TypeOK
<1>2. pc'[d] = "work" /\ sem'[d] = sem[d] /\ UNCHANGED <<sem, ended>>
  BY DEF StartJob, Command, TypeOK
<1>3. OthersKeep(d, s)
  <2>1. CASE UNCHANGED <<boss, forked, env>> /\ running' = [running EXCEPT ![d] = @ + 1]
             /\ pc' = [pc EXCEPT ![d] = "work"]
    BY <1>2, <2>1 DEF OthersKeep, Users, JobsOf, Kids, Gone, TypeOK
  <2>2. ASSUME NEW q \in Dmake, pc[q] = "new",
               pc' = [pc EXCEPT ![d] = "work", ![q] = "work"],
               boss' = [boss EXCEPT ![q] = d], UNCHANGED running
        PROVE  OthersKeep(d, s)
    <3>1. sem[q] = None /\ boss[q] = None
      BY <2>2 DEF Shape, NewIsFresh, SemIsNamed
    <3>2. \A u \in Dmake \ {d} : Kids(u)' = Kids(u)
      BY <2>2, <3>1, SlotsAssumption DEF Kids, TypeOK
    <3>. QED  BY <1>2, <2>2, <3>1, <3>2, SlotsAssumption DEF OthersKeep, Users, JobsOf, Gone, TypeOK
  <2>. QED  BY <2>1, <2>2 DEF StartJob, Command
<1>4. Jobs(d)' = Jobs(d) + 1 /\ Jobs(d) \in Nat
  <2>1. CASE UNCHANGED <<boss, forked, env>> /\ running' = [running EXCEPT ![d] = @ + 1]
    <3>1. Kids(d)' = Kids(d) /\ running'[d] = running[d] + 1 /\ ended'[d] = ended[d]
      BY <1>2, <2>1 DEF Kids, TypeOK
    <3>. QED  BY <3>1, KidsFinite DEF Jobs, TypeOK
  <2>2. ASSUME NEW q \in Dmake, pc[q] = "new", boss' = [boss EXCEPT ![q] = d], UNCHANGED running
        PROVE  Jobs(d)' = Jobs(d) + 1 /\ Jobs(d) \in Nat
    <3>1. q \notin Kids(d)
      BY <2>2, SlotsAssumption DEF Kids, Shape, NewIsFresh
    <3>2. Kids(d)' = Kids(d) \cup {q}
      BY <2>2 DEF Kids, TypeOK
    <3>3. Cardinality(Kids(d)') = Cardinality(Kids(d)) + 1
      BY <3>1, <3>2, KidsFinite, FS_AddElement
    <3>. QED  BY <1>2, <2>2, <3>3, KidsFinite DEF Jobs, TypeOK
  <2>. QED  BY <2>1, <2>2 DEF StartJob, Command
<1>5. sem[d] = s <=> d \in Users(s) /\ d \in Users(s)'
  BY <1>2 DEF Users, Gone
<1>6. sem[d] /= s => d \notin Users(s) /\ d \notin Users(s)'
  BY <1>2 DEF Users, Gone
<1>7. /\ sem[d] = s => value[s] > 0 /\ value'[s] = value[s] - 1
      /\ sem[d] /= s => value'[s] = value[s]
  BY SlotsAssumption DEF Shape, SemIsNamed, TypeOK
<1>8. value[s] \in Nat
  BY DEF TypeOK
<1>9. value'[s] + Share(d, s)' = value[s] + Share(d, s) /\ Share(d, s) \in Nat
  BY <1>4, <1>5, <1>6, <1>7, <1>8 DEF Share
<1>. QED  BY <1>1, <1>3, <1>8, <1>9, Conserves

\* A recipe that d runs itself took no permit.
LEMMA SeriallyConserves ==
  ASSUME NEW d \in Dmake, TypeOK, TypeOK', Shape, SlotsConserved, Serially(d),
         ~Gone(d), pc[d] /= "new", Jobs(d) = 0
  PROVE  SlotsConserved'
<1>. SUFFICES ASSUME NEW s \in Dmake, live'[s]
              PROVE  /\ value'[s] + Cardinality(Holders(s)') <= MaxJobs
                     /\ Killed' = {} => value'[s] + Cardinality(Holders(s)') = MaxJobs
  BY DEF SlotsConserved
<1>1. live[s] /\ value'[s] = value[s]
  BY DEF Serially, shared
<1>6. Killed' = Killed
  BY DEF Serially, Killed, Gone, TypeOK
<1>2. pc'[d] = "serial" /\ UNCHANGED <<sem, running, ended>>
  BY DEF Serially, TypeOK
<1>3. OthersKeep(d, s)
  <2>1. CASE UNCHANGED boss /\ pc' = [pc EXCEPT ![d] = "serial"]
    BY <1>2, <2>1 DEF OthersKeep, Users, JobsOf, Kids, Gone, TypeOK
  <2>2. ASSUME NEW q \in Dmake, pc[q] = "new",
               pc' = [pc EXCEPT ![d] = "serial", ![q] = "work"],
               boss' = [boss EXCEPT ![q] = d]
        PROVE  OthersKeep(d, s)
    <3>1. sem[q] = None /\ boss[q] = None
      BY <2>2 DEF Shape, NewIsFresh, SemIsNamed
    <3>2. \A u \in Dmake \ {d} : Kids(u)' = Kids(u)
      BY <2>2, <3>1, SlotsAssumption DEF Kids, TypeOK
    <3>. QED  BY <1>2, <2>2, <3>1, <3>2, SlotsAssumption DEF OthersKeep, Users, JobsOf, Gone, TypeOK
  <2>. QED  BY <2>1, <2>2 DEF Serially
<1>4. Share(d, s) = 0 /\ Share(d, s)' = 0
  BY <1>2 DEF Share, Users
<1>5. value[s] \in Nat
  BY DEF TypeOK
<1>. QED  BY <1>1, <1>3, <1>4, <1>5, <1>6, Conserves

\* await_parallel() gives a permit back for every job that it reaps.
LEMMA AwaitConserves ==
  ASSUME NEW d \in Dmake, TypeOK, TypeOK', Shape, SlotsConserved, AwaitParallel(d)
  PROVE  SlotsConserved'
<1>. SUFFICES ASSUME NEW s \in Dmake, live'[s]
              PROVE  /\ value'[s] + Cardinality(Holders(s)') <= MaxJobs
                     /\ Killed' = {} => value'[s] + Cardinality(Holders(s)') = MaxJobs
  BY DEF SlotsConserved
<1>1. /\ pc[d] \in {"work", "wait", "slots"} /\ pc'[d] \in {"work", "retry", "slots"}
      /\ \A u \in Dmake \ {d} : pc'[u] = pc[u]
      /\ UNCHANGED <<sem, running, live>>
      /\ ended' = [ended EXCEPT ![d] = 0]
  BY DEF AwaitParallel, TypeOK
<1>2. live[s] /\ Killed' = Killed
  BY <1>1 DEF Killed
<1>3. /\ Zombies(d) \subseteq Kids(d) /\ Kids(d)' = Kids(d) \ Zombies(d)
      /\ \A u \in Dmake \ {d} : Kids(u)' = Kids(u)
  BY SlotsAssumption DEF AwaitParallel, Zombies, Kids, TypeOK
<1>4. OthersKeep(d, s)
  BY <1>1, <1>3 DEF OthersKeep, Users, JobsOf, Gone, TypeOK
<1>5. /\ Cardinality(Zombies(d)) \in Nat
      /\ Cardinality(Kids(d)') = Cardinality(Kids(d)) - Cardinality(Zombies(d))
  <2>1. IsFiniteSet(Zombies(d)) /\ Kids(d) \cap Zombies(d) = Zombies(d)
    BY <1>3, KidsFinite, FS_Subset
  <2>2. Cardinality(Kids(d) \ Zombies(d)) =
          Cardinality(Kids(d)) - Cardinality(Kids(d) \cap Zombies(d))
    BY KidsFinite, FS_Difference
  <2>3. Cardinality(Zombies(d)) \in Nat
    BY <2>1, FS_CardinalityType
  <2>. QED  BY <1>3, <2>1, <2>2, <2>3
<1>6. /\ Jobs(d) = Jobs(d)' + ended[d] + Cardinality(Zombies(d))
      /\ Jobs(d) \in Nat /\ Jobs(d)' \in Nat /\ ended[d] \in Nat
  <2>1. ended'[d] = 0 /\ running'[d] = running[d]
    BY <1>1 DEF TypeOK
  <2>2. Cardinality(Kids(d)) \in Nat /\ Jobs(d) \in Nat /\ Jobs(d)' \in Nat
    BY KidsFinite, JobsOfCard
  <2>3. running[d] \in Nat /\ ended[d] \in Nat
    BY DEF TypeOK
  <2>4. /\ Jobs(d) = running[d] + ended[d] + Cardinality(Kids(d))
        /\ Jobs(d)' = running'[d] + ended'[d] + Cardinality(Kids(d)')
    BY DEF Jobs
  <2>. HIDE DEF Jobs, Kids, Zombies
  <2>. QED  BY <1>5, <2>1, <2>2, <2>3, <2>4
<1>7. (sem[d] = s <=> d \in Users(s)) /\ (sem[d] = s <=> d \in Users(s)')
  BY <1>1 DEF Users, Gone
<1>8. /\ sem[d] = s => value'[s] = value[s] + ended[d] + Cardinality(Zombies(d))
      /\ sem[d] /= s => value'[s] = value[s]
  <2>1. sem[d] = s => mode[d] = "M2"
    BY SlotsAssumption DEF Shape, SemIsNamed
  <2>. QED  BY <2>1 DEF AwaitParallel, Release, TypeOK
<1>9. value[s] \in Nat /\ value'[s] \in Nat
  BY DEF TypeOK
<1>10. value'[s] + Share(d, s)' = value[s] + Share(d, s) /\ Share(d, s) \in Nat
  BY <1>5, <1>6, <1>7, <1>8, <1>9 DEF Share
<1>. QED  BY <1>2, <1>4, <1>9, <1>10, Conserves

LEMMA StepConserves ==
  ASSUME NEW d \in Dmake, TypeOK, TypeOK', Shape, SlotsConserved,
         Step(d) \/ JobExit(d) \/ SerialExit(d) \/ Crash(d)
  PROVE  SlotsConserved'
<1>. USE SlotsAssumption DEF family, shared
<1>1. CASE Begin(d)
  BY <1>1, SameJobs DEF Begin, Killed, Share, Users, Gone, Jobs, Kids, TypeOK
<1>2. CASE Alone(d)
  BY <1>2, SeriallyConserves DEF Alone, Gone
<1>3. CASE AdjustInit(d)
  <2>. USE DEF AdjustInit
  <2>1. Jobs(d) = 0
    BY <1>3, NoJobs DEF Shape, Jobless
  <2>2. UNCHANGED <<pc, boss, running, ended>> /\ \A u \in Dmake \ {d} : sem'[u] = sem[u]
    BY <1>3 DEF M2Init, AdjustError, TypeOK
  <2>3. Jobs(d)' = 0 /\ Killed' = Killed
    BY <2>1, <2>2 DEF Jobs, Kids, Killed
  <2>4. \A s \in Dmake : OthersKeep(d, s) /\ Share(d, s) = 0 /\ Share(d, s)' = 0
    BY <2>1, <2>2, <2>3 DEF OthersKeep, Share, Users, JobsOf, Kids, Gone
  <2>5. ASSUME NEW s \in Dmake, live[s], UNCHANGED <<live, value>> \/ s /= d
        PROVE  /\ value'[s] + Cardinality(Holders(s)') <= MaxJobs
               /\ Killed' = {} => value'[s] + Cardinality(Holders(s)') = MaxJobs
    <3>1. value'[s] = value[s] /\ value[s] \in Nat
      BY <1>3, <2>5 DEF M2Init, SemOf, AdjustError, TypeOK
    <3>. QED  BY <2>3, <2>4, <2>5, <3>1, Conserves
  <2>6. ASSUME live' = [live EXCEPT ![d] = TRUE], value' = [value EXCEPT ![d] = MaxJobs]
        PROVE  /\ value'[d] + Cardinality(Holders(d)') <= MaxJobs
               /\ Killed' = {} => value'[d] + Cardinality(Holders(d)') = MaxJobs
    <3>1. \A u \in Dmake \ {d} : u \notin Users(d) /\ u \notin Users(d)'
      BY <1>3, <2>2 DEF Users, Shape, SemIsNamed, NameIsMade
    <3>2. d \notin Users(d)
      BY <1>3 DEF Users, Shape, SemIsNamed
    <3>3. Users(d) = {}
      BY <3>1, <3>2 DEF Users
    <3>4. Cardinality(Holders(d)) = 0
      BY <3>3, FS_EmptySet DEF Holders
    <3>5. PICK n \in Nat : /\ Cardinality(Holders(d)) = n + Share(d, d)
                           /\ Cardinality(Holders(d)') = n + Share(d, d)'
      BY <2>4, HoldersStep DEF OthersKeep, Share
    <3>6. value'[d] = MaxJobs
      BY <2>6 DEF TypeOK
    <3>. QED  BY <2>4, <3>4, <3>5, <3>6
  <2>7. \A s \in Dmake : live'[s] /\ ~live[s] =>
            s = d /\ live' = [live EXCEPT ![d] = TRUE] /\ value' = [value EXCEPT ![d] = MaxJobs]
    BY <1>3 DEF M2Init, AdjustError, TypeOK
  <2>8. \A s \in Dmake : live[s] => UNCHANGED <<live, value>> \/ s /= d
    BY <1>3 DEF Shape, NameIsMade
  <2>. QED  BY <2>5, <2>6, <2>7, <2>8 DEF SlotsConserved
<1>4. CASE Acquire(d)
  <2>1. CASE Serially(d) /\ Jobs(d) = 0
    BY <1>4, <2>1, SeriallyConserves DEF Acquire, Gone
  <2>2. CASE StartJob(d) /\ Permit(sem[d]) /\ value' = [value EXCEPT ![sem[d]] = @ - 1]
    BY <1>4, <2>2, StartJobConserves DEF Acquire, Permit
  <2>3. CASE /\ pc' = [pc EXCEPT ![d] = IF @ = "slots" THEN "wait" ELSE "work"]
             /\ UNCHANGED <<mode, env, sem, family, shared>>
    BY <1>4, <2>3, SameJobs DEF Acquire, Killed, Share, Users, Gone, Jobs, Kids, TypeOK
  <2>. QED  BY <1>4, <2>1, <2>2, <2>3 DEF Acquire, NoSlot
<1>5. CASE Unadjusted(d)
  BY <1>5, StartJobConserves DEF Unadjusted
<1>6. CASE AwaitParallel(d)
  BY <1>6, AwaitConserves
<1>7. CASE Finish(d)
  <2>1. \A s \in Dmake : Share(d, s) = 0 /\ Share(d, s)' = 0
    BY <1>7 DEF Finish, Share, Jobs, Kids
  <2>. QED  BY <1>7, <2>1, SameJobs DEF Finish, Killed, TypeOK
<1>8. CASE Stat(d)
  BY <1>8, SameJobs DEF Stat, Killed, Share, Users, Gone, Jobs, Kids, TypeOK
<1>9. CASE Fini(d)
  <2>1. \A s \in Dmake : Share(d, s) = 0 /\ Share(d, s)' = 0
    <3>1. running[d] = 0 /\ ended[d] = 0 /\ Kids(d) = {}
      BY <1>9 DEF Fini, Shape, Jobless, BossWaits, Kids
    <3>2. Jobs(d) = 0
      BY <3>1, NoJobs
    <3>3. Jobs(d)' = Jobs(d)
      BY <1>9 DEF Fini, Jobs, Kids
    <3>. QED  BY <3>2, <3>3 DEF Share
  <2>. QED  BY <1>9, <2>1, SameJobs DEF Fini, Killed, TypeOK
<1>10. CASE JobExit(d)
  <2>1. Killed' = Killed /\ UNCHANGED <<pc, sem, boss, live, value>>
    BY <1>10 DEF JobExit, Killed
  <2>2. \A s \in Dmake : OthersKeep(d, s)
    BY <1>10 DEF JobExit, OthersKeep, Users, JobsOf, Kids, Gone, TypeOK
  <2>3. ~Gone(d) => Jobs(d)' = Jobs(d)
    <3>1. Kids(d)' = Kids(d)
      BY <2>1 DEF Kids
    <3>. QED  BY <1>10, <3>1, KidsFinite DEF JobExit, Jobs, TypeOK
  <2>4. \A s \in Dmake : Share(d, s)' = Share(d, s) /\ Share(d, s) \in Nat /\ value[s] \in Nat
    BY <2>1, <2>3, JobsOfCard DEF Share, Users, Gone, TypeOK
  <2>. QED  BY <2>1, <2>2, <2>4, Conserves DEF SlotsConserved
<1>11. CASE SerialExit(d)
  <2>1. UNCHANGED <<sem, running, ended, live, value>> /\ Killed' = Killed
    BY <1>11 DEF SerialExit, Killed, TypeOK
  <2>2. \A u \in Dmake \ {d} : Kids(u)' = Kids(u) /\ pc'[u] = pc[u]
    BY <1>11 DEF SerialExit, Kids, TypeOK
  <2>3. running[d] = 0 /\ ended[d] = 0 /\ Kids(d)' = {}
    BY <1>11 DEF SerialExit, Shape, Jobless, Kids, TypeOK
  <2>4. Jobs(d)' = 0
    BY <2>1, <2>3, FS_EmptySet DEF Jobs
  <2>5. \A s \in Dmake : OthersKeep(d, s)
    BY <2>1, <2>2 DEF OthersKeep, Users, JobsOf, Gone
  <2>6. \A s \in Dmake : Share(d, s) = 0 /\ Share(d, s)' = 0 /\ value[s] \in Nat
    BY <1>11, <2>4 DEF SerialExit, Share, Users, TypeOK
  <2>. QED  BY <2>1, <2>5, <2>6, Conserves DEF SlotsConserved
<1>12. CASE Crash(d)
  <2>1. UNCHANGED <<sem, running, live, value>> /\ Killed' /= {}
    BY <1>12 DEF Crash, Killed, TypeOK
  <2>2. \A u \in Dmake \ {d} : Kids(u)' = Kids(u) /\ pc'[u] = pc[u] /\ ended'[u] = ended[u]
    BY <1>12 DEF Crash, Kids, TypeOK
  <2>3. \A s \in Dmake : OthersKeep(d, s)
    BY <2>1, <2>2 DEF OthersKeep, Users, JobsOf, Gone
  <2>4. \A s \in Dmake : Share(d, s)' = 0 /\ Share(d, s) \in Nat /\ value[s] \in Nat
    BY <1>12, JobsOfCard DEF Crash, Share, Users, Gone, TypeOK
  <2>. QED  BY <2>1, <2>3, <2>4, Conserves DEF SlotsConserved
<1>. QED
  BY <1>1, <1>2, <1>3, <1>4, <1>5, <1>6, <1>7, <1>8, <1>9, <1>10, <1>11, <1>12 DEF Step

-----------------------------------------------------------------------------
(* The family: who is below whom                                           *)

Live(d) == pc[d] /= "new" /\ ~Gone(d)

\* Nobody is its own boss, however far up.
Ranked == \E rank \in [Dmake -> Nat] :
            \A q \in Dmake : boss[q] /= None => rank[boss[q]] < rank[q]

\* As long as no dmake is killed, each has a boss but the first, and the name of
\* a semaphore that it has not made itself comes from its boss.
HasBoss(q) == Live(q) => /\ q /= Root => boss[q] /= None
                         /\ env[q].file \notin {None, q} =>
                              q /= Root /\ env[boss[q]].file = env[q].file

TreeInv == Ranked /\ (Killed = {} => \A q \in Dmake : HasBoss(q))

LEMMA InitTree == Init => TreeInv
<1>. SUFFICES ASSUME Init PROVE TreeInv
  OBVIOUS
<1>1. Ranked
  <2>1. [d \in Dmake |-> 0] \in [Dmake -> Nat]
    OBVIOUS
  <2>. QED  BY <2>1 DEF Init, Ranked
<1>2. \A q \in Dmake : HasBoss(q)
  BY DEF Init, HasBoss, Live
<1>. QED  BY <1>1, <1>2 DEF TreeInv

\* A set of dmakes that is not empty has one of least rank.
LEMMA LeastRank ==
  ASSUME NEW rank \in [Dmake -> Nat], NEW S \in SUBSET Dmake, S /= {}
  PROVE  \E m \in S : \A x \in S : ~(rank[x] < rank[m])
<1>. DEFINE T == {rank[x] : x \in S}
<1>1. T \subseteq Nat /\ T /= {}
  OBVIOUS
<1>2. PICK n \in T : \A k \in T : <<k, n>> \notin OpToRel(<, Nat)
  <2>. HIDE DEF T
  <2>. QED  BY <1>1, NatLessThanWellFounded, WFMin
<1>3. \A k \in T : ~(k < n)
  BY <1>1, <1>2 DEF OpToRel
<1>. QED  BY <1>2, <1>3

\* Who made a semaphore goes on while another uses its name, and has a dmake
\* below it that goes on.
LEMMA MakerAbove ==
  ASSUME TypeOK, Shape, TreeInv, Killed = {}, NEW e \in Dmake, NEW t \in Dmake,
         Live(e), env[e].file = t
  PROVE  /\ Live(t) /\ env[t].file = t /\ mode[t] = "M2" /\ sem[t] = t
         /\ e /= t => \E k \in Kids(t) : Live(k)
<1>0. env[t].file = t /\ mode[t] = "M2" /\ t /= None
  BY SlotsAssumption DEF Shape, NameIsMade, TypeOK
<1>1. ASSUME e /= t PROVE Live(t) /\ \E k \in Kids(t) : Live(k)
  <2>1. PICK rank \in [Dmake -> Nat] :
               \A q \in Dmake : boss[q] /= None => rank[boss[q]] < rank[q]
    BY DEF TreeInv, Ranked
  <2>. DEFINE S == {x \in Dmake : Live(x) /\ env[x].file = t /\ x /= t}
  <2>2. S \in SUBSET Dmake /\ S /= {}
    BY <1>1
  <2>3. PICK m \in S : \A x \in S : ~(rank[x] < rank[m])
    <3>. HIDE DEF S
    <3>. QED  BY <2>1, <2>2, LeastRank
  <2>4. boss[m] \in Dmake /\ env[boss[m]].file = t
    BY <1>0, <2>3 DEF TreeInv, HasBoss, TypeOK
  <2>5. Live(boss[m]) /\ rank[boss[m]] < rank[m]
    BY <2>1, <2>3, <2>4, SlotsAssumption DEF Shape, BossWaits, Live, Gone
  <2>6. boss[m] = t
    BY <2>3, <2>4, <2>5
  <2>. QED  BY <2>3, <2>5, <2>6 DEF Kids
<1>2. Live(t)
  BY <1>1
<1>3. sem[t] = t
  BY <1>0, <1>2 DEF Shape, SemIsNamed, Live, Gone
<1>. QED  BY <1>0, <1>1, <1>2, <1>3

\* d goes on, and not because another does that it waits for.
InFront(d) == Live(d) /\ (pc[d] = "serial" => \A q \in Kids(d) : ~Live(q))

(* What a step means for the family: nothing, d names the semaphore it made, *)
(* starts q as a job, starts q and waits for it, or ends.                    *)

Quiet ==
    /\ \A a \in Dmake : /\ Live(a)' <=> Live(a)
                        /\ InFront(a)' <=> InFront(a)
                        /\ env'[a].file = env[a].file
                        /\ boss'[a] = boss[a] \/ (boss'[a] = None /\ ~Live(a))
    /\ UNCHANGED forked

Makes(d) ==
    /\ \A a \in Dmake : /\ Live(a)' <=> Live(a)
                        /\ InFront(a)' <=> InFront(a)
                        /\ env'[a].file = IF a = d THEN d ELSE env[a].file
    /\ InFront(d) /\ env[d].file = None /\ Kids(d) = {}
    /\ UNCHANGED <<boss, forked>>

Begets(d, q) ==
    /\ InFront(d) /\ ~Live(q) /\ Kids(q) = {} /\ boss[q] = None
    /\ q /= Root /\ q /= d /\ q \notin forked /\ env[d].file /= q
    /\ \A a \in Dmake : /\ Live(a)' <=> Live(a) \/ a = q
                        /\ env'[a].file = env[IF a = q THEN d ELSE a].file
    /\ boss' = [boss EXCEPT ![q] = d]

Forks(d, q) ==
    /\ Begets(d, q)
    /\ \A a \in Dmake : InFront(a)' <=> InFront(a) \/ a = q
    /\ forked' = forked \cup {q}
    /\ Unlimited = {} => env[d].file /= None

Nests(d, q) ==
    /\ Begets(d, q)
    /\ \A a \in Dmake : InFront(a)' <=> (InFront(a) /\ a /= d) \/ a = q
    /\ UNCHANGED forked

Ends(d) ==
    /\ InFront(d) /\ Kids(d) = {}
    /\ \A a \in Dmake : /\ Live(a)' <=> Live(a) /\ a /= d
                        /\ InFront(a)' <=> \/ InFront(a) /\ a /= d
                                           \/ boss[d] = a /\ d \notin forked
                        /\ env'[a].file = env[a].file
    /\ UNCHANGED <<boss, forked>>

Kind(d) == \/ Quiet \/ Makes(d) \/ Ends(d) \/ Killed' /= {}
           \/ \E q \in Dmake : Forks(d, q) \/ Nests(d, q)

\* A step that leaves pc, boss and env alone but for the place where d is in
\* its program, and d does not wait.
LEMMA QuietStep ==
  ASSUME NEW d \in Dmake, TypeOK, Shape, UNCHANGED <<boss, forked>>,
         \A a \in Dmake : env'[a].file = env[a].file,
         \A a \in Dmake \ {d} : pc'[a] = pc[a],
         Live(d), Live(d)', pc[d] = "serial" <=> pc'[d] = "serial"
  PROVE  Quiet
BY DEF Quiet, Live, InFront, Kids, Gone

LEMMA EndsStep ==
  ASSUME NEW d \in Dmake, TypeOK, Shape, UNCHANGED <<boss, forked>>,
         \A a \in Dmake : env'[a].file = env[a].file,
         pc' = [pc EXCEPT ![d] = "gone"],
         Live(d), pc[d] /= "serial", Kids(d) = {}
  PROVE  Ends(d)
<1>1. \A a \in Dmake : Live(a)' <=> Live(a) /\ a /= d
  BY DEF Live, Gone, TypeOK
<1>2. InFront(d)
  BY DEF InFront
<1>3. ASSUME NEW a \in Dmake
      PROVE  InFront(a)' <=> \/ InFront(a) /\ a /= d
                             \/ boss[d] = a /\ d \notin forked
  <2>1. CASE a = d
    BY <1>1, <2>1 DEF InFront, Kids
  <2>2. CASE a /= d /\ boss[d] = a /\ d \notin forked
    <3>1. pc[a] = "serial" /\ pc'[a] = "serial" /\ Live(a)
      BY <2>2, SlotsAssumption DEF Shape, BossWaits, Live, Gone, TypeOK
    <3>2. \A k \in Kids(a) : k = d
      BY <2>2, <3>1 DEF Shape, SerialIsAlone, Kids
    <3>3. Kids(a)' = Kids(a)
      BY DEF Kids
    <3>. QED  BY <1>1, <2>2, <3>1, <3>2, <3>3 DEF InFront
  <2>3. CASE a /= d /\ ~(boss[d] = a /\ d \notin forked)
    <3>1. pc[a] = "serial" => d \notin Kids(a)
      BY <2>3, SlotsAssumption DEF Shape, BossWaits, Kids
    <3>2. Kids(a)' = Kids(a) /\ pc'[a] = pc[a]
      BY <2>3 DEF Kids, TypeOK
    <3>. QED  BY <1>1, <2>3, <3>1, <3>2 DEF InFront, Kids
  <2>. QED  BY <2>1, <2>2, <2>3
<1>. QED  BY <1>1, <1>2, <1>3 DEF Ends

LEMMA BegetsStep ==
  ASSUME NEW d \in Dmake, NEW q \in Dmake, TypeOK, Shape, NEW where \in {"work", "serial"},
         pc[d] \in {"work", "slots", "retry"}, pc[q] = "new",
         pc' = [pc EXCEPT ![d] = where, ![q] = "work"],
         boss' = [boss EXCEPT ![q] = d],
         env' = [env EXCEPT ![q] = env[d]],
         where = "serial" => Kids(d) = {}
  PROVE  /\ Begets(d, q)
         /\ \A a \in Dmake : InFront(a)' <=> \/ InFront(a) /\ (where = "serial" => a /= d)
                                             \/ a = q
<1>1. /\ boss[q] = None /\ mode[q] = "UNKNOWN" /\ q \notin forked /\ q /= Root /\ q /= d
      /\ Kids(q) = {}
  BY SlotsAssumption DEF Shape, NewIsFresh, Kids, BossWaits
<1>2. \A a \in Dmake : Live(a)' <=> Live(a) \/ a = q
  BY <1>1 DEF Live, Gone, TypeOK
<1>3. InFront(d) /\ Live(d) /\ ~Live(q)
  BY DEF InFront, Live, Gone
<1>4. env[d].file /= q
  BY <1>1, SlotsAssumption DEF Shape, NameIsMade
<1>5. Begets(d, q)
  BY <1>1, <1>2, <1>3, <1>4 DEF Begets, TypeOK
<1>6. ASSUME NEW a \in Dmake
      PROVE  InFront(a)' <=> (InFront(a) /\ (where = "serial" => a /= d)) \/ a = q
  <2>1. CASE a = q
    <3>1. pc'[a] = "work"
      BY <2>1 DEF TypeOK
    <3>. QED  BY <1>2, <2>1, <3>1 DEF InFront
  <2>2. CASE a = d
    <3>1. pc'[d] = where /\ q \in Kids(d)'
      BY <1>1 DEF TypeOK, Kids
    <3>. QED  BY <1>1, <1>2, <1>3, <2>2, <3>1 DEF InFront
  <2>3. CASE a /= q /\ a /= d
    <3>1. Kids(a)' = Kids(a) /\ q \notin Kids(a) /\ pc'[a] = pc[a]
      BY <1>1, <2>3, SlotsAssumption DEF Kids, TypeOK
    <3>. QED  BY <1>2, <2>3, <3>1 DEF InFront, Kids
  <2>. QED  BY <2>1, <2>2, <2>3
<1>. QED  BY <1>5, <1>6

LEMMA StartJobKind ==
  ASSUME NEW d \in Dmake, TypeOK, Shape, StartJob(d), pc[d] \in {"slots", "retry"},
         mode[d] /= "UNKNOWN"
  PROVE  Kind(d)
<1>1. CASE UNCHANGED <<boss, forked, env>> /\ pc' = [pc EXCEPT ![d] = "work"]
  BY <1>1, QuietStep DEF Kind, Live, Gone, TypeOK
<1>2. ASSUME NEW q \in Dmake, pc[q] = "new",
             pc' = [pc EXCEPT ![d] = "work", ![q] = "work"],
             boss' = [boss EXCEPT ![q] = d], forked' = forked \cup {q},
             env' = [env EXCEPT ![q] = env[d]]
      PROVE  Forks(d, q)
  <2>1. /\ Begets(d, q)
        /\ \A a \in Dmake : InFront(a)' <=> InFront(a) \/ a = q
    BY <1>2, BegetsStep
  <2>2. Unlimited = {} => env[d].file /= None
    BY SlotsAssumption DEF Unlimited, Shape, SemIsNamed, TypeOK
  <2>. QED  BY <1>2, <2>1, <2>2 DEF Forks
<1>. QED  BY <1>1, <1>2 DEF StartJob, Command, Kind

LEMMA SeriallyKind ==
  ASSUME NEW d \in Dmake, TypeOK, Shape, Serially(d), pc[d] \in {"work", "slots", "retry"},
         Jobs(d) = 0
  PROVE  Kind(d)
<1>0. Kids(d) = {} /\ UNCHANGED forked
  BY NoJobs DEF Serially
<1>1. CASE UNCHANGED <<boss, env>> /\ pc' = [pc EXCEPT ![d] = "serial"]
  <2>1. Quiet
    BY <1>0, <1>1 DEF Quiet, InFront, Live, Gone, Kids, TypeOK
  <2>. QED  BY <2>1 DEF Kind
<1>2. ASSUME NEW q \in Dmake, pc[q] = "new",
             pc' = [pc EXCEPT ![d] = "serial", ![q] = "work"],
             boss' = [boss EXCEPT ![q] = d], env' = [env EXCEPT ![q] = env[d]]
      PROVE  Nests(d, q)
  <2>1. /\ Begets(d, q)
        /\ \A a \in Dmake : InFront(a)' <=> (InFront(a) /\ a /= d) \/ a = q
    BY <1>0, <1>2, BegetsStep
  <2>. QED  BY <1>0, <2>1 DEF Nests
<1>. QED  BY <1>1, <1>2 DEF Serially, Kind

LEMMA StepKind ==
  ASSUME NEW d \in Dmake, TypeOK, Shape,
         Step(d) \/ JobExit(d) \/ SerialExit(d) \/ Crash(d)
  PROVE  Kind(d)
<1>. USE DEF family, shared
<1>1. CASE Begin(d)
  BY <1>1, QuietStep DEF Begin, Kind, Live, Gone, TypeOK
<1>2. CASE Alone(d)
  BY <1>2, SeriallyKind DEF Alone
<1>3. CASE AdjustInit(d)
  <2>1. UNCHANGED <<pc, boss, forked>> /\ pc[d] = "slots" /\ mode[d] = "UNKNOWN"
    BY <1>3 DEF AdjustInit
  <2>2. /\ \A a \in Dmake : (Live(a)' <=> Live(a)) /\ (InFront(a)' <=> InFront(a))
        /\ InFront(d) /\ Kids(d) = {}
    BY <2>1 DEF Live, InFront, Gone, Kids, Shape, Jobless
  <2>3. CASE env[d].file = None /\ M2Init(d)
    <3>1. \A a \in Dmake : env'[a].file = IF a = d THEN d ELSE env[a].file
      BY <2>3 DEF M2Init, SemOf, TypeOK
    <3>. QED  BY <2>1, <2>2, <2>3, <3>1 DEF Makes, Kind
  <2>4. CASE AdjustError(d)
    <3>1. \A a \in Dmake : env'[a].file = env[a].file
      BY <2>4 DEF AdjustError, TypeOK
    <3>. QED  BY <2>1, <2>2, <3>1 DEF Quiet, Kind
  <2>5. CASE env[d].file /= None /\ M2Init(d)
    <3>1. UNCHANGED env
      BY <2>1, <2>5 DEF M2Init, SemOf, Shape, NameIsMade
    <3>. QED  BY <2>1, <2>2, <3>1 DEF Quiet, Kind
  <2>. QED  BY <1>3, <2>3, <2>4, <2>5 DEF AdjustInit
<1>4. CASE Acquire(d)
  <2>1. CASE Serially(d) /\ Jobs(d) = 0
    BY <1>4, <2>1, SeriallyKind DEF Acquire
  <2>2. CASE StartJob(d)
    BY <1>4, <2>2, StartJobKind DEF Acquire
  <2>3. CASE /\ pc' = [pc EXCEPT ![d] = IF @ = "slots" THEN "wait" ELSE "work"]
             /\ UNCHANGED <<mode, env, sem, family, shared>>
    BY <1>4, <2>3, QuietStep DEF Acquire, Kind, Live, Gone, TypeOK
  <2>. QED  BY <1>4, <2>1, <2>2, <2>3 DEF Acquire, NoSlot
<1>5. CASE Unadjusted(d)
  BY <1>5, StartJobKind DEF Unadjusted
<1>6. CASE AwaitParallel(d)
  <2>1. \A a \in Dmake : Live(a)' <=> Live(a)
    BY <1>6 DEF AwaitParallel, Live, Gone, TypeOK
  <2>2. \A a \in Dmake : boss'[a] = boss[a] \/ (boss'[a] = None /\ ~Live(a))
    BY <1>6 DEF AwaitParallel, Zombies, Live
  <2>3. ASSUME NEW a \in Dmake PROVE InFront(a)' <=> InFront(a)
    <3>1. pc[a] = "serial" <=> pc'[a] = "serial"
      BY <1>6 DEF AwaitParallel, TypeOK
    <3>2. \A k \in Dmake : Live(k) => (k \in Kids(a)' <=> k \in Kids(a))
      BY <2>2 DEF Kids
    <3>. QED  BY <2>1, <3>1, <3>2 DEF InFront, Kids
  <2>. QED  BY <1>6, <2>1, <2>2, <2>3 DEF AwaitParallel, Quiet, Kind
<1>7. CASE Finish(d)
  <2>1. CASE mode[d] = "M2"
    BY <1>7, <2>1, QuietStep DEF Finish, Kind, Live, Gone, TypeOK
  <2>2. CASE mode[d] /= "M2"
    BY <1>7, <2>2, NoJobs, EndsStep DEF Finish, Kind, Live, Gone
  <2>. QED  BY <2>1, <2>2
<1>8. CASE Stat(d)
  BY <1>8, QuietStep DEF Stat, Kind, Live, Gone, TypeOK
<1>9. CASE Fini(d)
  <2>1. Kids(d) = {}
    BY <1>9, SlotsAssumption DEF Fini, Shape, BossWaits, Kids
  <2>. QED  BY <1>9, <2>1, EndsStep DEF Fini, Kind, Live, Gone
<1>10. CASE JobExit(d)
  BY <1>10 DEF JobExit, Quiet, Kind, Live, InFront, Gone, Kids
<1>11. CASE SerialExit(d)
  <2>1. \A a \in Dmake : Live(a)' <=> Live(a)
    BY <1>11 DEF SerialExit, Live, Gone, TypeOK
  <2>2. \A a \in Dmake : boss'[a] = boss[a] \/ (boss'[a] = None /\ ~Live(a))
    BY <1>11 DEF SerialExit, Kids, Live
  <2>3. \A a \in Dmake : InFront(a)' <=> InFront(a)
    BY <1>11, <2>1, <2>2, SlotsAssumption DEF SerialExit, InFront, Kids, TypeOK, Live
  <2>. QED  BY <1>11, <2>1, <2>2, <2>3 DEF SerialExit, Quiet, Kind
<1>12. CASE Crash(d)
  <2>1. Killed' /= {}
    BY <1>12 DEF Crash, Killed, TypeOK
  <2>. QED  BY <2>1 DEF Kind
<1>. QED
  BY <1>1, <1>2, <1>3, <1>4, <1>5, <1>6, <1>7, <1>8, <1>9, <1>10, <1>11, <1>12 DEF Step

LEMMA StepHasBoss ==
  ASSUME NEW d \in Dmake, TypeOK, Shape, TreeInv, Kind(d), Killed' = {} => Killed = {}
  PROVE  Killed' = {} => \A q \in Dmake : HasBoss(q)'
<1>. SUFFICES ASSUME Killed' = {} PROVE \A q \in Dmake : HasBoss(q)'
  OBVIOUS
<1>. USE SlotsAssumption DEF TreeInv, HasBoss
<1>1. \A q \in Dmake : HasBoss(q)
  OBVIOUS
<1>2. CASE Quiet
  <2>1. \A q \in Dmake : Live(q) => boss'[q] = boss[q] /\ (boss[q] /= None => boss[q] \in Dmake)
    BY <1>2 DEF Quiet, TypeOK
  <2>. QED  BY <1>1, <1>2, <2>1 DEF Quiet
<1>3. CASE Makes(d)
  <2>1. \A q \in Dmake : boss[q] /= d
    BY <1>3 DEF Makes, Kids
  <2>. QED  BY <1>1, <1>3, <2>1 DEF Makes, TypeOK
<1>4. CASE Ends(d)
  BY <1>1, <1>4 DEF Ends, TypeOK
<1>5. ASSUME NEW q \in Dmake, Begets(d, q)
      PROVE  \A a \in Dmake : HasBoss(a)'
  <2>1. \A a \in Dmake : boss[a] /= q
    BY <1>5 DEF Begets, Kids
  <2>2. \A a \in Dmake : boss'[a] = IF a = q THEN d ELSE boss[a]
    BY <1>5 DEF Begets, TypeOK
  <2>. QED  BY <1>1, <1>5, <2>1, <2>2 DEF Begets, TypeOK
<1>. QED  BY <1>2, <1>3, <1>4, <1>5 DEF Kind, Forks, Nests

\* Who was killed stays so, and so does a mode.
LEMMA Stays ==
  ASSUME NEW d \in Dmake, TypeOK, Shape,
         Step(d) \/ JobExit(d) \/ SerialExit(d) \/ Crash(d)
  PROVE  Killed \subseteq Killed' /\ Unlimited \subseteq Unlimited'
<1>. USE DEF Step, Begin, Alone, AdjustInit, Acquire, Unadjusted, NoSlot, Serially, StartJob,
         Command, AwaitParallel, Finish, Stat, Fini, JobExit, SerialExit, Crash, AdjustError,
         Gone, TypeOK
<1>1. \A a \in Dmake : pc[a] = "killed" => pc'[a] = "killed"
  OBVIOUS
<1>2. \A a \in Dmake : mode[a] = "NONE" => mode'[a] = "NONE"
  OBVIOUS
<1>. QED  BY <1>1, <1>2 DEF Killed, Unlimited

LEMMA StepRanked ==
  ASSUME NEW d \in Dmake, TypeOK, Shape, Ranked,
         Step(d) \/ JobExit(d) \/ SerialExit(d) \/ Crash(d)
  PROVE  Ranked'
<1>1. CASE \A a \in Dmake : boss'[a] \in {None, boss[a]}
  BY <1>1 DEF Ranked
<1>2. ASSUME NEW q \in Dmake, pc[q] = "new", q /= d, boss' = [boss EXCEPT ![q] = d]
      PROVE  Ranked'
  <2>1. PICK rank \in [Dmake -> Nat] :
               \A a \in Dmake : boss[a] /= None => rank[boss[a]] < rank[a]
    BY DEF Ranked
  <2>. DEFINE below == [rank EXCEPT ![q] = rank[d] + 1]
  <2>2. below \in [Dmake -> Nat]
    BY <2>1
  <2>3. \A a \in Dmake : boss[a] /= q
    BY <1>2, SlotsAssumption DEF Shape, BossWaits
  <2>4. ASSUME NEW a \in Dmake, boss'[a] /= None
        PROVE  below[boss'[a]] < below[a]
    <3>1. CASE a = q
      BY <1>2, <2>1, <3>1 DEF TypeOK
    <3>2. CASE a /= q
      BY <1>2, <2>1, <2>3, <2>4, <3>2 DEF TypeOK
    <3>. QED  BY <3>1, <3>2
  <2>. QED  BY <2>2, <2>4 DEF Ranked
<1>3. ASSUME ~ \A a \in Dmake : boss'[a] \in {None, boss[a]}
      PROVE  \E q \in Dmake : pc[q] = "new" /\ q /= d /\ boss' = [boss EXCEPT ![q] = d]
  <2>. USE DEF Step, Begin, Alone, AdjustInit, Acquire, Unadjusted, NoSlot, StartJob,
           AwaitParallel, Finish, Stat, Fini, JobExit, SerialExit, Crash, family
  <2>1. CASE StartJob(d) /\ pc[d] \in {"slots", "retry"}
    BY <1>3, <2>1 DEF Command
  <2>2. CASE Serially(d) /\ pc[d] \in {"work", "slots", "retry"}
    BY <1>3, <2>2 DEF Serially
  <2>3. CASE ~(StartJob(d) /\ pc[d] \in {"slots", "retry"})
             /\ ~(Serially(d) /\ pc[d] \in {"work", "slots", "retry"})
    BY <1>3, <2>3
  <2>. QED  BY <2>1, <2>2, <2>3
<1>. QED  BY <1>1, <1>2, <1>3

LEMMA StepTree ==
  ASSUME NEW d \in Dmake, TypeOK, Shape, TreeInv,
         Step(d) \/ JobExit(d) \/ SerialExit(d) \/ Crash(d)
  PROVE  TreeInv'
BY StepHasBoss, StepRanked, StepKind, Stays DEF TreeInv

-----------------------------------------------------------------------------
(* The semaphore stays while it is used                                    *)

\* Who is about to destroy the semaphore made it, and is the last to use it.
Destroys(d) ==
    pc[d] = "destroy" => /\ sem[d] = d
                         /\ \A e \in Dmake : Live(e) /\ env[e].file = d => e = d

UseInv == Killed = {} => (\A d \in Dmake : Destroys(d)) /\ StaysWhileUsed

\* A dmake that sees no other process attached made the semaphore, and nobody
\* else uses it.
LEMMA LastOneMadeIt ==
  ASSUME TypeOK, Shape, TreeInv, Killed = {}, NEW d \in Dmake, pc[d] = "stat", LastOne(sem[d])
  PROVE  sem[d] = d /\ \A e \in Dmake : Live(e) /\ env[e].file = d => e = d
<1>1. PICK t \in Dmake : sem[d] = t /\ env[d].file = t
  BY DEF Shape, SemIsNamed, TypeOK
<1>2. Live(d) /\ Kids(d) = {}
  BY SlotsAssumption DEF Live, Gone, Shape, BossWaits, Kids
<1>3. Live(t) /\ sem[t] = t
  BY <1>1, <1>2, MakerAbove
<1>4. d \in Attached(t) /\ t \in Attached(t)
  BY <1>1, <1>2, <1>3 DEF Attached, Live
<1>5. IsFiniteSet(Attached(t))
  <2>. DEFINE A == {u \in Dmake : sem[u] = t /\ (~Gone(u) \/ running[u] > 0)}
              K == {k \in Dmake : k \in forked /\ ~Gone(k) /\ env[k].file = t}
              B == {<<"job", q>> : q \in K}
              job == [q \in K |-> <<"job", q>>]
  <2>1. IsFiniteSet(A) /\ IsFiniteSet(K)
    BY SlotsAssumption, FS_Subset
  <2>2. job \in Surjection(K, B)
    BY DEF Surjection
  <2>3. IsFiniteSet(B)
    BY <2>1, <2>2, FS_Surjection
  <2>4. Attached(t) = A \cup B
    BY DEF Attached
  <2>. HIDE DEF A, B, K, job
  <2>. QED  BY <2>1, <2>3, <2>4, FS_Union
<1>6. d = t
  <2>1. SUFFICES ASSUME d /= t PROVE FALSE
    OBVIOUS
  <2>2. IsFiniteSet({d, t}) /\ Cardinality({d, t}) = 2
    <3>1. {d, t} = {d} \cup {t} /\ t \notin {d}
      BY <2>1
    <3>2. IsFiniteSet({d}) /\ Cardinality({d}) = 1
      BY FS_Singleton
    <3>3. Cardinality({d} \cup {t}) = 1 + 1 /\ IsFiniteSet({d} \cup {t})
      BY <3>1, <3>2, FS_AddElement
    <3>. QED  BY <3>1, <3>3
  <2>3. {d, t} \subseteq Attached(t)
    BY <1>4
  <2>4. Cardinality({d, t}) <= Cardinality(Attached(t)) /\ Cardinality(Attached(t)) \in Nat
    BY <1>5, <2>3, FS_Subset, FS_CardinalityType
  <2>. QED  BY <1>1, <2>2, <2>4 DEF LastOne
<1>7. ASSUME NEW e \in Dmake, Live(e), env[e].file = d PROVE e = d
  BY <1>2, <1>7, MakerAbove
<1>. QED  BY <1>1, <1>6, <1>7

LEMMA InitUse == Init => UseInv
BY DEF Init, UseInv, Destroys, StaysWhileUsed

LEMMA StepUse ==
  ASSUME NEW d \in Dmake, TypeOK, Shape, TreeInv, UseInv, Shape', TypeOK',
         Step(d) \/ JobExit(d) \/ SerialExit(d) \/ Crash(d)
  PROVE  UseInv'
<1>. SUFFICES ASSUME Killed' = {} PROVE (\A a \in Dmake : Destroys(a)') /\ StaysWhileUsed'
  BY DEF UseInv
<1>. USE SlotsAssumption DEF family, shared
<1>0. Killed = {} /\ \A a \in Dmake : Destroys(a) /\ (sem[a] /= None => live[sem[a]])
  BY Stays DEF UseInv, StaysWhileUsed
<1>1. CASE Stat(d)
  <2>1. /\ UNCHANGED <<sem, env, live>> /\ \A a \in Dmake \ {d} : pc'[a] = pc[a]
        /\ \A a \in Dmake : Live(a)' <=> Live(a)
        /\ pc[d] = "stat" /\ (pc'[d] = "destroy" => LastOne(sem[d]))
    BY <1>1 DEF Stat, TypeOK, Live, Gone
  <2>2. Destroys(d)'
    BY <1>0, <2>1, LastOneMadeIt DEF Destroys
  <2>. QED  BY <1>0, <2>1, <2>2 DEF Destroys, StaysWhileUsed
<1>2. CASE Fini(d)
  <2>1. /\ sem' = [sem EXCEPT ![d] = None] /\ UNCHANGED env
        /\ pc' = [pc EXCEPT ![d] = "gone"]
        /\ live' = [live EXCEPT ![sem[d]] = @ /\ pc[d] = "detach"]
        /\ pc[d] \in {"destroy", "detach"}
    BY <1>2 DEF Fini
  <2>2. \A a \in Dmake : Live(a)' => Live(a) /\ a /= d
    BY <2>1 DEF Live, Gone, TypeOK
  <2>3. \A a \in Dmake : Destroys(a)'
    BY <1>0, <2>1, <2>2 DEF Destroys, TypeOK
  <2>4. ASSUME NEW a \in Dmake, sem'[a] /= None PROVE live'[sem'[a]]
    <3>1. a /= d /\ sem'[a] = sem[a] /\ live[sem[a]] /\ sem[a] \in Dmake
      BY <1>0, <2>1, <2>4 DEF TypeOK
    <3>2. Live(a) /\ env[a].file = sem[a]
      BY <1>0, <3>1 DEF Shape, SemIsNamed, NewIsFresh, Live, Gone, Killed
    <3>3. pc[d] = "destroy" => sem[a] /= sem[d]
      BY <1>0, <3>1, <3>2 DEF Destroys
    <3>. QED  BY <2>1, <3>1, <3>3 DEF TypeOK
  <2>. QED  BY <2>3, <2>4 DEF StaysWhileUsed
<1>3. CASE AdjustInit(d)
  <2>1. UNCHANGED pc /\ pc[d] = "slots"
    BY <1>3 DEF AdjustInit
  <2>2. ASSUME NEW a \in Dmake PROVE Destroys(a)'
    BY <1>0, <1>3, <2>1 DEF AdjustInit, M2Init, SemOf, AdjustError, Destroys, Live, Gone, TypeOK
  <2>3. \A a \in Dmake : live[a] => live'[a]
    BY <1>3 DEF AdjustInit, M2Init, AdjustError, TypeOK
  <2>4. ASSUME NEW a \in Dmake, sem'[a] /= None PROVE live'[sem'[a]]
    <3>1. sem[a] = sem'[a] \/ (a = d /\ sem'[d] = SemOf(d) /\ M2Init(d))
      BY <1>3 DEF AdjustInit, M2Init, AdjustError, TypeOK
    <3>2. CASE sem[a] = sem'[a]
      BY <1>0, <2>3, <2>4, <3>2 DEF TypeOK
    <3>3. CASE a = d /\ sem'[d] = SemOf(d) /\ M2Init(d)
      BY <3>3 DEF M2Init, TypeOK
    <3>. QED  BY <3>1, <3>2, <3>3
  <2>. QED  BY <2>2, <2>4 DEF StaysWhileUsed
<1>4. CASE ~Stat(d) /\ ~Fini(d) /\ ~AdjustInit(d)
  <2>1. UNCHANGED <<sem, live>>
    BY <1>4 DEF Step, Begin, Alone, Acquire, Unadjusted, NoSlot, Serially, StartJob,
       AwaitParallel, Finish, JobExit, SerialExit, Crash
  <2>2. \A a \in Dmake : pc'[a] = "destroy" => pc[a] = "destroy"
    BY <1>4 DEF Step, Begin, Alone, Acquire, Unadjusted, NoSlot, Serially, StartJob, Command,
       AwaitParallel, Finish, JobExit, SerialExit, Crash, TypeOK
  <2>3. ASSUME NEW a \in Dmake, pc[a] = "destroy", NEW e \in Dmake, Live(e)', env'[e].file = a
        PROVE  e = a
    <3>1. \A c \in Dmake : Live(c) /\ env[c].file = a => c = a
      BY <1>0, <2>3 DEF Destroys
    <3>2. ~Makes(d)
      BY <1>4 DEF Step, Begin, Alone, Acquire, Unadjusted, NoSlot, Serially, StartJob, Command,
         AwaitParallel, Finish, JobExit, SerialExit, Crash, TypeOK, Makes
    <3>3. CASE Quiet \/ Ends(d)
      BY <2>3, <3>1, <3>3 DEF Quiet, Ends
    <3>4. ASSUME NEW q \in Dmake, Begets(d, q) PROVE e = a
      <4>1. pc[d] /= "destroy"
        BY <1>4, <3>4 DEF Step, Begin, Alone, Acquire, Unadjusted, NoSlot, Serially, StartJob,
           Command, AwaitParallel, Finish, JobExit, SerialExit, Crash, TypeOK, Begets
      <4>. QED  BY <2>3, <3>1, <3>4, <4>1 DEF Begets, InFront
    <3>. QED  BY <3>2, <3>3, <3>4, StepKind DEF Kind, Forks, Nests
  <2>. QED  BY <1>0, <2>1, <2>2, <2>3 DEF Destroys, StaysWhileUsed
<1>. QED  BY <1>1, <1>2, <1>3, <1>4

-----------------------------------------------------------------------------
(* The limit for the whole family                                          *)

\* Who goes on, and who stands for a job: the first dmake, and those started as
\* jobs.
Front == {d \in Dmake : InFront(d)}
Heads == {d \in Dmake : Live(d) /\ (d = Root \/ d \in forked)}

\* The dmake that made the semaphore, or the one that goes on without a name.
Leads(d) == Live(d) /\ (env[d].file = d \/ (env[d].file = None /\ InFront(d)))

GroupInv ==
    /\ Killed = {} => Cardinality(Front) = Cardinality(Heads)
    /\ Killed \cup Unlimited = {} =>
         /\ \A q \in forked : env[q].file \notin {None, q}
         /\ \A a, b \in Dmake : Leads(a) /\ Leads(b) => a = b

LEMMA InitGroup == Init => GroupInv
<1>. SUFFICES ASSUME Init PROVE GroupInv
  OBVIOUS
<1>1. \A d \in Dmake : Live(d) <=> d = Root
  BY DEF Init, Live, Gone
<1>2. InFront(Root)
  BY <1>1, SlotsAssumption DEF Init, InFront
<1>3. Front = {Root} /\ Heads = {Root}
  BY <1>1, <1>2, SlotsAssumption DEF Front, Heads, InFront
<1>4. forked = {} /\ \A a \in Dmake : Leads(a) => a = Root
  BY <1>1 DEF Init, Leads
<1>. QED  BY <1>3, <1>4 DEF GroupInv

LEMMA FrontFinite ==
  ASSUME NEW S \in SUBSET Dmake
  PROVE  IsFiniteSet(S) /\ Cardinality(S) \in Nat
BY FS_Subset, FS_CardinalityType, SlotsAssumption

\* One dmake more, one less, or one for another.
LEMMA Swap ==
  ASSUME NEW S \in SUBSET Dmake, NEW T \in SUBSET Dmake, NEW x
  PROVE  /\ x \notin S /\ T = S \cup {x} => Cardinality(T) = Cardinality(S) + 1
         /\ \A y : x \in S /\ y \notin S /\ T = (S \ {x}) \cup {y}
                     => Cardinality(T) = Cardinality(S)
         /\ x \in S /\ T = S \ {x} => Cardinality(T) = Cardinality(S) - 1
<1>1. IsFiniteSet(S) /\ Cardinality(S) \in Nat
  BY FrontFinite
<1>2. IsFiniteSet(S \ {x}) /\ (x \in S => Cardinality(S \ {x}) = Cardinality(S) - 1)
  BY <1>1, FS_RemoveElement
<1>3. ASSUME NEW y, x \in S, y \notin S, T = (S \ {x}) \cup {y}
      PROVE  Cardinality(T) = Cardinality(S)
  <2>1. Cardinality((S \ {x}) \cup {y}) = Cardinality(S \ {x}) + 1
    BY <1>2, <1>3, FS_AddElement
  <2>. QED  BY <1>1, <1>2, <1>3, <2>1
<1>4. x \notin S => Cardinality(S \cup {x}) = Cardinality(S) + 1
  BY <1>1, FS_AddElement
<1>. QED  BY <1>2, <1>3, <1>4

LEMMA StepBalance ==
  ASSUME NEW d \in Dmake, TypeOK, Shape, TreeInv, Killed = {}, Killed' = {}, Kind(d),
         Cardinality(Front) = Cardinality(Heads)
  PROVE  Cardinality(Front)' = Cardinality(Heads)'
<1>0. /\ Front \in SUBSET Dmake /\ Front' \in SUBSET Dmake
      /\ Heads \in SUBSET Dmake /\ Heads' \in SUBSET Dmake
  BY DEF Front, Heads
<1>1. CASE Quiet \/ Makes(d)
  <2>1. Front' = Front /\ Heads' = Heads
    BY <1>1 DEF Quiet, Makes, Front, Heads
  <2>. QED  BY <2>1
<1>2. ASSUME NEW q \in Dmake, Forks(d, q) PROVE Cardinality(Front)' = Cardinality(Heads)'
  <2>1. q \notin Front /\ Front' = Front \cup {q} /\ q \notin Heads /\ Heads' = Heads \cup {q}
    BY <1>2 DEF Forks, Begets, Front, Heads, InFront
  <2>. QED  BY <1>0, <2>1, Swap
<1>3. ASSUME NEW q \in Dmake, Nests(d, q) PROVE Cardinality(Front)' = Cardinality(Heads)'
  <2>1. /\ d \in Front /\ q \notin Front /\ Front' = (Front \ {d}) \cup {q}
        /\ Heads' = Heads
    BY <1>3 DEF Nests, Begets, Front, Heads, InFront
  <2>. QED  BY <1>0, <2>1, Swap
<1>4. CASE Ends(d)
  <2>1. d \in Front /\ Live(d)
    BY <1>4 DEF Ends, Front, InFront
  <2>2. CASE d \in forked \/ d = Root
    <3>1. d \in Heads /\ Heads' = Heads \ {d}
      BY <1>4, <2>1, <2>2 DEF Ends, Heads
    <3>2. \A a \in Dmake : ~(boss[d] = a /\ d \notin forked)
      BY <2>2, SlotsAssumption DEF Shape
    <3>3. Front' = Front \ {d}
      BY <1>4, <3>2 DEF Ends, Front
    <3>. QED  BY <1>0, <2>1, <3>1, <3>3, Swap
  <2>3. CASE d \notin forked /\ d /= Root
    <3>1. Heads' = Heads
      BY <1>4, <2>3 DEF Ends, Heads
    <3>2. PICK b \in Dmake : boss[d] = b
      BY <2>1, <2>3 DEF TreeInv, HasBoss, TypeOK
    <3>3. b \notin Front
      BY <2>1, <2>3, <3>2, SlotsAssumption DEF Shape, BossWaits, Front, InFront, Kids
    <3>4. Front' = (Front \ {d}) \cup {b}
      BY <1>4, <2>3, <3>2 DEF Ends, Front
    <3>. QED  BY <1>0, <2>1, <3>1, <3>3, <3>4, Swap
  <2>. QED  BY <2>2, <2>3
<1>. QED  BY <1>1, <1>2, <1>3, <1>4 DEF Kind

LEMMA StepLeads ==
  ASSUME NEW d \in Dmake, TypeOK, Shape, TreeInv, Kind(d), Killed' = {}, Killed = {},
         Unlimited = {},
         \A q \in forked : env[q].file \notin {None, q},
         \A a, b \in Dmake : Leads(a) /\ Leads(b) => a = b
  PROVE  /\ \A q \in forked' : env'[q].file \notin {None, q}
         /\ \A a, b \in Dmake : Leads(a)' /\ Leads(b)' => a = b
<1>. USE SlotsAssumption DEF TypeOK
<1>1. CASE Quiet
  BY <1>1 DEF Quiet, Leads
<1>2. CASE Makes(d)
  <2>1. d \notin forked
    BY <1>2 DEF Makes
  <2>2. \A a \in Dmake : Leads(a)' <=> Leads(a)
    BY <1>2 DEF Makes, Leads, InFront
  <2>. QED  BY <1>2, <2>1, <2>2 DEF Makes
<1>3. ASSUME NEW q \in Dmake, Forks(d, q)
      PROVE  /\ \A a \in forked' : env'[a].file \notin {None, a}
             /\ \A a, b \in Dmake : Leads(a)' /\ Leads(b)' => a = b
  <2>1. env'[q].file \notin {None, q}
    BY <1>3 DEF Forks, Begets
  <2>2. \A a \in Dmake : Leads(a)' => Leads(a)
    BY <1>3, <2>1 DEF Forks, Begets, Leads
  <2>. QED  BY <1>3, <2>1, <2>2 DEF Forks, Begets
<1>4. ASSUME NEW q \in Dmake, Nests(d, q)
      PROVE  /\ \A a \in forked' : env'[a].file \notin {None, a}
             /\ \A a, b \in Dmake : Leads(a)' /\ Leads(b)' => a = b
  <2>1. \A a \in forked' : env'[a].file \notin {None, a}
    BY <1>4 DEF Nests, Begets
  <2>2. CASE env[d].file = None
    <3>1. Leads(d) /\ ~Leads(d)'
      BY <1>4, <2>2 DEF Nests, Begets, Leads, InFront
    <3>2. \A a \in Dmake : Leads(a)' => Leads(a) \/ a = q
      BY <1>4 DEF Nests, Begets, Leads
    <3>. QED  BY <2>1, <3>1, <3>2
  <2>3. CASE env[d].file /= None
    <3>1. \A a \in Dmake : Leads(a)' => Leads(a)
      BY <1>4, <2>3 DEF Nests, Begets, Leads
    <3>. QED  BY <2>1, <3>1
  <2>. QED  BY <2>2, <2>3
<1>5. CASE Ends(d)
  <2>1. \A a \in Dmake : Leads(a)' => (Leads(a) /\ a /= d)
                                      \/ (boss[d] = a /\ d \notin forked /\ env[a].file = None)
    BY <1>5 DEF Ends, Leads
  <2>2. ASSUME NEW a \in Dmake, boss[d] = a, env[a].file = None PROVE Leads(d)
    BY <1>5, <2>2 DEF Ends, Leads, InFront, TreeInv, HasBoss
  <2>. QED  BY <1>5, <2>1, <2>2 DEF Ends
<1>. QED  BY <1>1, <1>2, <1>3, <1>4, <1>5 DEF Kind

LEMMA StepGroup ==
  ASSUME NEW d \in Dmake, TypeOK, Shape, TreeInv, GroupInv,
         Step(d) \/ JobExit(d) \/ SerialExit(d) \/ Crash(d)
  PROVE  GroupInv'
<1>1. Kind(d) /\ Killed \subseteq Killed' /\ Unlimited \subseteq Unlimited'
  BY StepKind, Stays
<1>2. Killed' = {} => Killed = {} /\ Cardinality(Front)' = Cardinality(Heads)'
  BY <1>1, StepBalance DEF GroupInv
<1>3. ASSUME Killed' \cup Unlimited' = {}
      PROVE  /\ \A q \in forked' : env'[q].file \notin {None, q}
             /\ \A a, b \in Dmake : Leads(a)' /\ Leads(b)' => a = b
  <2>1. Killed = {} /\ Killed' = {} /\ Unlimited = {}
    BY <1>1, <1>3
  <2>. QED  BY <1>1, <2>1, StepLeads DEF GroupInv
<1>. QED  BY <1>2, <1>3 DEF GroupInv

-----------------------------------------------------------------------------
(* The invariant                                                           *)

IInv == TypeOK /\ Shape /\ SlotsConserved /\ TreeInv /\ UseInv /\ GroupInv

LEMMA InitInv == Init => IInv
<1>1. Init => SlotsConserved
  BY DEF Init, SlotsConserved
<1>. QED  BY <1>1, InitShape, InitTree, InitUse, InitGroup DEF IInv

LEMMA NextInv == IInv /\ [Next]_vars => IInv'
<1>. SUFFICES ASSUME IInv, [Next]_vars PROVE IInv'
  OBVIOUS
<1>1. CASE UNCHANGED vars
  <2>. USE <1>1 DEF vars, family, shared
  <2>1. TypeOK' <=> TypeOK
    BY DEF TypeOK
  <2>2. Shape' <=> Shape
    BY DEF Shape, NewIsFresh, BossWaits, SerialIsAlone, Jobless, SemIsNamed, NameIsMade, Kids, Gone
  <2>3. /\ Killed' = Killed /\ Unlimited' = Unlimited
        /\ \A d \in Dmake : (Live(d)' <=> Live(d)) /\ (InFront(d)' <=> InFront(d))
                          /\ (Leads(d)' <=> Leads(d)) /\ (HasBoss(d)' <=> HasBoss(d))
    <3>1. Killed' = Killed /\ Unlimited' = Unlimited
      BY DEF Killed, Unlimited
    <3>2. \A d \in Dmake : (Live(d)' <=> Live(d)) /\ Kids(d)' = Kids(d)
      BY DEF Live, Gone, Kids
    <3>3. \A d \in Dmake : InFront(d)' <=> InFront(d)
      BY <3>2 DEF InFront, Kids
    <3>4. \A d \in Dmake : (Leads(d)' <=> Leads(d)) /\ (HasBoss(d)' <=> HasBoss(d))
      BY <3>2, <3>3 DEF Leads, HasBoss
    <3>. QED  BY <3>1, <3>2, <3>3, <3>4
  <2>4. SlotsConserved' <=> SlotsConserved
    <3>1. \A s \in Dmake : Holders(s)' = Holders(s)
      BY DEF Holders, Users, JobsOf, Kids, Gone
    <3>. QED  BY <2>3, <3>1 DEF SlotsConserved
  <2>5. TreeInv' <=> TreeInv
    BY <2>3 DEF TreeInv, Ranked
  <2>6. UseInv' <=> UseInv
    BY <2>3 DEF UseInv, Destroys, StaysWhileUsed, Gone
  <2>7. GroupInv' <=> GroupInv
    <3>1. Front' = Front /\ Heads' = Heads
      BY <2>3 DEF Front, Heads
    <3>. QED  BY <2>3, <3>1 DEF GroupInv
  <2>. QED  BY <2>1, <2>2, <2>4, <2>5, <2>6, <2>7 DEF IInv
<1>2. ASSUME NEW d \in Dmake, Step(d) \/ JobExit(d) \/ SerialExit(d) \/ Crash(d)
      PROVE  IInv'
  <2>1. TypeOK' /\ Shape'
    BY <1>2, StepType, StepShape DEF IInv
  <2>2. SlotsConserved'
    BY <1>2, <2>1, StepConserves DEF IInv
  <2>3. TreeInv' /\ UseInv' /\ GroupInv'
    BY <1>2, <2>1, StepTree, StepUse, StepGroup DEF IInv
  <2>. QED  BY <2>1, <2>2, <2>3 DEF IInv
<1>. QED  BY <1>1, <1>2 DEF Next, Over

\* The semaphore, who has it, and the tree of dmakes fit together in every
\* reachable state.
THEOREM Invariant == Spec => []IInv
<1>. QED  BY InitInv, NextInv, PTL DEF Spec

LEMMA HoldersFinite ==
  ASSUME NEW t \in Dmake, TypeOK
  PROVE  IsFiniteSet(Holders(t)) /\ Cardinality(Holders(t)) \in Nat
<1>. DEFINE J == [d \in Users(t) |-> JobsOf(d)]
<1>1. IsFiniteSet(Users(t))
  BY FrontFinite DEF Users
<1>2. J \in Surjection(Users(t), {JobsOf(d) : d \in Users(t)})
  BY DEF Surjection
<1>3. IsFiniteSet({JobsOf(d) : d \in Users(t)})
  BY <1>1, <1>2, FS_Surjection
<1>4. \A T \in {JobsOf(d) : d \in Users(t)} : IsFiniteSet(T)
  BY JobsOfCard DEF Users
<1>5. IsFiniteSet(Holders(t))
  BY <1>3, <1>4, FS_UNION DEF Holders
<1>. QED  BY <1>5, FS_CardinalityType

LEMMA CommandsFinite ==
  ASSUME TypeOK
  PROVE  LET commands == UNION {{d} \X (1..running[d]) : d \in Dmake}
         IN  IsFiniteSet(commands) /\ Cardinality(commands) \in Nat
<1>. DEFINE J == [d \in Dmake |-> {d} \X (1..running[d])]
            commands == UNION {{d} \X (1..running[d]) : d \in Dmake}
<1>1. J \in Surjection(Dmake, {{d} \X (1..running[d]) : d \in Dmake})
  BY DEF Surjection
<1>2. IsFiniteSet({{d} \X (1..running[d]) : d \in Dmake})
  BY <1>1, SlotsAssumption, FS_Surjection
<1>3. ASSUME NEW d \in Dmake PROVE IsFiniteSet({d} \X (1..running[d]))
  <2>1. 1 \in Int /\ running[d] \in Int
    BY DEF TypeOK
  <2>2. IsFiniteSet(1..running[d])
    BY <2>1, FS_Interval
  <2>3. IsFiniteSet({d})
    BY FS_Singleton
  <2>. QED  BY <2>2, <2>3, FS_Product
<1>4. \A T \in {{d} \X (1..running[d]) : d \in Dmake} : IsFiniteSet(T)
  BY <1>3
<1>5. IsFiniteSet(commands)
  BY <1>2, <1>4, FS_UNION
<1>. QED  BY <1>5, FS_CardinalityType

\* Each dmake that was started as a job, and each command that runs as one, has
\* its own permit.
LEMMA PermitsTaken ==
  ASSUME TypeOK, Shape, TreeInv, Killed = {}, Unlimited = {}, NEW t \in Dmake,
         \A d \in Dmake : Live(d) /\ env[d].file /= None => env[d].file = t
  PROVE  LET commands == UNION {{d} \X (1..running[d]) : d \in Dmake}
             dmakes == {d \in forked : Live(d)}
         IN  Cardinality(commands) + Cardinality(dmakes) <= Cardinality(Holders(t))
<1>. DEFINE commands == UNION {{d} \X (1..running[d]) : d \in Dmake}
            dmakes == {d \in forked : Live(d)}
            C == UNION {{d} \X {"command"} \X (1..running[d]) : d \in Dmake}
            D == {<<boss[d], "dmake", d>> : d \in dmakes}
            c == [x \in commands |-> <<x[1], "command", x[2]>>]
            f == [d \in dmakes |-> <<boss[d], "dmake", d>>]
<1>1. IsFiniteSet(Holders(t)) /\ Cardinality(Holders(t)) \in Nat
  BY HoldersFinite
<1>2. ASSUME NEW d \in Dmake, running[d] > 0 PROVE d \in Users(t)
  <2>1. mode[d] /= "UNKNOWN" /\ mode[d] /= "NONE" /\ pc[d] \notin {"new", "serial", "gone"}
    BY <1>2 DEF Unlimited, Shape, Jobless
  <2>2. ~Gone(d) /\ Live(d) /\ mode[d] = "M2"
    BY <2>1 DEF Gone, Live, Killed, TypeOK
  <2>3. sem[d] /= None /\ env[d].file = sem[d]
    BY <2>1, <2>2 DEF Shape, SemIsNamed
  <2>. QED  BY <2>1, <2>2, <2>3 DEF Users
<1>3. ASSUME NEW d \in dmakes PROVE boss[d] \in Users(t) /\ d \in Kids(boss[d])
  <2>1. d \in Dmake /\ d /= Root /\ Live(d)
    BY DEF Shape, TypeOK
  <2>2. PICK b \in Dmake : boss[d] = b
    BY <2>1 DEF TreeInv, HasBoss, TypeOK
  <2>3. d \in Kids(b)
    BY <2>1, <2>2 DEF Kids
  <2>4. pc[b] \in {"work", "slots", "wait", "retry"} /\ mode[b] /= "UNKNOWN" /\ mode[b] /= "NONE"
    BY <2>1, <2>2, <2>3, SlotsAssumption DEF Shape, BossWaits, Jobless, Unlimited
  <2>5. ~Gone(b) /\ Live(b) /\ mode[b] = "M2"
    BY <2>4 DEF Gone, Live, TypeOK
  <2>6. sem[b] /= None /\ env[b].file = sem[b]
    BY <2>4, <2>5 DEF Shape, SemIsNamed
  <2>. QED  BY <2>2, <2>3, <2>4, <2>5, <2>6 DEF Users
<1>4. C \subseteq Holders(t)
  <2>. SUFFICES ASSUME NEW d \in Dmake, NEW i \in 1..running[d]
                PROVE  <<d, "command", i>> \in Holders(t)
    OBVIOUS
  <2>1. running[d] \in Nat /\ ended[d] \in Nat
    BY DEF TypeOK
  <2>2. running[d] > 0 /\ i \in 1..(running[d] + ended[d])
    BY <2>1
  <2>. QED  BY <1>2, <2>2 DEF Holders, JobsOf
<1>5. D \subseteq Holders(t)
  BY <1>3 DEF Holders, JobsOf
<1>6. c \in Bijection(commands, C)
  <2>1. c \in [commands -> C]
    OBVIOUS
  <2>2. \A x, y \in commands : c[x] = c[y] => x = y
    OBVIOUS
  <2>3. ASSUME NEW z \in C PROVE \E x \in commands : c[x] = z
    <3>1. PICK d \in Dmake : z \in {d} \X {"command"} \X (1..running[d])
      OBVIOUS
    <3>2. PICK i \in 1..running[d] : z = <<d, "command", i>>
      BY <3>1
    <3>3. <<d, i>> \in commands
      OBVIOUS
    <3>4. c[<<d, i>>] = z
      BY <3>2, <3>3
    <3>. QED  BY <3>3, <3>4
  <2>. HIDE DEF c, commands, C
  <2>. QED  BY <2>1, <2>2, <2>3, Fun_IsBij
<1>7. f \in Bijection(dmakes, D)
  <2>1. f \in [dmakes -> D] /\ (\A x, y \in dmakes : f[x] = f[y] => x = y)
        /\ \A z \in D : \E x \in dmakes : f[x] = z
    OBVIOUS
  <2>. HIDE DEF f, dmakes, D
  <2>. QED  BY <2>1, Fun_IsBij
<1>8. C \cap D = {}
  OBVIOUS
<1>9. IsFiniteSet(C) /\ IsFiniteSet(D) /\ IsFiniteSet(dmakes)
  <2>1. dmakes \in SUBSET Dmake
    BY DEF TypeOK
  <2>. HIDE DEF C, D, dmakes
  <2>. QED  BY <1>1, <1>4, <1>5, <2>1, FrontFinite, FS_Subset
<1>. HIDE DEF commands, dmakes, C, D, c, f
<1>10. IsFiniteSet(commands)
  BY <1>6, <1>9, FS_Injection DEF Bijection
<1>11. Cardinality(commands) = Cardinality(C) /\ Cardinality(dmakes) = Cardinality(D)
  BY <1>6, <1>7, <1>9, <1>10, FS_Bijection DEF ExistsBijection
<1>12. C \cup D \subseteq Holders(t)
  BY <1>4, <1>5
<1>13. Cardinality(C \cup D) = Cardinality(C) + Cardinality(D)
  <2>1. Cardinality(C \cup D) = Cardinality(C) + Cardinality(D) - Cardinality(C \cap D)
    BY <1>9, FS_Union
  <2>2. Cardinality(C \cap D) = 0
    BY <1>8, FS_EmptySet
  <2>3. Cardinality(C) \in Nat /\ Cardinality(D) \in Nat
    BY <1>9, FS_CardinalityType
  <2>. QED  BY <2>1, <2>2, <2>3
<1>14. Cardinality(C \cup D) <= Cardinality(Holders(t))
  BY <1>1, <1>12, FS_Subset
<1>. QED  BY <1>11, <1>13, <1>14 DEF commands, dmakes

-----------------------------------------------------------------------------
(* What the semaphore promises                                             *)

\* Permits are neither made up nor lost, for any number of dmakes and jobs
\* (m2_acquire_job(), m2_release_job()).
THEOREM PermitsAreConserved == Spec => []SlotsConserved
<1>1. IInv => SlotsConserved
  BY DEF IInv
<1>. QED  BY <1>1, Invariant, PTL

\* m2_fini() does not destroy the semaphore while another dmake uses it, though
\* it counts the processes and removes the memory in two steps.
THEOREM SemaphoreStays == Spec => []StaysWhileUsed
<1>1. IInv => StaysWhileUsed
  BY DEF IInv, UseInv, StaysWhileUsed
<1>. QED  BY <1>1, Invariant, PTL

\* The commands that run, and the dmakes that run one themselves, are at most
\* as many as there are permits.
LEMMA LimitHolds == IInv => GroupLimit
<1>. SUFFICES ASSUME IInv, Killed = {}, Unlimited = {}
              PROVE  Cardinality(UNION {{d} \X (1..running[d]) : d \in Dmake})
                     + Cardinality({d \in Dmake : pc[d] = "serial" /\ Kids(d) = {}}) <= MaxJobs
  BY DEF GroupLimit
<1>. DEFINE commands == UNION {{d} \X (1..running[d]) : d \in Dmake}
            dmakes == {d \in forked : Live(d)}
            alone == {d \in Dmake : pc[d] = "serial" /\ Kids(d) = {}}
<1>. USE DEF IInv
<1>1. /\ IsFiniteSet(dmakes) /\ Cardinality(dmakes) \in Nat
      /\ IsFiniteSet(alone) /\ Cardinality(alone) \in Nat
      /\ IsFiniteSet(Front) /\ Cardinality(Front) \in Nat
      /\ IsFiniteSet(Heads) /\ Cardinality(Heads) \in Nat
  <2>1. dmakes \in SUBSET Dmake /\ alone \in SUBSET Dmake
        /\ Front \in SUBSET Dmake /\ Heads \in SUBSET Dmake
    BY DEF TypeOK, Front, Heads
  <2>. HIDE DEF dmakes, alone
  <2>. QED  BY <2>1, FrontFinite
<1>2. Cardinality(Front) <= Cardinality(dmakes) + 1
  <2>1. Heads \subseteq dmakes \cup {Root} /\ IsFiniteSet(dmakes \cup {Root})
        /\ Cardinality(dmakes \cup {Root}) <= Cardinality(dmakes) + 1
    <3>1. Heads \subseteq dmakes \cup {Root}
      BY DEF Heads
    <3>. HIDE DEF dmakes
    <3>2. /\ IsFiniteSet(dmakes \cup {Root})
          /\ Cardinality(dmakes \cup {Root}) =
               IF Root \in dmakes THEN Cardinality(dmakes) ELSE Cardinality(dmakes) + 1
      BY <1>1, FS_AddElement
    <3>. QED  BY <1>1, <3>1, <3>2
  <2>2. Cardinality(Heads) <= Cardinality(dmakes \cup {Root})
    <3>. HIDE DEF dmakes
    <3>. QED  BY <2>1, FS_Subset
  <2>3. Cardinality(dmakes \cup {Root}) \in Nat
    <3>. HIDE DEF dmakes
    <3>. QED  BY <2>1, FS_CardinalityType
  <2>. QED  BY <1>1, <2>1, <2>2, <2>3 DEF GroupInv
<1>3. alone \subseteq Front
  BY DEF Front, InFront, Live, Gone
<1>4. ASSUME NEW d \in Dmake, running[d] > 0
      PROVE  d \in Front \ alone /\ env[d].file /= None
  <2>1. mode[d] /= "UNKNOWN" /\ mode[d] /= "NONE" /\ pc[d] \notin {"new", "serial", "gone"}
    BY <1>4 DEF Unlimited, Shape, Jobless
  <2>2. ~Gone(d) /\ Live(d) /\ mode[d] = "M2"
    BY <2>1 DEF Gone, Live, Killed, TypeOK
  <2>3. sem[d] /= None /\ env[d].file = sem[d]
    BY <2>1, <2>2 DEF Shape, SemIsNamed
  <2>. QED  BY <2>1, <2>2, <2>3 DEF Front, InFront
<1>5. ASSUME NEW d \in dmakes
      PROVE  /\ \E b \in Dmake : b \in Front \ alone
             /\ env[d].file /= None
  <2>1. d \in Dmake /\ d /= Root /\ Live(d)
    BY DEF Shape, TypeOK
  <2>2. PICK b \in Dmake : boss[d] = b
    BY <2>1 DEF TreeInv, HasBoss, TypeOK
  <2>3. pc[b] \in {"work", "slots", "wait", "retry"}
    BY <2>1, <2>2, SlotsAssumption DEF Shape, BossWaits
  <2>4. b \in Front \ alone
    BY <2>3 DEF Front, InFront, Live, Gone
  <2>. QED  BY <2>4 DEF GroupInv
<1>6. CASE \A d \in Dmake : Live(d) => env[d].file = None
  <2>1. \A d \in Dmake : running[d] = 0
    BY <1>4, <1>6 DEF Front, InFront, TypeOK
  <2>2. commands = {}
    BY <2>1
  <2>3. dmakes = {}
    BY <1>5, <1>6 DEF TypeOK
  <2>4. Cardinality(commands) = 0 /\ Cardinality(dmakes) = 0
    BY <2>2, <2>3, FS_EmptySet
  <2>5. Cardinality(alone) <= Cardinality(Front)
    <3>. HIDE DEF alone
    <3>. QED  BY <1>1, <1>3, FS_Subset
  <2>. HIDE DEF alone, commands, dmakes
  <2>6. Cardinality(commands) + Cardinality(alone) <= MaxJobs
    BY <1>1, <1>2, <2>4, <2>5, SlotsAssumption
  <2>. QED  BY <2>6 DEF alone, commands
<1>7. ASSUME NEW e \in Dmake, NEW t \in Dmake, Live(e), env[e].file = t
      PROVE  Cardinality(commands) + Cardinality(alone) <= MaxJobs
  <2>1. Live(t) /\ env[t].file = t /\ sem[t] = t
    BY <1>7, MakerAbove
  <2>2. ASSUME NEW d \in Dmake, Live(d), env[d].file /= None PROVE env[d].file = t
    <3>1. PICK u \in Dmake : env[d].file = u
      BY <2>2 DEF TypeOK
    <3>2. Live(u) /\ env[u].file = u
      BY <2>2, <3>1, MakerAbove
    <3>. QED  BY <2>1, <3>1, <3>2 DEF GroupInv, Leads
  <2>3. Cardinality(commands) + Cardinality(dmakes) <= Cardinality(Holders(t))
    BY <2>2, PermitsTaken
  <2>4. live[t]
    BY <2>1, SlotsAssumption DEF UseInv, StaysWhileUsed
  <2>5. value[t] + Cardinality(Holders(t)) <= MaxJobs /\ value[t] \in Nat
    BY <2>4 DEF SlotsConserved, TypeOK
  <2>6. Cardinality(Holders(t)) \in Nat
    BY HoldersFinite
  <2>7. IsFiniteSet(commands) /\ Cardinality(commands) \in Nat
    BY CommandsFinite
  <2>8. CASE alone = Front
    <3>1. \A d \in Dmake : running[d] = 0
      BY <1>4, <2>8 DEF TypeOK
    <3>2. commands = {} /\ dmakes = {}
      BY <1>5, <2>8, <3>1
    <3>3. Cardinality(commands) = 0 /\ Cardinality(dmakes) = 0
      BY <3>2, FS_EmptySet
    <3>. HIDE DEF alone, commands, dmakes
    <3>. QED  BY <1>1, <1>2, <2>8, <3>3, SlotsAssumption
  <2>9. CASE alone /= Front
    <3>. HIDE DEF alone, commands, dmakes
    <3>1. Cardinality(alone) < Cardinality(Front)
      BY <1>1, <1>3, <2>9, FS_Subset
    <3>. QED  BY <1>1, <1>2, <2>3, <2>5, <2>6, <2>7, <3>1, SlotsAssumption
  <2>. QED  BY <2>8, <2>9
<1>. QED  BY <1>6, <1>7 DEF TypeOK

\* "fixed limit of jobs for the group of nested dmakes" (parallel.cc 641),
\* however many dmakes there are and however deep they are nested.
THEOREM LimitIsForAll == Spec => []GroupLimit
<1>. QED  BY LimitHolds, Invariant, PTL
=============================================================================
