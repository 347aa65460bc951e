---------------------------- MODULE BuildsProofs ----------------------------
(***************************************************************************)
(* One build after another, for every makefile, any number of builds and   *)
(* whatever happens to them: what a build that succeeds leaves behind, what *)
(* the next one does, what make -n promises and what an interrupt leaves.  *)
(***************************************************************************)
EXTENDS Builds, FiniteSetTheorems, SequenceTheorems, WellFoundedInduction, TLAPS

-----------------------------------------------------------------------------
(* Numbers, and what is made from what                                     *)

LEMMA LeastNumber ==
  ASSUME NEW T \in SUBSET Nat, T /= {}
  PROVE  \E n \in T : \A k \in T : n <= k
<1>1. PICK n \in T : \A k \in T : <<k, n>> \notin OpToRel(<, Nat)
  BY NatLessThanWellFounded, WFMin
<1>2. \A k \in T : ~(k < n)
  BY <1>1 DEF OpToRel
<1>. QED  BY <1>2

\* The function that Above(S) defines by recursion, on 0..k.
MadeFrom(F) == {t \in Target : (Deps[t] \cup includes[t]) \cap F /= {}}
Climbs(S, k, up) ==
    up = [n \in 0 .. k |-> IF n = 0 THEN S ELSE up[n - 1] \cup MadeFrom(up[n - 1])]

LEMMA ClimbsExists ==
  ASSUME NEW S, NEW N \in Nat
  PROVE  \E up : Climbs(S, N, up)
<1>. DEFINE Bad == {k \in Nat : ~\E up : Climbs(S, k, up)}
<1>. SUFFICES ASSUME Bad /= {} PROVE FALSE
  OBVIOUS
<1>1. PICK k \in Bad : \A j \in Bad : k <= j
  BY LeastNumber
<1>2. k /= 0
  <2>1. Climbs(S, 0, [n \in 0..0 |-> S])
    BY DEF Climbs
  <2>. QED  BY <2>1, <1>1
<1>3. k - 1 \in Nat /\ k - 1 \notin Bad
  BY <1>1, <1>2
<1>4. PICK up : Climbs(S, k - 1, up)
  BY <1>3
<1>5. Climbs(S, k, [n \in 0..k |->
                     IF n = k THEN up[k - 1] \cup MadeFrom(up[k - 1]) ELSE up[n]])
  <2>. DEFINE new == [n \in 0..k |->
                       IF n = k THEN up[k - 1] \cup MadeFrom(up[k - 1]) ELSE up[n]]
  <2>1. \A n \in 0..(k - 1) :
           up[n] = IF n = 0 THEN S ELSE up[n - 1] \cup MadeFrom(up[n - 1])
    BY <1>4 DEF Climbs
  <2>2. /\ k - 1 \in Nat /\ \A n \in 0..k : n = k \/ n \in 0..(k - 1)
        /\ \A n \in 0..k : n /= 0 => n - 1 \in 0..k /\ n - 1 /= k
    BY <1>2, <1>3
  <2>3. \A n \in 0..k :
           new[n] = IF n = k THEN up[k - 1] \cup MadeFrom(up[k - 1]) ELSE up[n]
    OBVIOUS
  <2>4. new = [n \in 0..k |-> new[n]]
    OBVIOUS
  <2>. HIDE DEF new
  <2>5. ASSUME NEW n \in 0..k
        PROVE  new[n] = IF n = 0 THEN S ELSE new[n - 1] \cup MadeFrom(new[n - 1])
    <3>1. CASE n = 0
      BY <2>1, <2>2, <2>3, <1>2, <3>1
    <3>2. CASE n /= 0 /\ n = k
      <4>1. new[n - 1] = up[n - 1]
        BY <3>2, <2>2, <2>3
      <4>. QED  BY <4>1, <3>2, <2>3
    <3>3. CASE n /= 0 /\ n /= k
      <4>1. new[n - 1] = up[n - 1] /\ new[n] = up[n]
        BY <3>3, <2>2, <2>3
      <4>. QED  BY <4>1, <3>3, <2>1, <2>2
    <3>. QED  BY <3>1, <3>2, <3>3
  <2>6. [n \in 0..k |-> new[n]] =
          [n \in 0..k |-> IF n = 0 THEN S ELSE new[n - 1] \cup MadeFrom(new[n - 1])]
    BY <2>5
  <2>. QED  BY <2>4, <2>6 DEF Climbs, new
<1>. QED  BY <1>5, <1>1

\* What is above S is S, what is made from it, and nothing else: neither a
\* source, nor a file of a set X that is made from X alone.
LEMMA AboveFacts ==
  ASSUME NEW S, S \subseteq File, includes \in [Target -> SUBSET Source]
  PROVE  /\ S \subseteq Above(S)
         /\ MadeFrom(S) \subseteq Above(S)
         /\ \A f \in Above(S) \ S : f \in Target /\ f \in MadeFrom(Above(S))
         /\ \A X : X \cap S = {} /\ (\A f \in X \cap Target : Deps[f] \cup includes[f] \subseteq X)
                  => X \cap Above(S) = {}
<1>. DEFINE N == Cardinality(Target)
<1>1. IsFiniteSet(Target) /\ N \in Nat /\ (Target /= {} => N > 0)
  <2>1. IsFiniteSet(Target)
    <3>1. Target \in SUBSET File /\ IsFiniteSet(File)
      BY MakefileAssumption DEF File
    <3>. QED  BY <3>1, FS_Subset
  <2>2. Cardinality(Target) \in Nat /\ (Target /= {} => Cardinality(Target) /= 0)
    BY <2>1, FS_CardinalityType, FS_EmptySet
  <2>. QED  BY <2>1, <2>2
<1>. HIDE DEF N
<1>2. PICK up : Climbs(S, N, up) /\ Above(S) = up[N]
  <2>1. PICK f : Climbs(S, N, f)
    BY <1>1, ClimbsExists
  <2>2. Above(S) = (CHOOSE up : Climbs(S, N, up))[N]
    BY DEF Above, Climbs, MadeFrom, N
  <2>3. Climbs(S, N, CHOOSE up : Climbs(S, N, up))
    BY <2>1
  <2>. QED  BY <2>2, <2>3
<1>3. \A n \in 0..N : up[n] = IF n = 0 THEN S ELSE up[n - 1] \cup MadeFrom(up[n - 1])
  BY <1>2 DEF Climbs
<1>4. up[0] = S /\ \A n \in 1..N : n - 1 \in 0..N /\ up[n] = up[n - 1] \cup MadeFrom(up[n - 1])
  <2>1. 0 \in 0..N /\ \A n \in 1..N : n \in 0..N /\ n /= 0 /\ n - 1 \in 0..N
    BY <1>1
  <2>. QED  BY <1>3, <2>1
<1>5. \A n \in 0..N : up[1] \subseteq up[n] \/ n = 0
  <2>. DEFINE Bad == {n \in Nat : n \in 1..N /\ ~(up[1] \subseteq up[n])}
  <2>. SUFFICES ASSUME Bad /= {} PROVE FALSE
    BY <1>1
  <2>1. PICK n \in Bad : \A k \in Bad : n <= k
    BY LeastNumber
  <2>2. n /= 1
    BY <2>1
  <2>3. n - 1 \in 1..N /\ n - 1 \notin Bad
    BY <1>1, <2>1, <2>2
  <2>. QED  BY <1>4, <2>1, <2>3
<1>6. S \subseteq Above(S) /\ MadeFrom(S) \subseteq Above(S)
  <2>1. CASE N = 0
    <3>1. MadeFrom(S) = {}
      BY <1>1, <2>1 DEF MadeFrom
    <3>. QED  BY <1>2, <1>4, <2>1, <3>1
  <2>2. CASE N /= 0
    <3>1. up[1] = S \cup MadeFrom(S) /\ N \in 0..N
      BY <1>1, <1>4, <2>2
    <3>. QED  BY <1>2, <1>5, <2>2, <3>1
  <2>. QED  BY <2>1, <2>2
<1>7. \A n \in 0..N : \A f \in up[n] \ S : f \in MadeFrom(up[N])
  <2>1. \A n \in 0..N : up[n] \subseteq up[N]
    <3>. DEFINE Bad == {i \in Nat : i \in 0..N /\ ~(up[N - i] \subseteq up[N])}
    <3>1. SUFFICES Bad = {}
      <4>1. \A n \in 0..N : N - n \in 0..N /\ N - (N - n) = n
        BY <1>1
      <4>. QED  BY <3>1, <4>1
    <3>. SUFFICES ASSUME Bad /= {} PROVE FALSE
      OBVIOUS
    <3>2. PICK i \in Bad : \A k \in Bad : i <= k
      BY LeastNumber
    <3>3. i /= 0
      BY <1>1, <3>2
    <3>4. /\ i - 1 \in 0..N /\ i - 1 \notin Bad
          /\ N - (i - 1) \in 1..N /\ (N - (i - 1)) - 1 = N - i
      BY <1>1, <3>2, <3>3
    <3>. QED  BY <1>4, <3>2, <3>4
  <2>. DEFINE Bad == {n \in Nat : n \in 0..N /\ ~\A f \in up[n] \ S : f \in MadeFrom(up[N])}
  <2>. SUFFICES ASSUME Bad /= {} PROVE FALSE
    BY <1>1
  <2>2. PICK n \in Bad : \A k \in Bad : n <= k
    BY LeastNumber
  <2>3. n /= 0
    BY <1>4, <2>2
  <2>4. n \in 1..N /\ n - 1 \in 0..N /\ n - 1 \notin Bad
    BY <1>1, <2>2, <2>3
  <2>5. MadeFrom(up[n - 1]) \subseteq MadeFrom(up[N])
    BY <2>1, <2>4 DEF MadeFrom
  <2>. QED  BY <1>4, <2>2, <2>4, <2>5
<1>8. \A f \in Above(S) \ S : f \in Target /\ f \in MadeFrom(Above(S))
  BY <1>1, <1>2, <1>7 DEF MadeFrom
<1>9. ASSUME NEW X, X \cap S = {},
             \A f \in X \cap Target : Deps[f] \cup includes[f] \subseteq X
      PROVE  X \cap Above(S) = {}
  <2>. DEFINE Bad == {n \in Nat : n \in 0..N /\ X \cap up[n] /= {}}
  <2>. SUFFICES ASSUME Bad /= {} PROVE FALSE
    BY <1>1, <1>2
  <2>1. PICK n \in Bad : \A k \in Bad : n <= k
    BY LeastNumber
  <2>2. n /= 0
    BY <1>4, <1>9, <2>1
  <2>3. n \in 1..N /\ n - 1 \in 0..N /\ n - 1 \notin Bad
    BY <1>1, <2>1, <2>2
  <2>4. X \cap up[n - 1] = {}
    BY <2>3, <1>1
  <2>5. X \cap MadeFrom(up[n - 1]) = {}
    BY <1>9, <2>4 DEF MadeFrom
  <2>. QED  BY <1>4, <2>1, <2>3, <2>4, <2>5
<1>. QED  BY <1>6, <1>8, <1>9

-----------------------------------------------------------------------------
(* The times of the files                                                  *)

LEMMA FileIsFinite == IsFiniteSet(File) /\ Cardinality(File) \in Nat
BY MakefileAssumption, FS_CardinalityType

LEMMA RankedFacts ==
  ASSUME NEW times \in [File -> Nat]
  PROVE  /\ Ranked(times) \in [File -> 0 .. Cardinality(File)]
         /\ \A f \in File : Ranked(times)[f] > 0 <=> times[f] > 0
         /\ \A f, g \in File : Ranked(times)[f] < Ranked(times)[g] <=> times[f] < times[g]
<1>. DEFINE Older(f) == {g \in File : 0 < times[g] /\ times[g] <= times[f]}
<1>1. \A f \in File : Ranked(times)[f] = Cardinality(Older(f))
  BY DEF Ranked
<1>2. Ranked(times) = [f \in File |-> Ranked(times)[f]]
  BY DEF Ranked
<1>3. \A f \in File : /\ Older(f) \in SUBSET File /\ IsFiniteSet(Older(f))
                     /\ Cardinality(Older(f)) \in Nat /\ Cardinality(Older(f)) <= Cardinality(File)
  <2>. TAKE f \in File
  <2>1. Older(f) \in SUBSET File
    OBVIOUS
  <2>. HIDE DEF Older
  <2>2. IsFiniteSet(Older(f)) /\ Cardinality(Older(f)) <= Cardinality(File)
    BY <2>1, FileIsFinite, FS_Subset
  <2>. QED  BY <2>1, <2>2, FS_CardinalityType
<1>4. ASSUME NEW f \in File
      PROVE  Cardinality(Older(f)) = 0 <=> times[f] = 0
  <2>1. Older(f) = {} <=> times[f] = 0
    <3>1. times[f] \in Nat
      OBVIOUS
    <3>2. times[f] /= 0 => f \in Older(f)
      BY <3>1
    <3>3. times[f] = 0 => Older(f) = {}
      OBVIOUS
    <3>. QED  BY <3>2, <3>3
  <2>. HIDE DEF Older
  <2>. QED  BY <2>1, <1>3, FS_EmptySet
<1>5. ASSUME NEW f \in File, NEW g \in File, times[f] < times[g]
      PROVE  Cardinality(Older(f)) < Cardinality(Older(g))
  <2>1. Older(f) \subseteq Older(g) /\ g \in Older(g) /\ g \notin Older(f)
    <3>1. times[f] \in Nat /\ times[g] \in Nat
      OBVIOUS
    <3>2. g \in Older(g) /\ g \notin Older(f)
      BY <1>5, <3>1
    <3>3. \A h \in File : times[h] \in Nat /\ (times[h] <= times[f] => times[h] <= times[g])
      BY <1>5
    <3>. QED  BY <3>2, <3>3
  <2>. HIDE DEF Older
  <2>2. Older(f) \in SUBSET Older(g)
    BY <2>1
  <2>3. /\ Cardinality(Older(f)) <= Cardinality(Older(g))
        /\ Cardinality(Older(g)) = Cardinality(Older(f)) => Older(g) = Older(f)
    BY <2>2, <1>3, FS_Subset
  <2>. QED  BY <2>1, <2>3, <1>3
<1>6. ASSUME NEW f \in File, NEW g \in File, times[f] = times[g]
      PROVE  Older(f) = Older(g)
  BY <1>6
<1>. HIDE DEF Older
<1>7. Ranked(times) \in [File -> 0 .. Cardinality(File)]
  <2>1. \A f \in File : Ranked(times)[f] \in 0 .. Cardinality(File)
    BY <1>1, <1>3, FileIsFinite
  <2>. QED  BY <2>1, <1>2
<1>8. \A f \in File : Ranked(times)[f] > 0 <=> times[f] > 0
  BY <1>1, <1>3, <1>4
<1>9. ASSUME NEW f \in File, NEW g \in File
      PROVE  Ranked(times)[f] < Ranked(times)[g] <=> times[f] < times[g]
  <2>1. times[f] \in Nat /\ times[g] \in Nat
    OBVIOUS
  <2>2. times[f] < times[g] \/ times[f] = times[g] \/ times[g] < times[f]
    BY <2>1
  <2>3. CASE times[f] < times[g]
    BY <2>3, <1>1, <1>5
  <2>4. CASE times[f] = times[g]
    BY <2>4, <2>1, <1>1, <1>3, <1>6
  <2>5. CASE times[g] < times[f]
    <3>1. Cardinality(Older(g)) < Cardinality(Older(f))
      BY <2>5, <1>5
    <3>. QED  BY <3>1, <2>5, <2>1, <1>1, <1>3
  <2>. QED  BY <2>2, <2>3, <2>4, <2>5
<1>. QED  BY <1>7, <1>8, <1>9

DiskOK == disk \in [File -> 0 .. Cardinality(File)]

LEMMA WrittenFacts ==
  ASSUME DiskOK, NEW f \in File
  PROVE  /\ Written(f) \in [File -> 0 .. Cardinality(File)]
         /\ Written(f)[f] > 0
         /\ \A g \in File : g /= f => /\ Written(f)[g] > 0 <=> disk[g] > 0
                                      /\ Written(f)[g] < Written(f)[f]
         /\ \A g, h \in File : g /= f /\ h /= f =>
               (Written(f)[g] < Written(f)[h] <=> disk[g] < disk[h])
<1>. DEFINE times == [disk EXCEPT ![f] = FileMaxTime]
<1>1. FileMaxTime \in Nat /\ FileMaxTime > Cardinality(File)
  BY FileIsFinite DEF FileMaxTime
<1>2. /\ times \in [File -> Nat] /\ times[f] = FileMaxTime
      /\ \A g \in File : g /= f => times[g] = disk[g]
  BY <1>1, FileIsFinite DEF DiskOK
<1>3. \A g \in File : disk[g] \in Nat /\ disk[g] <= Cardinality(File)
  BY FileIsFinite DEF DiskOK
<1>4. Written(f) = Ranked(times)
  BY DEF Written
<1>. HIDE DEF times
<1>5. \A g \in File : g /= f => times[g] < times[f]
  BY <1>1, <1>2, <1>3, FileIsFinite
<1>. QED  BY <1>1, <1>2, <1>4, <1>5, FileIsFinite, RankedFacts

LEMMA WithoutFacts ==
  ASSUME DiskOK, NEW F
  PROVE  /\ Without(F) \in [File -> 0 .. Cardinality(File)]
         /\ \A g \in File : Without(F)[g] > 0 <=> disk[g] > 0 /\ g \notin F
         /\ \A g, h \in File : g \notin F /\ h \notin F =>
               (Without(F)[g] < Without(F)[h] <=> disk[g] < disk[h])
<1>. DEFINE times == [f \in File |-> IF f \in F THEN 0 ELSE disk[f]]
<1>1. \A g \in File : disk[g] \in Nat
  BY FileIsFinite DEF DiskOK
<1>2. /\ times \in [File -> Nat] /\ \A g \in File : times[g] = IF g \in F THEN 0 ELSE disk[g]
  BY <1>1
<1>3. Without(F) = Ranked(times)
  BY DEF Without
<1>. HIDE DEF times
<1>. QED  BY <1>1, <1>2, <1>3, RankedFacts

-----------------------------------------------------------------------------
(* The state, with types, and what every step of make leaves alone          *)

Make == [phase : {"off", "on", "fatal"}, mode : {"run", "-n", "-t"}, jobs : Nat \ {0},
         keep_going : BOOLEAN, mem : [Target -> Record], state : [Target -> Status],
         faked : SUBSET Target, gone : SUBSET Target, held : SUBSET Target,
         command_changed : BOOLEAN, rewrite_statefile : BOOLEAN, did : SUBSET Target]

TypeOK ==
    /\ DiskOK
    /\ whole \subseteq File /\ vouched \subseteq Target /\ right \subseteq Target
    /\ rule \in [Target -> Nat] /\ \A t \in Target : rule[t] \in DOMAIN Recipe[t]
    /\ includes \in [Target -> SUBSET Source]
    /\ saved \in [Target -> Record] /\ make \in Make
    /\ \A t \in Target : saved[t].cmd <= rule[t] /\ make.mem[t].cmd <= rule[t]
    /\ idle \in BOOLEAN

Off == make.phase = "off"
State(t) == make.state[t]
Busy(t) == State(t) \in Active
Flagged == make.rewrite_statefile /\ make.command_changed
Needs(t) == Deps[t] \cap Target

\* What make knows of t after it looked at it.
Looked(t) ==
    [cmd |-> IF t \in make.held THEN make.mem[t].cmd ELSE rule[t],
     autos |-> make.mem[t].autos \ Vanished(t)]
Notices(t) == Vanished(t) /= {} \/ (t \notin make.held /\ CommandDiffers(t))

\* The process after a step about t: its state s and what is known of it, r.
Turns(t, s, r) ==
    /\ make' \in Make
    /\ make'.mode = make.mode /\ make'.jobs = make.jobs /\ make'.keep_going = make.keep_going
    /\ make'.state = [make.state EXCEPT ![t] = s]
    /\ make'.mem = [make.mem EXCEPT ![t] = r]
Lists(gone, held, faked, did) ==
    /\ make'.gone = gone /\ make'.held = held /\ make'.faked = faked /\ make'.did = did

\* A step of make that is about t leaves what it knows of the others alone.
Moves(t) ==
    /\ make' \in Make /\ ~Off /\ make'.phase \in {make.phase, "fatal"}
    /\ State(t) /= "ok" /\ State(t) /= "failed" /\ make'.mode = make.mode
    /\ \A u \in Target \ {t} :
         /\ make'.mem[u] = make.mem[u] /\ make'.state[u] = make.state[u]
         /\ u \in make'.held <=> u \in make.held
         /\ u \in make'.gone <=> u \in make.gone
         /\ u \in make'.faked <=> u \in make.faked
         /\ u \in make'.did <=> u \in make.did
    /\ make.did \subseteq make'.did
    /\ make.command_changed => make'.command_changed
    /\ make.rewrite_statefile => make'.rewrite_statefile
    /\ UNCHANGED <<rule, includes, saved, idle, foretold>>
    /\ disk' = disk \/ (disk' = Written(t) /\ t \in make'.did)

LEMMA RecipeFacts ==
  ASSUME TypeOK, NEW t \in Target
  PROVE  /\ rule[t] \in Nat /\ rule[t] > 0 /\ rule[t] <= Len(Recipe[t])
         /\ Recipe[t] \in Seq(Seq(Cmd_line)) /\ Len(Recipe[t]) \in Nat
         /\ \A i \in DOMAIN Recipe[t] : Recipe[t][i] \in Seq(Cmd_line) /\ Len(Recipe[t][i]) > 0
<1>1. /\ Recipe[t] \in Seq(Seq(Cmd_line) \ {<<>>})
      /\ \A i \in DOMAIN Recipe[t] : Recipe[t][i] \in Seq(Cmd_line) \ {<<>>}
  <2>1. Recipe[t] \in Seq(Seq(Cmd_line) \ {<<>>})
    BY MakefileAssumption
  <2>2. \A S : \A s \in Seq(S) : \A i \in DOMAIN s : s[i] \in S
    OBVIOUS
  <2>. QED  BY <2>1, <2>2
<1>2. \A c \in Seq(Cmd_line) : c /= <<>> => Len(c) > 0
  BY EmptySeq, LenProperties
<1>3. Len(Recipe[t]) \in Nat /\ DOMAIN Recipe[t] = 1..Len(Recipe[t]) /\ rule[t] \in DOMAIN Recipe[t]
  BY <1>1, LenProperties DEF TypeOK
<1>4. Recipe[t] \in Seq(Seq(Cmd_line))
  <2>1. \A S, Z : S \subseteq Z => Seq(S) \subseteq Seq(Z)
    OBVIOUS
  <2>. QED  BY <1>1, <2>1
<1>. QED  BY <1>1, <1>2, <1>3, <1>4 DEF TypeOK

LEMMA CheckedFacts ==
  ASSUME TypeOK, NEW t \in Target
  PROVE  /\ Checked(t) \in Make /\ Looked(t) \in Record
         /\ Checked(t).phase = make.phase /\ Checked(t).mode = make.mode
         /\ Checked(t).jobs = make.jobs /\ Checked(t).keep_going = make.keep_going
         /\ Checked(t).state = make.state /\ Checked(t).faked = make.faked
         /\ Checked(t).held = make.held /\ Checked(t).did = make.did
         /\ Checked(t).mem = [make.mem EXCEPT ![t] = Looked(t)]
         /\ Checked(t).gone = IF Vanished(t) /= {} THEN make.gone \cup {t} ELSE make.gone
         /\ Checked(t).command_changed = (make.command_changed \/ Notices(t))
         /\ Checked(t).rewrite_statefile = (make.rewrite_statefile \/ Vanished(t) /= {})
<1>1. Looked(t) \in Record
  BY DEF TypeOK, Make, Record, Looked
<1>2. CommandDiffers(t) \in BOOLEAN /\ Notices(t) \in BOOLEAN
  BY DEF CommandDiffers, Replaces, Differ, Notices
<1>3. make \in Make
  BY DEF TypeOK
<1>. DEFINE gone == IF Vanished(t) /= {} THEN make.gone \cup {t} ELSE make.gone
            missing == Vanished(t) /= {}
            r == Looked(t)
            n == Notices(t)
<1>4. Checked(t) = [make EXCEPT !.mem[t] = r, !.gone = gone,
                                !.command_changed = make.command_changed \/ n,
                                !.rewrite_statefile = make.rewrite_statefile \/ missing]
  BY <1>3 DEF Checked, Looked, Notices, Make
<1>5. gone \in SUBSET Target /\ r \in Record /\ n \in BOOLEAN /\ missing \in BOOLEAN
  BY <1>1, <1>2, <1>3 DEF Make
<1>. HIDE DEF gone, missing, r, n
<1>6. /\ Checked(t) \in Make
      /\ Checked(t).mem = [make.mem EXCEPT ![t] = r] /\ Checked(t).gone = gone
  <2>1. [make.mem EXCEPT ![t] = r] \in [Target -> Record]
    BY <1>3, <1>5 DEF Make
  <2>2. PICK mem : mem = [make.mem EXCEPT ![t] = r]
    OBVIOUS
  <2>3. PICK cc : cc = (make.command_changed \/ n)
    OBVIOUS
  <2>4. PICK rw : rw = (make.rewrite_statefile \/ missing)
    OBVIOUS
  <2>5. cc \in BOOLEAN /\ rw \in BOOLEAN /\ mem \in [Target -> Record]
    BY <1>3, <1>5, <2>1, <2>2, <2>3, <2>4 DEF Make
  <2>6. Checked(t) = [make EXCEPT !.mem = mem, !.gone = gone, !.command_changed = cc,
                                  !.rewrite_statefile = rw]
    BY <1>3, <1>4, <2>2, <2>3, <2>4 DEF Make
  <2>. QED  BY <1>3, <1>5, <2>2, <2>5, <2>6 DEF Make
<1>7. /\ Checked(t).command_changed = (make.command_changed \/ n)
      /\ Checked(t).rewrite_statefile = (make.rewrite_statefile \/ missing)
  BY <1>3, <1>4, <1>5 DEF Make
<1>8. /\ Checked(t).phase = make.phase /\ Checked(t).mode = make.mode
      /\ Checked(t).jobs = make.jobs /\ Checked(t).keep_going = make.keep_going
      /\ Checked(t).state = make.state /\ Checked(t).faked = make.faked
      /\ Checked(t).held = make.held /\ Checked(t).did = make.did
  BY <1>3, <1>4, <1>5 DEF Make
<1>. QED  BY <1>1, <1>6, <1>7, <1>8 DEF gone, missing, r, n

LEMMA UpToDateFacts ==
  ASSUME TypeOK, NEW t \in Target, UpToDate(t)
  PROVE  /\ Turns(t, "ok", Looked(t)) /\ make'.phase = make.phase
         /\ Lists(Checked(t).gone, make.held, make.faked, make.did)
         /\ make'.command_changed = (make.command_changed \/ Notices(t))
         /\ make'.rewrite_statefile = (make.rewrite_statefile \/ Vanished(t) /= {})
<1>. PICK c : c = Checked(t)
  OBVIOUS
<1>1. c \in Make /\ make' = [c EXCEPT !.state[t] = "ok"]
  BY CheckedFacts DEF UpToDate
<1>2. /\ make' \in Make /\ make'.state = [c.state EXCEPT ![t] = "ok"]
      /\ make'.mode = c.mode /\ make'.jobs = c.jobs /\ make'.keep_going = c.keep_going
      /\ make'.mem = c.mem /\ make'.phase = c.phase /\ make'.gone = c.gone
      /\ make'.held = c.held /\ make'.faked = c.faked /\ make'.did = c.did
      /\ make'.command_changed = c.command_changed
      /\ make'.rewrite_statefile = c.rewrite_statefile
  BY <1>1 DEF Make, Status
<1>. QED  BY <1>2, CheckedFacts DEF Turns, Lists

LEMMA PutAsideFacts ==
  ASSUME TypeOK, NEW t \in Target, PutAside(t)
  PROVE  /\ Turns(t, "queued", Looked(t)) /\ make'.phase = make.phase
         /\ Lists(Checked(t).gone, make.held \cup {t}, make.faked, make.did)
         /\ make'.command_changed = (make.command_changed \/ Notices(t))
         /\ make'.rewrite_statefile = TRUE
<1>. PICK c : c = Checked(t)
  OBVIOUS
<1>1. /\ c \in Make
      /\ make' = [c EXCEPT !.rewrite_statefile = TRUE, !.state[t] = "queued", !.held = @ \cup {t}]
  BY CheckedFacts DEF PutAside
<1>2. /\ make' \in Make /\ make'.state = [c.state EXCEPT ![t] = "queued"]
      /\ make'.mode = c.mode /\ make'.jobs = c.jobs /\ make'.keep_going = c.keep_going
      /\ make'.mem = c.mem /\ make'.phase = c.phase /\ make'.gone = c.gone
      /\ make'.held = c.held \cup {t} /\ make'.faked = c.faked /\ make'.did = c.did
      /\ make'.command_changed = c.command_changed /\ make'.rewrite_statefile = TRUE
  BY <1>1 DEF Make, Status
<1>. QED  BY <1>2, CheckedFacts DEF Turns, Lists

LEMMA RunCommandFacts ==
  ASSUME TypeOK, NEW t \in Target, RunCommand(t)
  PROVE  /\ Turns(t, "running", Looked(t)) /\ make'.phase = make.phase
         /\ Lists(Checked(t).gone, make.held, make.faked, make.did \cup {t})
         /\ make'.command_changed = (make.command_changed \/ Notices(t))
         /\ make'.rewrite_statefile = TRUE
<1>. PICK c : c = Checked(t)
  OBVIOUS
<1>1. /\ c \in Make
      /\ make' = [c EXCEPT !.rewrite_statefile = TRUE, !.state[t] = "running", !.did = @ \cup {t}]
  BY CheckedFacts DEF RunCommand
<1>2. /\ make' \in Make /\ make'.state = [c.state EXCEPT ![t] = "running"]
      /\ make'.mode = c.mode /\ make'.jobs = c.jobs /\ make'.keep_going = c.keep_going
      /\ make'.mem = c.mem /\ make'.phase = c.phase /\ make'.gone = c.gone
      /\ make'.held = c.held /\ make'.faked = c.faked /\ make'.did = c.did \cup {t}
      /\ make'.command_changed = c.command_changed /\ make'.rewrite_statefile = TRUE
  BY <1>1 DEF Make, Status, Active
<1>. QED  BY <1>2, CheckedFacts DEF Turns, Lists

LEMMA SimulatedFacts ==
  ASSUME TypeOK, NEW t \in Target, PrintCommand(t) \/ TouchCommand(t)
  PROVE  /\ Turns(t, "ok", Looked(t)) /\ make'.phase = make.phase
         /\ Lists(Checked(t).gone, make.held, make.faked \cup {t}, make.did \cup {t})
         /\ make'.command_changed = (make.command_changed \/ Notices(t))
         /\ make'.rewrite_statefile = TRUE
<1>. PICK c : c = Checked(t)
  OBVIOUS
<1>1. /\ c \in Make
      /\ make' = [c EXCEPT !.rewrite_statefile = TRUE, !.state[t] = "ok",
                           !.faked = @ \cup {t}, !.did = @ \cup {t}]
  BY CheckedFacts DEF PrintCommand, TouchCommand
<1>2. /\ make' \in Make /\ make'.state = [c.state EXCEPT ![t] = "ok"]
      /\ make'.mode = c.mode /\ make'.jobs = c.jobs /\ make'.keep_going = c.keep_going
      /\ make'.mem = c.mem /\ make'.phase = c.phase /\ make'.gone = c.gone
      /\ make'.held = c.held /\ make'.faked = c.faked \cup {t} /\ make'.did = c.did \cup {t}
      /\ make'.command_changed = c.command_changed /\ make'.rewrite_statefile = TRUE
  BY <1>1 DEF Make, Status
<1>. QED  BY <1>2, CheckedFacts DEF Turns, Lists

\* The steps that only change the state of t.
LEMMA StateFacts ==
  ASSUME TypeOK, NEW t \in Target, NEW s \in Status, make' = [make EXCEPT !.state[t] = s]
  PROVE  /\ Turns(t, s, make.mem[t]) /\ make'.phase = make.phase
         /\ Lists(make.gone, make.held, make.faked, make.did)
         /\ make'.command_changed = make.command_changed
         /\ make'.rewrite_statefile = make.rewrite_statefile
<1>1. make \in Make
  BY DEF TypeOK
<1>2. make.mem = [make.mem EXCEPT ![t] = make.mem[t]]
  BY <1>1 DEF Make
<1>3. /\ make' \in Make /\ make'.state = [make.state EXCEPT ![t] = s]
      /\ make'.mode = make.mode /\ make'.jobs = make.jobs /\ make'.keep_going = make.keep_going
      /\ make'.mem = make.mem /\ make'.phase = make.phase /\ make'.gone = make.gone
      /\ make'.held = make.held /\ make'.faked = make.faked /\ make'.did = make.did
      /\ make'.command_changed = make.command_changed
      /\ make'.rewrite_statefile = make.rewrite_statefile
  BY <1>1 DEF Make
<1>. QED  BY <1>2, <1>3 DEF Turns, Lists

\* What is known of t when its recipe has ended.
Ended(t) ==
    [cmd |-> IF State(t) = "done" THEN make.mem[t].cmd ELSE 0,
     autos |-> IF t \in Reporters THEN includes[t] ELSE make.mem[t].autos]

LEMMA FinishedFacts ==
  ASSUME TypeOK, NEW t \in Target
  PROVE  LET new == Finished(t, make)
         IN /\ new \in Make /\ new.mode = make.mode /\ new.jobs = make.jobs
            /\ new.keep_going = make.keep_going
            /\ new.state = [make.state EXCEPT ![t] = IF State(t) = "done" THEN "ok" ELSE "failed"]
            /\ new.mem = [make.mem EXCEPT ![t] = Ended(t)] /\ Ended(t) \in Record
            /\ new.gone = make.gone /\ new.held = make.held /\ new.faked = make.faked
            /\ new.did = make.did /\ new.rewrite_statefile = make.rewrite_statefile
            /\ make.command_changed => new.command_changed
            /\ t \in Reporters => new.command_changed
            /\ new.phase = IF State(t) = "done" \/ make.keep_going THEN make.phase ELSE "fatal"
<1>. DEFINE cc == make.command_changed \/ t \in Reporters
            cd == cc \/ (make.jobs = 1 /\ ~make.keep_going)
            autos == IF t \in Reporters THEN includes[t] ELSE make.mem[t].autos
<1>1. make \in Make /\ autos \in SUBSET Source /\ cc \in BOOLEAN /\ cd \in BOOLEAN
  BY DEF TypeOK, Make, Record
<1>2. Reported(t, make) = [make EXCEPT !.mem[t].autos = autos, !.command_changed = cc]
  <2>1. CASE t \in Reporters
    BY <1>1, <2>1 DEF Reported, Make
  <2>2. CASE t \notin Reporters
    <3>1. Reported(t, make) = make /\ autos = make.mem[t].autos /\ cc = make.command_changed
      BY <1>1, <2>2 DEF Reported, Make
    <3>2. [make.mem EXCEPT ![t].autos = make.mem[t].autos] = make.mem
      <4>1. make.mem[t] \in Record /\ make.mem \in [Target -> Record]
        BY <1>1 DEF Make
      <4>2. [make.mem[t] EXCEPT !.autos = make.mem[t].autos] = make.mem[t]
        BY <4>1 DEF Record
      <4>. QED  BY <4>1, <4>2
    <3>. HIDE DEF autos, cc
    <3>. QED  BY <1>1, <3>1, <3>2 DEF Make
  <2>. QED  BY <2>1, <2>2
<1>3. autos = Ended(t).autos
  BY DEF Ended
<1>. HIDE DEF autos, cc, cd
<1>4. CASE State(t) = "done"
  <2>1. Ended(t) = [make.mem[t] EXCEPT !.autos = autos] /\ Ended(t) \in Record
    BY <1>1, <1>3, <1>4 DEF Ended, Make, Record
  <2>2. PICK mem : mem = [make.mem EXCEPT ![t] = Ended(t)]
    OBVIOUS
  <2>3. PICK state : state = [make.state EXCEPT ![t] = "ok"]
    OBVIOUS
  <2>4. mem \in [Target -> Record] /\ state \in [Target -> Status]
    BY <1>1, <2>1, <2>2, <2>3 DEF Make, Status
  <2>5. Finished(t, make) = [make EXCEPT !.mem = mem, !.command_changed = cc, !.state = state]
    BY <1>1, <1>2, <1>4, <2>1, <2>2, <2>3 DEF Finished, State, Make
  <2>6. cc = (make.command_changed \/ t \in Reporters)
    BY DEF cc
  <2>7. PICK new : new = Finished(t, make)
    OBVIOUS
  <2>8. /\ new \in Make /\ new.mode = make.mode /\ new.jobs = make.jobs
        /\ new.keep_going = make.keep_going /\ new.gone = make.gone /\ new.held = make.held
        /\ new.faked = make.faked /\ new.did = make.did /\ new.phase = make.phase
        /\ new.rewrite_statefile = make.rewrite_statefile
    BY <1>1, <2>4, <2>5, <2>7 DEF Make
  <2>9. new.state = state /\ new.mem = mem /\ new.command_changed = cc
    BY <1>1, <2>5, <2>7 DEF Make
  <2>. HIDE DEF Ended
  <2>. QED  BY <1>4, <2>1, <2>2, <2>3, <2>6, <2>7, <2>8, <2>9
<1>5. CASE State(t) /= "done"
  <2>1. Ended(t) = [cmd |-> 0, autos |-> autos] /\ Ended(t) \in Record
    BY <1>1, <1>3, <1>5 DEF Ended, Make, Record
  <2>2. PICK mem : mem = [make.mem EXCEPT ![t] = Ended(t)]
    OBVIOUS
  <2>3. PICK state : state = [make.state EXCEPT ![t] = "failed"]
    OBVIOUS
  <2>4. PICK phase : phase = IF make.keep_going THEN make.phase ELSE "fatal"
    OBVIOUS
  <2>5. /\ mem \in [Target -> Record] /\ state \in [Target -> Status]
        /\ phase \in {"off", "on", "fatal"}
    BY <1>1, <2>1, <2>2, <2>3, <2>4 DEF Make, Status
  <2>6. Finished(t, make) = [make EXCEPT !.mem = mem, !.command_changed = cd, !.state = state,
                                         !.phase = phase]
    <3>1. make.mem[t] \in Record
      BY <1>1 DEF Make
    <3>2. [[make.mem[t] EXCEPT !.autos = autos] EXCEPT !.cmd = 0] = Ended(t)
      <4>1. \A r \in Record, a \in SUBSET Source :
               [[r EXCEPT !.autos = a] EXCEPT !.cmd = 0] = [cmd |-> 0, autos |-> a]
        <5>. TAKE r \in Record, a \in SUBSET Source
        <5>1. PICK q : q = [r EXCEPT !.autos = a]
          OBVIOUS
        <5>2. q = [cmd |-> r.cmd, autos |-> a]
          BY <5>1 DEF Record
        <5>3. [q EXCEPT !.cmd = 0] = [cmd |-> 0, autos |-> a]
          BY <5>2
        <5>. QED  BY <5>1, <5>3
      <4>. HIDE DEF Ended
      <4>. QED  BY <1>1, <2>1, <3>1, <4>1
    <3>3. Finished(t, make) =
             [Reported(t, make) EXCEPT !.state[t] = "failed", !.mem[t].cmd = 0,
                  !.command_changed = @ \/ (make.jobs = 1 /\ ~make.keep_going),
                  !.phase = IF make.keep_going THEN @ ELSE "fatal"]
      BY <1>5 DEF Finished, State
    <3>4. /\ Reported(t, make).command_changed = cc /\ Reported(t, make).phase = make.phase
          /\ Reported(t, make).state = make.state
      BY <1>1, <1>2 DEF Make
    <3>5. Reported(t, make).mem = [make.mem EXCEPT ![t] = [make.mem[t] EXCEPT !.autos = autos]]
      BY <1>1, <1>2 DEF Make
    <3>6. [Reported(t, make).mem EXCEPT ![t].cmd = 0] = mem
      BY <1>1, <2>2, <3>2, <3>5 DEF Make
    <3>7. Finished(t, make) =
             [Reported(t, make) EXCEPT !.state = state, !.mem = mem, !.command_changed = cd,
                                       !.phase = phase]
      BY <1>1, <1>2, <2>3, <2>4, <3>3, <3>4, <3>6 DEF Make, cd
    <3>. QED  BY <1>1, <1>2, <3>7 DEF Make
  <2>7. cc = (make.command_changed \/ t \in Reporters) /\ cd = (cc \/ (make.jobs = 1 /\ ~make.keep_going))
    BY DEF cc, cd
  <2>. HIDE DEF Ended
  <2>8. PICK new : new = Finished(t, make)
    OBVIOUS
  <2>9. /\ new \in Make /\ new.mode = make.mode /\ new.jobs = make.jobs
        /\ new.keep_going = make.keep_going /\ new.gone = make.gone /\ new.held = make.held
        /\ new.faked = make.faked /\ new.did = make.did
        /\ new.rewrite_statefile = make.rewrite_statefile
    BY <1>1, <2>5, <2>6, <2>8 DEF Make
  <2>10. new.state = state /\ new.mem = mem /\ new.command_changed = cd /\ new.phase = phase
    BY <1>1, <2>6, <2>8 DEF Make
  <2>. QED  BY <1>5, <2>1, <2>2, <2>3, <2>4, <2>7, <2>8, <2>9, <2>10
<1>. QED  BY <1>4, <1>5

LEMMA TurnsMoves ==
  ASSUME TypeOK, NEW t \in Target, NEW s, NEW r, NEW gone, NEW held, NEW faked, NEW did,
         Turns(t, s, r), Lists(gone, held, faked, did),
         gone \in {make.gone, make.gone \cup {t}}, held \in {make.held, make.held \cup {t}},
         faked \in {make.faked, make.faked \cup {t}}, did \in {make.did, make.did \cup {t}},
         ~Off, make'.phase \in {make.phase, "fatal"}, State(t) /= "ok", State(t) /= "failed",
         make.command_changed => make'.command_changed,
         make.rewrite_statefile => make'.rewrite_statefile,
         UNCHANGED <<rule, includes, saved, idle, foretold>>,
         disk' = disk \/ (disk' = Written(t) /\ t \in did)
  PROVE  Moves(t)
<1>1. make \in Make
  BY DEF TypeOK
<1>2. \A u \in Target \ {t} : make'.mem[u] = make.mem[u] /\ make'.state[u] = make.state[u]
  BY <1>1 DEF Turns, Make
<1>3. \A u \in Target \ {t} :
         /\ u \in make'.held <=> u \in make.held
         /\ u \in make'.gone <=> u \in make.gone
         /\ u \in make'.faked <=> u \in make.faked
         /\ u \in make'.did <=> u \in make.did
  BY DEF Lists
<1>4. make.did \subseteq make'.did /\ did = make'.did
  BY DEF Lists
<1>. QED  BY <1>2, <1>3, <1>4 DEF Moves, Turns

LEMMA MovesDisk ==
  ASSUME TypeOK, NEW t \in Target, Moves(t)
  PROVE  /\ DiskOK' /\ Exists \subseteq Exists'
         /\ \A f \in File : f /= t => (f \in Exists' <=> f \in Exists)
         /\ \A f, g \in File : f /= t /\ g /= t => (disk'[f] < disk'[g] <=> disk[f] < disk[g])
         /\ \A f, g \in File : f /= t /\ g /= t => (disk'[f] <= disk'[g] <=> disk[f] <= disk[g])
<1>1. t \in File /\ \A f \in File : disk[f] \in Nat
  BY FileIsFinite DEF TypeOK, DiskOK, File
<1>2. CASE disk' = disk
  BY <1>2 DEF TypeOK, DiskOK, Exists
<1>3. CASE disk' = Written(t)
  <2>1. /\ disk' \in [File -> 0 .. Cardinality(File)] /\ disk'[t] > 0
        /\ \A g \in File : g /= t => (disk'[g] > 0 <=> disk[g] > 0)
        /\ \A g, h \in File : g /= t /\ h /= t => (disk'[g] < disk'[h] <=> disk[g] < disk[h])
    BY <1>1, <1>3, WrittenFacts DEF TypeOK
  <2>2. \A f \in File : disk'[f] \in Nat
    BY <2>1, FileIsFinite
  <2>3. \A f, g \in File : f /= t /\ g /= t => (disk'[f] <= disk'[g] <=> disk[f] <= disk[g])
    BY <1>1, <2>1, <2>2
  <2>4. \A f \in File : f \in Exists' <=> disk'[f] > 0
    BY DEF Exists
  <2>. QED  BY <2>1, <2>3, <2>4 DEF DiskOK, Exists
<1>. QED  BY <1>2, <1>3 DEF Moves

-----------------------------------------------------------------------------
(* What holds of make in every build                                        *)

\* What the recipes read is there, and is among what they may read.
HeaderInv == \A t \in Target : includes[t] \subseteq Includes[t] \cap Exists

\* What the state of t says of make's memory; a make -n or -t runs nothing.
StateInv(t) ==
    /\ State(t) = "none" => /\ t \notin make.held \cup make.gone \cup make.faked
                            /\ ~Off => t \notin make.did /\ make.mem[t] = saved[t]
    /\ State(t) /= "none" =>
         /\ ~Off
         /\ State(t) /= "failed" => /\ \A d \in Needs(t) : State(d) = "ok"
                                    /\ make.mem[t].autos \subseteq Exists
    /\ Busy(t) \/ State(t) = "queued" =>
         make.mode = "run" /\ make.mem[t].cmd = rule[t] /\ make.rewrite_statefile
    /\ State(t) = "queued" => t \in make.held /\ t \in Alone /\ t \notin make.did
    /\ Busy(t) => t \in make.did
    /\ State(t) = "ok" => make.mem[t].cmd = rule[t]
    /\ State(t) = "error" => t \in MayFail
    /\ State(t) = "failed" => make.mode = "run"

ModeInv ==
    /\ make.mode = "run" => make.faked = {}
    /\ make.mode /= "run" => /\ make.held = {} /\ make.phase /= "fatal"
                             /\ ~Off => make.faked = make.did
    /\ make.phase = "fatal" => Failed

\* As long as make does not mean to write .make.state, the one on disk tells
\* the next make the same as what this one remembers.
MemoryInv(t) ==
    ~Off /\ ~Flagged =>
        /\ make.mem[t].autos = saved[t].autos
        /\ \/ make.mem[t].cmd = saved[t].cmd
           \/ make.mode /= "-n" /\ make.mem[t].cmd = rule[t] /\ ~Replaces(t, saved[t].cmd)
           \/ make.mode = "-n"
           \/ State(t) = "failed" /\ t \in MayFail \ Reporters

\* What a recipe of this make wrote is newer than what none wrote.
NewerInv(t) ==
    State(t) \in {"writing", "done"} \/ (State(t) = "ok" /\ t \in make.did /\ make.mode = "run")
        => disk[t] > 0 /\ \A f \in File \ make.did : disk[f] < disk[t]

\* Nothing in what is known of t, r, asks for t to be made.
UpToDateIn(r, t) ==
    /\ disk[t] > 0 /\ r.autos \subseteq Exists
    /\ \A d \in Deps[t] \cup r.autos : disk[d] <= disk[t]
    /\ ~Replaces(t, r.cmd)
MadeInv(t) ==
    /\ State(t) = "done" => \A d \in Deps[t] \cup Source : disk[d] <= disk[t]
    /\ State(t) = "ok" /\ make.mode = "run" => UpToDateIn(make.mem[t], t)

TargetInv(t) == StateInv(t) /\ MemoryInv(t) /\ NewerInv(t) /\ MadeInv(t)
RunInv == HeaderInv /\ ModeInv /\ \A t \in Target : TargetInv(t)

\* A target that does not move keeps all that is said of it.
LEMMA OthersKeep ==
  ASSUME TypeOK, RunInv, NEW t \in Target, Moves(t), NEW u \in Target, u /= t
  PROVE  TargetInv(u)'
<1>1. TargetInv(u) /\ ~Off /\ ~Off' /\ make \in Make /\ make' \in Make
  BY DEF RunInv, TypeOK, Moves, Off
<1>2. /\ make'.mem[u] = make.mem[u] /\ State(u)' = State(u) /\ (Busy(u)' <=> Busy(u))
      /\ u \in make'.held <=> u \in make.held
      /\ u \in make'.gone <=> u \in make.gone
      /\ u \in make'.faked <=> u \in make.faked
      /\ u \in make'.did <=> u \in make.did
      /\ make'.mode = make.mode /\ make.did \subseteq make'.did
      /\ make.rewrite_statefile => make'.rewrite_statefile /\ (Flagged => Flagged')
      /\ saved' = saved /\ rule' = rule /\ includes' = includes
  BY DEF Moves, State, Busy, Flagged
<1>3. u \in File /\ t \in File /\ t \notin Source /\ Source \subseteq File /\ Deps[u] \subseteq File
  BY MakefileAssumption DEF File
<1>4. /\ Needs(u)' = Needs(u)
      /\ State(u) \notin {"none", "failed"} =>
            /\ t \notin Deps[u] /\ \A d \in Needs(u) : d /= t /\ State(d)' = State(d)
  <2>1. Needs(u) \subseteq Target /\ (t \in Deps[u] => t \in Needs(u)) /\ State(t) /= "ok"
    BY DEF Needs, Moves
  <2>2. State(u) \notin {"none", "failed"} => \A d \in Needs(u) : State(d) = "ok"
    BY <1>1 DEF TargetInv, StateInv
  <2>3. \A d \in Target : d /= t => State(d)' = State(d)
    BY DEF Moves, State
  <2>. QED  BY <2>1, <2>2, <2>3 DEF Needs
<1>5. StateInv(u)'
  <2>1. StateInv(u) /\ Exists \subseteq Exists'
    BY <1>1, MovesDisk DEF TargetInv
  <2>2. State(u)' = "none" => /\ u \notin make'.held \cup make'.gone \cup make'.faked
                              /\ u \notin make'.did /\ make'.mem[u] = saved'[u]
    BY <1>1, <1>2, <2>1 DEF StateInv
  <2>3. State(u)' \notin {"none", "failed"} => /\ \A d \in Needs(u)' : State(d)' = "ok"
                                               /\ make'.mem[u].autos \subseteq Exists'
    BY <1>2, <1>4, <2>1 DEF StateInv
  <2>4. Busy(u)' \/ State(u)' = "queued" =>
           make'.mode = "run" /\ make'.mem[u].cmd = rule'[u] /\ make'.rewrite_statefile
    BY <1>2, <2>1 DEF StateInv
  <2>5. /\ State(u)' = "queued" => u \in make'.held /\ u \in Alone /\ u \notin make'.did
        /\ Busy(u)' => u \in make'.did
        /\ State(u)' = "ok" => make'.mem[u].cmd = rule'[u]
        /\ State(u)' = "error" => u \in MayFail
        /\ State(u)' = "failed" => make'.mode = "run"
    BY <1>2, <2>1 DEF StateInv
  <2>. QED  BY <1>1, <2>2, <2>3, <2>4, <2>5 DEF StateInv
<1>6. MemoryInv(u)'
  <2>1. MemoryInv(u) /\ (~Flagged' => ~Flagged)
    BY <1>1, <1>2 DEF TargetInv, Flagged, Moves
  <2>2. Replaces(u, saved[u].cmd)' <=> Replaces(u, saved[u].cmd)
    BY <1>2 DEF Replaces
  <2>. QED  BY <1>1, <1>2, <2>1, <2>2 DEF MemoryInv
<1>7. NewerInv(u)'
  <2>1. SUFFICES ASSUME State(u)' \in {"writing", "done"}
                          \/ (State(u)' = "ok" /\ u \in make'.did /\ make'.mode = "run")
                 PROVE  disk'[u] > 0 /\ \A f \in File \ make'.did : disk'[f] < disk'[u]
    BY DEF NewerInv
  <2>2. disk[u] > 0 /\ \A f \in File \ make.did : disk[f] < disk[u]
    BY <1>1, <1>2, <2>1 DEF TargetInv, NewerInv
  <2>3. u \in Exists' /\ u \in Exists
    BY <1>3, <2>2, MovesDisk DEF Exists
  <2>4. CASE disk' = disk
    BY <1>2, <2>2, <2>4
  <2>5. CASE disk' /= disk
    <3>1. t \in make'.did
      BY <2>5 DEF Moves
    <3>2. \A f \in File \ make'.did : f /= t /\ disk'[f] < disk'[u]
      BY <1>2, <1>3, <2>2, <3>1, MovesDisk
    <3>. QED  BY <2>3, <3>2 DEF Exists
  <2>. QED  BY <2>4, <2>5
<1>8. MadeInv(u)'
  <2>1. MadeInv(u) /\ (\A d \in Source : d \in File /\ d /= t)
    BY <1>1, <1>3 DEF TargetInv
  <2>2. State(u)' = "done" => \A d \in Deps[u] \cup Source : disk'[d] <= disk'[u]
    <3>1. State(u) = "done" => \A d \in Deps[u] \cup Source : d \in File /\ d /= t /\ disk[d] <= disk[u]
      BY <1>3, <1>4, <2>1 DEF MadeInv
    <3>. QED  BY <1>2, <1>3, <3>1, MovesDisk
  <2>3. State(u)' = "ok" /\ make'.mode = "run" => UpToDateIn(make.mem[u], u)'
    <3>1. SUFFICES ASSUME State(u) = "ok", make.mode = "run"
                   PROVE  UpToDateIn(make.mem[u], u)'
      BY <1>2
    <3>2. UpToDateIn(make.mem[u], u) /\ make.mem[u].autos \subseteq Source
      BY <1>1, <2>1, <3>1 DEF MadeInv, Make, Record
    <3>3. disk'[u] > 0 /\ make'.mem[u].autos \subseteq Exists'
      BY <1>2, <1>3, <3>2, MovesDisk DEF UpToDateIn, Exists
    <3>4. \A d \in Deps[u] \cup make.mem[u].autos : d \in File /\ d /= t /\ disk[d] <= disk[u]
      BY <1>3, <1>4, <2>1, <3>1, <3>2 DEF UpToDateIn
    <3>5. \A d \in Deps[u] \cup make'.mem[u].autos : disk'[d] <= disk'[u]
      BY <1>2, <1>3, <3>4, MovesDisk
    <3>6. ~Replaces(u, make.mem[u].cmd)'
      BY <1>2, <3>2 DEF UpToDateIn, Replaces
    <3>. QED  BY <3>3, <3>5, <3>6 DEF UpToDateIn
  <2>. QED  BY <2>2, <2>3 DEF MadeInv
<1>. QED  BY <1>5, <1>6, <1>7, <1>8 DEF TargetInv

-----------------------------------------------------------------------------
(* make looks at a target                                                   *)

LEMMA SameCommand == \A c : ~Differ(c, c)
BY DEF Differ

LEMMA ReplacesNot ==
  ASSUME TypeOK, NEW t \in Target
  PROVE  ~Replaces(t, rule[t])
BY RecipeFacts, SameCommand DEF Replaces

\* A target that is not stale is newer than what it depends on.
LEMMA NotStale ==
  ASSUME TypeOK, NEW t \in Target, t \notin make.faked, ~Stale(t)
  PROVE  /\ disk[t] > 0 /\ make.mem[t].autos \subseteq Exists
         /\ \A d \in Deps[t] \cup make.mem[t].autos : disk[d] <= disk[t]
<1>1. /\ t \in File /\ Time(t) = disk[t] /\ FileMaxTime \in Nat
      /\ \A f \in File : disk[f] \in Nat /\ disk[f] < FileMaxTime /\ Time(f) \in {disk[f], FileMaxTime}
  <2>1. FileMaxTime \in Nat /\ FileMaxTime = Cardinality(File) + 1
    BY FileIsFinite DEF FileMaxTime
  <2>2. \A f \in File : disk[f] \in Nat /\ disk[f] < FileMaxTime
    BY <2>1, FileIsFinite DEF TypeOK, DiskOK
  <2>3. \A f \in File : Time(f) \in {disk[f], FileMaxTime}
    BY DEF Time
  <2>. QED  BY <2>1, <2>2, <2>3 DEF Time, File
<1>2. Deps[t] \cup make.mem[t].autos \subseteq File
  BY MakefileAssumption DEF TypeOK, Make, Record, File
<1>3. \A d \in Deps[t] \cup make.mem[t].autos : ~OutOfDate(disk[t], Time(d))
  BY <1>1, <1>2 DEF Stale
<1>4. \A d \in Deps[t] \cup make.mem[t].autos : disk[d] <= disk[t] /\ (disk[d] /= 0 \/ disk[t] /= 0)
  BY <1>1, <1>2, <1>3 DEF OutOfDate
<1>5. disk[t] > 0
  <2>1. CASE Deps[t] \cup make.mem[t].autos = {}
    <3>1. ~OutOfDate(disk[t], 0)
      BY <1>1, <2>1 DEF Stale
    <3>. QED  BY <1>1, <3>1 DEF OutOfDate
  <2>2. CASE Deps[t] \cup make.mem[t].autos /= {}
    <3>1. PICK d \in Deps[t] \cup make.mem[t].autos : TRUE
      BY <2>2
    <3>. QED  BY <1>1, <1>2, <1>4, <3>1
  <2>. QED  BY <2>1, <2>2
<1>6. make.mem[t].autos \subseteq Exists
  BY DEF Stale, Vanished
<1>. QED  BY <1>4, <1>5, <1>6

\* What is known of a target once make looked at it.
LEMMA ReadyFacts ==
  ASSUME TypeOK, RunInv, NEW t \in Target, Ready(t)
  PROVE  /\ State(t) \in {"none", "queued"} /\ make.phase = "on" /\ t \in Wanted
         /\ State(t) = "queued" <=> t \in make.held
         /\ State(t) = "none" => make.mem[t] = saved[t] /\ t \notin make.gone
         /\ t \notin Deps[t] /\ t \notin make.did
         /\ \A d \in Needs(t) : d /= t /\ State(d) = "ok"
         /\ Looked(t) \in Record /\ Looked(t).cmd = rule[t]
         /\ Looked(t).autos = make.mem[t].autos \ Vanished(t) /\ Looked(t).autos \subseteq Exists
         /\ ~Flagged /\ ~Notices(t) =>
               /\ Looked(t).autos = saved[t].autos
               /\ rule[t] = saved[t].cmd \/ ~Replaces(t, saved[t].cmd) \/ make.mode = "-n"
<1>1. TargetInv(t) /\ make \in Make
  BY DEF RunInv, TypeOK
<1>2. /\ make.phase = "on" /\ ~Off /\ t \in Wanted /\ State(t) \in {"none", "queued"}
      /\ \A d \in Needs(t) : State(d) = "ok"
  BY DEF Ready, MayConsider, Needs, State, Off
<1>3. /\ State(t) = "none" => t \notin make.held /\ t \notin make.did /\ make.mem[t] = saved[t]
                              /\ t \notin make.gone
      /\ State(t) = "queued" => t \in make.held /\ t \notin make.did /\ make.mem[t].cmd = rule[t]
                                /\ make.mode = "run" /\ make.mem[t].autos \subseteq Exists
  BY <1>1, <1>2 DEF TargetInv, StateInv
<1>4. \A d \in Needs(t) : d /= t /\ State(d) = "ok"
  BY <1>2
<1>5. t \notin Deps[t]
  BY <1>4 DEF Needs
<1>6. Looked(t) \in Record /\ Looked(t).cmd = rule[t]
      /\ Looked(t).autos = make.mem[t].autos \ Vanished(t)
  BY <1>2, <1>3, CheckedFacts DEF Looked
<1>7. Looked(t).autos \subseteq Exists
  BY <1>6 DEF Vanished
<1>8. ASSUME ~Flagged, ~Notices(t)
      PROVE  /\ Looked(t).autos = saved[t].autos
             /\ rule[t] = saved[t].cmd \/ ~Replaces(t, saved[t].cmd) \/ make.mode = "-n"
  <2>1. Vanished(t) = {} /\ (t \in make.held \/ ~Replaces(t, make.mem[t].cmd))
    BY <1>8 DEF Notices, CommandDiffers
  <2>2. CASE State(t) = "none"
    BY <1>3, <1>6, <2>1, <2>2
  <2>3. CASE State(t) = "queued"
    <3>1. MemoryInv(t)
      BY <1>1 DEF TargetInv
    <3>. QED  BY <1>2, <1>3, <1>6, <1>8, <2>1, <2>3, <3>1 DEF MemoryInv
  <2>. QED  BY <1>2, <2>2, <2>3
<1>. QED  BY <1>2, <1>3, <1>4, <1>5, <1>6, <1>7, <1>8

\* What is left to say of a target that was looked at.
LEMMA LookedKeeps ==
  ASSUME TypeOK, RunInv, NEW t \in Target, Ready(t), Moves(t), NEW s \in Status,
         s \notin {"none", "failed", "error"},
         Turns(t, s, Looked(t)),
         ~Flagged' => ~Flagged /\ ~Notices(t),
         s \in {"queued", "running"} => make.mode = "run" /\ make'.rewrite_statefile,
         s = "queued" => t \in make'.held /\ t \in Alone /\ t \notin make'.did,
         s \in Active => s = "running" /\ t \in make'.did
  PROVE  StateInv(t)' /\ MemoryInv(t)' /\ make'.mem[t].cmd = rule'[t]
<1>1. /\ State(t)' = s /\ make'.mem[t] = Looked(t) /\ make'.mode = make.mode
      /\ rule' = rule /\ saved' = saved /\ make' \in Make /\ make \in Make /\ ~Off /\ ~Off'
      /\ Busy(t)' <=> s \in Active
  BY DEF Turns, State, Moves, TypeOK, Make, Busy, Off
<1>2. \A d \in Needs(t)' : State(d)' = "ok"
  <2>1. \A d \in Target : d /= t => State(d)' = State(d)
    BY DEF Moves, State
  <2>. QED  BY <2>1, ReadyFacts DEF Needs
<1>3. Exists \subseteq Exists'
  BY MovesDisk
<1>4. StateInv(t)'
  <2>1. make'.mem[t].autos \subseteq Exists' /\ make'.mem[t].cmd = rule'[t]
    BY <1>1, <1>3, ReadyFacts
  <2>2. Busy(t)' \/ State(t)' = "queued" =>
           make'.mode = "run" /\ make'.mem[t].cmd = rule'[t] /\ make'.rewrite_statefile
    BY <1>1, <2>1
  <2>. QED  BY <1>1, <1>2, <2>1, <2>2 DEF StateInv
<1>5. MemoryInv(t)'
  <2>1. Replaces(t, saved[t].cmd)' <=> Replaces(t, saved[t].cmd)
    BY <1>1 DEF Replaces
  <2>. QED  BY <1>1, <2>1, ReadyFacts DEF MemoryInv
<1>. QED  BY <1>1, <1>4, <1>5, ReadyFacts

LEMMA UpToDateKeeps ==
  ASSUME TypeOK, RunInv, NEW t \in Target, UpToDate(t)
  PROVE  Moves(t) /\ ModeInv' /\ TargetInv(t)' /\ make'.mem[t].cmd = rule'[t]
<1>1. Ready(t) /\ ~Stale(t) /\ (t \in make.held \/ ~CommandDiffers(t)) /\ ~Notices(t) /\ Vanished(t) = {}
  BY DEF UpToDate, NeedsBuild, Notices, Stale
<1>2. /\ disk' = disk /\ make \in Make
      /\ UNCHANGED <<rule, includes, saved, idle, foretold>>
  BY DEF UpToDate, user, files, rest, TypeOK
<1>3. /\ Turns(t, "ok", Looked(t)) /\ make'.phase = make.phase
      /\ Lists(Checked(t).gone, make.held, make.faked, make.did)
      /\ make'.command_changed = make.command_changed
      /\ make'.rewrite_statefile = make.rewrite_statefile
  BY <1>1, <1>2, UpToDateFacts DEF Make
<1>4. Moves(t)
  <2>1. /\ ~Off /\ State(t) \in {"none", "queued"}
        /\ Checked(t).gone \in {make.gone, make.gone \cup {t}}
    BY <1>1, ReadyFacts, CheckedFacts DEF Off
  <2>. QED  BY <1>2, <1>3, <2>1, TurnsMoves
<1>5. StateInv(t)' /\ MemoryInv(t)' /\ make'.mem[t].cmd = rule'[t]
  BY <1>1, <1>3, <1>4, LookedKeeps DEF Flagged, Status, Active
<1>6. State(t)' = "ok" /\ make'.did = make.did /\ make'.mode = make.mode /\ t \notin make.did
      /\ make'.mem[t] = Looked(t) /\ make'.faked = make.faked /\ make'.held = make.held
      /\ make.phase = "on" /\ make'.phase = "on"
  BY <1>1, <1>2, <1>3, ReadyFacts DEF Turns, Lists, State, Make
<1>7. NewerInv(t)'
  BY <1>6 DEF NewerInv
<1>8. MadeInv(t)'
  <2>1. SUFFICES ASSUME make.mode = "run" PROVE UpToDateIn(make.mem[t], t)'
    BY <1>6 DEF MadeInv
  <2>2. make.faked = {}
    BY <2>1 DEF RunInv, ModeInv
  <2>3. /\ disk[t] > 0 /\ make.mem[t].autos \subseteq Exists
        /\ \A d \in Deps[t] \cup make.mem[t].autos : disk[d] <= disk[t]
    BY <1>1, <2>2, NotStale
  <2>4. make'.mem[t].autos = make.mem[t].autos /\ make'.mem[t].cmd = rule[t]
    <3>1. Looked(t).autos = make.mem[t].autos \ {} /\ Looked(t).cmd = rule[t]
      BY <1>1, ReadyFacts
    <3>. QED  BY <1>6, <3>1
  <2>5. ~Replaces(t, make.mem[t].cmd)'
    BY <1>2, <2>4, ReplacesNot DEF Replaces
  <2>. QED  BY <1>2, <2>3, <2>4, <2>5 DEF UpToDateIn, Exists
<1>9. ModeInv'
  BY <1>6 DEF RunInv, ModeInv, Off
<1>. QED  BY <1>4, <1>5, <1>7, <1>8, <1>9 DEF TargetInv

LEMMA PutAsideKeeps ==
  ASSUME TypeOK, RunInv, NEW t \in Target, PutAside(t)
  PROVE  Moves(t) /\ ModeInv' /\ TargetInv(t)' /\ make'.mem[t].cmd = rule'[t]
<1>1. Ready(t) /\ make.mode = "run" /\ t \in Alone
  BY DEF PutAside, MustWait
<1>2. /\ disk' = disk /\ make \in Make
      /\ UNCHANGED <<rule, includes, saved, idle, foretold>>
  BY DEF PutAside, user, files, rest, TypeOK
<1>3. /\ Turns(t, "queued", Looked(t)) /\ make'.phase = make.phase
      /\ Lists(Checked(t).gone, make.held \cup {t}, make.faked, make.did)
      /\ make'.command_changed = (make.command_changed \/ Notices(t))
      /\ make'.rewrite_statefile = TRUE
  BY PutAsideFacts
<1>4. Moves(t)
  <2>1. /\ ~Off /\ State(t) \in {"none", "queued"}
        /\ Checked(t).gone \in {make.gone, make.gone \cup {t}}
    BY <1>1, ReadyFacts, CheckedFacts DEF Off
  <2>2. make.command_changed => make'.command_changed
    BY <1>3
  <2>. QED  BY <1>2, <1>3, <2>1, <2>2, TurnsMoves
<1>5. State(t)' = "queued" /\ make'.did = make.did /\ make'.mode = make.mode /\ t \notin make.did
      /\ make'.faked = make.faked /\ make'.held = make.held \cup {t}
      /\ make.phase = "on" /\ make'.phase = "on"
  BY <1>1, <1>2, <1>3, ReadyFacts DEF Turns, Lists, State, Make
<1>6. StateInv(t)' /\ MemoryInv(t)' /\ make'.mem[t].cmd = rule'[t]
  BY <1>1, <1>3, <1>4, <1>5, LookedKeeps DEF Flagged, Status, Active
<1>7. NewerInv(t)' /\ MadeInv(t)'
  BY <1>5 DEF NewerInv, MadeInv
<1>8. ModeInv'
  BY <1>1, <1>5 DEF RunInv, ModeInv, Off
<1>. QED  BY <1>4, <1>6, <1>7, <1>8 DEF TargetInv

LEMMA RunCommandKeeps ==
  ASSUME TypeOK, RunInv, NEW t \in Target, RunCommand(t)
  PROVE  Moves(t) /\ ModeInv' /\ TargetInv(t)' /\ make'.mem[t].cmd = rule'[t]
<1>1. Ready(t) /\ make.mode = "run"
  BY DEF RunCommand
<1>2. /\ disk' = disk /\ make \in Make
      /\ UNCHANGED <<rule, includes, saved, idle, foretold>>
  BY DEF RunCommand, user, files, rest, TypeOK
<1>3. /\ Turns(t, "running", Looked(t)) /\ make'.phase = make.phase
      /\ Lists(Checked(t).gone, make.held, make.faked, make.did \cup {t})
      /\ make'.command_changed = (make.command_changed \/ Notices(t))
      /\ make'.rewrite_statefile = TRUE
  BY RunCommandFacts
<1>4. Moves(t)
  <2>1. /\ ~Off /\ State(t) \in {"none", "queued"}
        /\ Checked(t).gone \in {make.gone, make.gone \cup {t}}
    BY <1>1, ReadyFacts, CheckedFacts DEF Off
  <2>2. make.command_changed => make'.command_changed
    BY <1>3
  <2>. QED  BY <1>2, <1>3, <2>1, <2>2, TurnsMoves
<1>5. State(t)' = "running" /\ make'.did = make.did \cup {t} /\ make'.mode = make.mode
      /\ make'.faked = make.faked /\ make'.held = make.held
      /\ make.phase = "on" /\ make'.phase = "on"
  BY <1>1, <1>2, <1>3, ReadyFacts DEF Turns, Lists, State, Make
<1>6. StateInv(t)' /\ MemoryInv(t)' /\ make'.mem[t].cmd = rule'[t]
  BY <1>1, <1>3, <1>4, <1>5, LookedKeeps DEF Flagged, Status, Active
<1>7. NewerInv(t)' /\ MadeInv(t)'
  BY <1>5 DEF NewerInv, MadeInv
<1>8. ModeInv'
  BY <1>1, <1>5 DEF RunInv, ModeInv, Off
<1>. QED  BY <1>4, <1>6, <1>7, <1>8 DEF TargetInv

LEMMA SimulatedKeeps ==
  ASSUME TypeOK, RunInv, NEW t \in Target, PrintCommand(t) \/ TouchCommand(t)
  PROVE  Moves(t) /\ ModeInv' /\ TargetInv(t)' /\ make'.mem[t].cmd = rule'[t]
<1>1. Ready(t) /\ make.mode /= "run"
  BY DEF PrintCommand, TouchCommand
<1>2. /\ make \in Make /\ disk' \in {disk, Written(t)}
      /\ UNCHANGED <<rule, includes, saved, idle, foretold>>
  BY DEF PrintCommand, TouchCommand, user, files, rest, TypeOK
<1>3. /\ Turns(t, "ok", Looked(t)) /\ make'.phase = make.phase
      /\ Lists(Checked(t).gone, make.held, make.faked \cup {t}, make.did \cup {t})
      /\ make'.command_changed = (make.command_changed \/ Notices(t))
      /\ make'.rewrite_statefile = TRUE
  BY SimulatedFacts
<1>4. Moves(t)
  <2>1. disk' = disk \/ (disk' = Written(t) /\ t \in make.did \cup {t})
    BY <1>2
  <2>2. /\ make.phase = "on" /\ State(t) /= "ok" /\ State(t) /= "failed"
        /\ Checked(t).gone \in {make.gone, make.gone \cup {t}}
    BY <1>1, ReadyFacts, CheckedFacts
  <2>. QED  BY <1>2, <1>3, <2>1, <2>2, TurnsMoves DEF Off
<1>5. State(t)' = "ok" /\ make'.did = make.did \cup {t} /\ make'.mode = make.mode
      /\ make'.faked = make.faked \cup {t} /\ make'.held = make.held
      /\ make.phase = "on" /\ make'.phase = "on"
  BY <1>1, <1>2, <1>3, ReadyFacts DEF Turns, Lists, State, TypeOK, Make
<1>6. StateInv(t)' /\ MemoryInv(t)' /\ make'.mem[t].cmd = rule'[t]
  BY <1>1, <1>3, <1>4, <1>5, LookedKeeps DEF Flagged, Status, Active
<1>7. NewerInv(t)' /\ MadeInv(t)'
  BY <1>1, <1>5 DEF NewerInv, MadeInv
<1>8. ModeInv'
  BY <1>1, <1>5 DEF RunInv, ModeInv, Off
<1>. QED  BY <1>4, <1>6, <1>7, <1>8 DEF TargetInv

LEMMA DependencyFailedKeeps ==
  ASSUME TypeOK, RunInv, NEW t \in Target, DependencyFailed(t)
  PROVE  Moves(t) /\ ModeInv' /\ TargetInv(t)' /\ make'.mem[t] = make.mem[t]
<1>1. PICK d \in Needs(t) : State(d) = "failed"
  BY DEF DependencyFailed, Needs, State
<1>2. State(t) \in {"none", "queued"} /\ make.phase = "on" /\ TargetInv(t) /\ TargetInv(d)
  BY <1>1 DEF DependencyFailed, MayConsider, State, RunInv, Needs
<1>3. State(t) = "none" /\ make.mode = "run"
  BY <1>1, <1>2 DEF TargetInv, StateInv
<1>4. /\ disk' = disk /\ make \in Make /\ make' = [make EXCEPT !.state[t] = "failed"]
      /\ UNCHANGED <<rule, includes, saved, idle, foretold>>
  BY DEF DependencyFailed, user, files, rest, TypeOK
<1>5. /\ Turns(t, "failed", make.mem[t]) /\ make'.phase = make.phase
      /\ Lists(make.gone, make.held, make.faked, make.did)
      /\ make'.command_changed = make.command_changed
      /\ make'.rewrite_statefile = make.rewrite_statefile
  BY <1>4, StateFacts DEF Status
<1>6. Moves(t)
  BY <1>2, <1>3, <1>4, <1>5, TurnsMoves DEF Off
<1>7. State(t)' = "failed" /\ make'.mem[t] = make.mem[t] /\ make'.mode = "run"
      /\ make.phase = "on" /\ make'.phase = "on" /\ make'.faked = make.faked
      /\ make'.mem[t] = saved'[t]
  BY <1>2, <1>3, <1>4, <1>5 DEF Turns, State, Make, TargetInv, StateInv, Off, Lists
<1>8. TargetInv(t)'
  <2>1. StateInv(t)'
    BY <1>7 DEF StateInv, Busy, Active, Off
  <2>2. MemoryInv(t)'
    BY <1>7 DEF MemoryInv
  <2>3. NewerInv(t)' /\ MadeInv(t)'
    BY <1>7 DEF NewerInv, MadeInv
  <2>. QED  BY <2>1, <2>2, <2>3 DEF TargetInv
<1>9. ModeInv'
  BY <1>3, <1>7 DEF RunInv, ModeInv
<1>. QED  BY <1>6, <1>7, <1>8, <1>9

-----------------------------------------------------------------------------
(* The jobs                                                                 *)

\* What holds of a target whose recipe runs.
LEMMA BusyFacts ==
  ASSUME TypeOK, RunInv, NEW t \in Target, Busy(t)
  PROVE  /\ ~Off /\ make.mode = "run" /\ make.rewrite_statefile /\ make.mem[t].cmd = rule[t]
         /\ t \in make.did /\ t \notin Deps[t] /\ make.mem[t].autos \subseteq Exists
         /\ \A d \in Needs(t) : d /= t /\ State(d) = "ok"
<1>1. TargetInv(t) /\ State(t) \notin {"none", "failed", "ok"}
  BY DEF RunInv, Busy, Active
<1>. QED  BY <1>1 DEF TargetInv, StateInv, Needs

\* The job of t goes from one state to another.
LEMMA JobStep ==
  ASSUME TypeOK, RunInv, NEW t \in Target, Busy(t), NEW s \in Active,
         make' = [make EXCEPT !.state[t] = s], disk' \in {disk, Written(t)},
         UNCHANGED <<rule, includes, saved, idle, foretold>>,
         s = "error" => t \in MayFail
  PROVE  /\ Moves(t) /\ ModeInv' /\ StateInv(t)' /\ MemoryInv(t)' /\ make'.mem[t] = make.mem[t]
         /\ State(t)' = s /\ make'.did = make.did /\ t \in make.did /\ make'.mode = "run"
<1>1. /\ Turns(t, s, make.mem[t]) /\ make'.phase = make.phase
      /\ Lists(make.gone, make.held, make.faked, make.did)
      /\ make'.command_changed = make.command_changed
      /\ make'.rewrite_statefile = make.rewrite_statefile
  BY StateFacts DEF Status
<1>2. Moves(t)
  BY <1>1, BusyFacts, TurnsMoves DEF Busy, Active
<1>3. /\ State(t)' = s /\ make'.mem[t] = make.mem[t] /\ make'.did = make.did /\ make'.mode = "run"
      /\ ~Off' /\ make'.faked = make.faked
  BY <1>1, BusyFacts DEF Turns, State, TypeOK, Make, Lists, Off
<1>4. StateInv(t)'
  <2>1. \A d \in Needs(t)' : State(d)' = "ok"
    BY <1>2, BusyFacts DEF Needs, Moves, State
  <2>2. make'.mem[t].autos \subseteq Exists'
    BY <1>2, <1>3, BusyFacts, MovesDisk
  <2>3. make'.mem[t].cmd = rule'[t] /\ make'.rewrite_statefile /\ t \in make'.did
    BY <1>1, <1>3, BusyFacts
  <2>. QED  BY <1>3, <2>1, <2>2, <2>3 DEF StateInv, Active
<1>5. MemoryInv(t)'
  <2>1. MemoryInv(t) /\ (Flagged' <=> Flagged) /\ ~Off /\ State(t) /= "failed"
    BY <1>1, BusyFacts DEF RunInv, TargetInv, Flagged, Busy, Active
  <2>2. Replaces(t, saved[t].cmd)' <=> Replaces(t, saved[t].cmd)
    BY DEF Replaces
  <2>. QED  BY <1>3, <2>1, <2>2, BusyFacts DEF MemoryInv
<1>6. ModeInv'
  <2>1. make'.phase = "fatal" => Failed'
    <3>1. SUFFICES ASSUME make'.phase = "fatal" PROVE Failed'
      OBVIOUS
    <3>2. PICK u \in Target : State(u) = "failed"
      BY <1>1, <3>1 DEF RunInv, ModeInv, Failed, State
    <3>3. u /= t
      BY <3>2 DEF Busy, Active
    <3>. QED  BY <1>2, <3>2, <3>3 DEF Moves, Failed, State
  <2>. QED  BY <1>3, <2>1, BusyFacts DEF RunInv, ModeInv
<1>. QED  BY <1>2, <1>3, <1>4, <1>5, <1>6, BusyFacts

LEMMA JobWritesKeeps ==
  ASSUME TypeOK, RunInv, NEW t \in Target, JobWrites(t) \/ JobSucceeds(t)
  PROVE  Moves(t) /\ ModeInv' /\ TargetInv(t)' /\ make'.mem[t] = make.mem[t]
<1>. DEFINE s == IF JobWrites(t) THEN "writing" ELSE "done"
<1>1. /\ Busy(t) /\ s \in Active /\ make' = [make EXCEPT !.state[t] = s] /\ disk' = Written(t)
      /\ UNCHANGED <<rule, includes, saved, idle, foretold>>
      /\ s \in {"writing", "done"}
  BY DEF JobWrites, JobSucceeds, user, rest, Busy, State, Active
<1>. HIDE DEF s
<1>2. /\ Moves(t) /\ ModeInv' /\ StateInv(t)' /\ MemoryInv(t)' /\ make'.mem[t] = make.mem[t]
      /\ State(t)' = s /\ make'.did = make.did /\ t \in make.did
  BY <1>1, JobStep
<1>3. disk'[t] > 0 /\ \A f \in File : f /= t => disk'[f] < disk'[t]
  BY <1>1, WrittenFacts DEF TypeOK, File
<1>4. NewerInv(t)'
  BY <1>2, <1>3 DEF NewerInv
<1>5. MadeInv(t)'
  <2>1. \A f \in File : disk'[f] <= disk'[t]
    <3>1. \A f \in File : disk'[f] \in Nat
      BY <1>2, MovesDisk, FileIsFinite DEF DiskOK
    <3>2. t \in File
      BY DEF File
    <3>. QED  BY <1>3, <3>1, <3>2
  <2>2. Deps[t] \cup Source \subseteq File
    BY MakefileAssumption DEF File
  <2>. QED  BY <1>1, <1>2, <2>1, <2>2 DEF MadeInv
<1>. QED  BY <1>2, <1>4, <1>5 DEF TargetInv

LEMMA JobFailsKeeps ==
  ASSUME TypeOK, RunInv, NEW t \in Target, JobFails(t)
  PROVE  Moves(t) /\ ModeInv' /\ TargetInv(t)' /\ make'.mem[t] = make.mem[t]
<1>1. /\ Busy(t) /\ make' = [make EXCEPT !.state[t] = "error"] /\ disk' = disk /\ t \in MayFail
      /\ UNCHANGED <<rule, includes, saved, idle, foretold>>
  BY DEF JobFails, user, files, rest, Busy, State, Active
<1>2. /\ Moves(t) /\ ModeInv' /\ StateInv(t)' /\ MemoryInv(t)' /\ make'.mem[t] = make.mem[t]
      /\ State(t)' = "error"
  BY <1>1, JobStep DEF Active
<1>3. NewerInv(t)' /\ MadeInv(t)'
  BY <1>2 DEF NewerInv, MadeInv
<1>. QED  BY <1>2, <1>3 DEF TargetInv

LEMMA FinishKeeps ==
  ASSUME TypeOK, RunInv, NEW t \in Target, Finish(t)
  PROVE  Moves(t) /\ ModeInv' /\ TargetInv(t)' /\ make'.mem[t].cmd <= rule'[t]
<1>. DEFINE s == IF State(t) = "done" THEN "ok" ELSE "failed"
<1>1. /\ Busy(t) /\ State(t) \in {"done", "error"} /\ make' = Finished(t, make) /\ disk' = disk
      /\ UNCHANGED <<rule, includes, saved, idle, foretold>>
  BY DEF Finish, user, files, rest, Busy, State, Active
<1>2. /\ make' \in Make /\ make'.mode = make.mode /\ make'.jobs = make.jobs
      /\ make'.keep_going = make.keep_going
      /\ make'.state = [make.state EXCEPT ![t] = s]
      /\ make'.mem = [make.mem EXCEPT ![t] = Ended(t)] /\ Ended(t) \in Record
      /\ make'.gone = make.gone /\ make'.held = make.held /\ make'.faked = make.faked
      /\ make'.did = make.did /\ make'.rewrite_statefile = make.rewrite_statefile
      /\ make.command_changed => make'.command_changed
      /\ t \in Reporters => make'.command_changed
      /\ make'.phase = IF State(t) = "done" \/ make.keep_going THEN make.phase ELSE "fatal"
  BY <1>1, FinishedFacts
<1>3. Moves(t)
  <2>1. Turns(t, s, Ended(t)) /\ Lists(make.gone, make.held, make.faked, make.did)
    BY <1>2 DEF Turns, Lists
  <2>. HIDE DEF s
  <2>. QED  BY <1>1, <1>2, <2>1, TurnsMoves, BusyFacts DEF Off
<1>4. /\ State(t)' = s /\ make'.mem[t] = Ended(t) /\ make'.mode = "run" /\ make'.did = make.did
      /\ ~Off' /\ Exists' = Exists
  BY <1>1, <1>2, BusyFacts DEF State, TypeOK, Make, Off, Exists
<1>5. /\ Ended(t).cmd = IF State(t) = "done" THEN rule[t] ELSE 0
      /\ Ended(t).autos = IF t \in Reporters THEN includes[t] ELSE make.mem[t].autos
      /\ Ended(t).autos \subseteq Exists /\ Ended(t).autos \subseteq Source
  <2>1. includes[t] \subseteq Exists
    BY DEF RunInv, HeaderInv
  <2>2. make.mem[t].autos \subseteq Exists /\ make.mem[t].cmd = rule[t]
    BY <1>1, BusyFacts
  <2>3. /\ Ended(t).cmd = IF State(t) = "done" THEN make.mem[t].cmd ELSE 0
        /\ Ended(t).autos = IF t \in Reporters THEN includes[t] ELSE make.mem[t].autos
    BY DEF Ended
  <2>4. Ended(t).autos \subseteq Source
    BY <1>2 DEF Record
  <2>. QED  BY <2>1, <2>2, <2>3, <2>4
<1>6. StateInv(t)'
  <2>1. \A d \in Needs(t)' : State(d)' = "ok"
    BY <1>1, <1>3, BusyFacts DEF Needs, Moves, State
  <2>. QED  BY <1>1, <1>4, <1>5, <2>1 DEF StateInv, Busy, Active
<1>7. MemoryInv(t)'
  <2>1. SUFFICES ASSUME ~Flagged'
                 PROVE  /\ make'.mem[t].autos = saved[t].autos
                        /\ \/ make'.mem[t].cmd = saved[t].cmd
                           \/ make'.mem[t].cmd = rule[t] /\ ~Replaces(t, saved[t].cmd)
                           \/ State(t)' = "failed" /\ t \in MayFail \ Reporters
    BY <1>1, <1>4 DEF MemoryInv, Replaces
  <2>2. t \notin Reporters /\ ~Flagged
    BY <1>1, <1>2, <2>1, BusyFacts DEF Flagged
  <2>3. MemoryInv(t) /\ State(t) /= "failed" /\ (State(t) = "error" => t \in MayFail)
    BY <1>1 DEF RunInv, TargetInv, StateInv
  <2>4. /\ make.mem[t].autos = saved[t].autos
        /\ make.mem[t].cmd = saved[t].cmd \/ ~Replaces(t, saved[t].cmd)
    BY <1>1, <2>2, <2>3, BusyFacts DEF MemoryInv
  <2>. QED  BY <1>1, <1>4, <1>5, <2>2, <2>3, <2>4, BusyFacts
<1>8. NewerInv(t)'
  <2>1. NewerInv(t)
    BY DEF RunInv, TargetInv
  <2>. QED  BY <1>1, <1>4, <2>1 DEF NewerInv
<1>9. MadeInv(t)'
  <2>1. SUFFICES ASSUME State(t) = "done"
                 PROVE  UpToDateIn(make.mem[t], t)'
    BY <1>4 DEF MadeInv
  <2>2. disk[t] > 0 /\ \A d \in Deps[t] \cup Source : disk[d] <= disk[t]
    BY <2>1 DEF RunInv, TargetInv, NewerInv, MadeInv
  <2>3. ~Replaces(t, make.mem[t].cmd)'
    BY <1>1, <1>4, <1>5, <2>1, ReplacesNot DEF Replaces
  <2>. QED  BY <1>1, <1>4, <1>5, <2>2, <2>3 DEF UpToDateIn
<1>10. ModeInv'
  <2>1. make'.phase = "fatal" => Failed'
    <3>1. CASE s = "failed"
      BY <1>4, <3>1 DEF Failed, State
    <3>2. CASE s = "ok"
      <4>1. SUFFICES ASSUME make'.phase = "fatal" PROVE Failed'
        OBVIOUS
      <4>2. PICK u \in Target : State(u) = "failed"
        BY <1>2, <3>2, <4>1 DEF RunInv, ModeInv, Failed, State
      <4>3. u /= t
        BY <1>1, <4>2
      <4>. QED  BY <1>3, <4>2, <4>3 DEF Moves, Failed, State
    <3>. QED  BY <3>1, <3>2
  <2>. QED  BY <1>2, <1>4, <2>1, BusyFacts DEF RunInv, ModeInv
<1>11. make'.mem[t].cmd <= rule'[t]
  BY <1>1, <1>4, <1>5, RecipeFacts
<1>. QED  BY <1>3, <1>6, <1>7, <1>8, <1>9, <1>10, <1>11 DEF TargetInv

-----------------------------------------------------------------------------
(* The steps of make, together                                              *)

Acts(t) ==
    \/ DependencyFailed(t) \/ UpToDate(t) \/ PutAside(t) \/ RunCommand(t)
    \/ PrintCommand(t) \/ TouchCommand(t)
    \/ JobWrites(t) \/ JobSucceeds(t) \/ JobFails(t) \/ Finish(t)

\* After a build that succeeded nothing asks for anything to be made: neither
\* what .make.state says, nor what the next make remembers.
IdleInv ==
    idle => /\ Off => \A t \in Wanted : UpToDateIn(saved[t], t)
            /\ ~Off => /\ make.did = {} /\ make.held = {} /\ make.gone = {} /\ make.faked = {}
                       /\ make.phase = "on" /\ \A t \in Target : State(t) \in {"none", "ok"}
                       /\ \A t \in Wanted : UpToDateIn(make.mem[t], t)

LEMMA ActsKeepRun ==
  ASSUME TypeOK, RunInv, NEW t \in Target, Acts(t)
  PROVE  Moves(t) /\ TypeOK' /\ RunInv'
<1>1. Moves(t) /\ ModeInv' /\ TargetInv(t)' /\ make'.mem[t].cmd <= rule'[t]
  <2>1. TargetInv(t) /\ rule[t] \in Nat /\ make.mem[t].cmd <= rule[t]
    BY RecipeFacts DEF RunInv, TypeOK
  <2>2. CASE DependencyFailed(t) \/ JobWrites(t) \/ JobSucceeds(t) \/ JobFails(t)
    <3>1. Moves(t) /\ ModeInv' /\ TargetInv(t)' /\ make'.mem[t] = make.mem[t]
      BY <2>2, DependencyFailedKeeps, JobWritesKeeps, JobFailsKeeps
    <3>. QED  BY <2>1, <3>1 DEF Moves
  <2>3. CASE UpToDate(t) \/ PutAside(t) \/ RunCommand(t) \/ PrintCommand(t) \/ TouchCommand(t)
    <3>1. Moves(t) /\ ModeInv' /\ TargetInv(t)' /\ make'.mem[t].cmd = rule'[t]
      BY <2>3, UpToDateKeeps, PutAsideKeeps, RunCommandKeeps, SimulatedKeeps
    <3>. QED  BY <2>1, <3>1 DEF Moves
  <2>4. CASE Finish(t)
    BY <2>4, FinishKeeps
  <2>. QED  BY <2>2, <2>3, <2>4 DEF Acts
<1>2. \A u \in Target : TargetInv(u)'
  BY <1>1, OthersKeep
<1>3. HeaderInv'
  BY <1>1, MovesDisk DEF RunInv, HeaderInv, Moves
<1>4. TypeOK'
  <2>1. DiskOK' /\ make' \in Make
    BY <1>1, MovesDisk DEF Moves
  <2>2. whole' \subseteq File /\ vouched' \subseteq Target /\ right' \subseteq Target
    <3>1. CASE UNCHANGED files
      BY <3>1 DEF files, TypeOK
    <3>2. CASE TouchCommand(t) \/ JobWrites(t) \/ JobSucceeds(t)
      BY <3>2 DEF TouchCommand, JobWrites, JobSucceeds, TypeOK, File
    <3>. QED  BY <3>1, <3>2 DEF Acts, DependencyFailed, UpToDate, PutAside, RunCommand,
                                PrintCommand, JobFails, Finish
  <2>3. \A u \in Target : make'.mem[u].cmd <= rule'[u]
    BY <1>1 DEF TypeOK, Moves
  <2>. QED  BY <1>1, <2>1, <2>2, <2>3 DEF TypeOK, Moves
<1>. QED  BY <1>1, <1>2, <1>3, <1>4 DEF RunInv

\* If nothing was edited since a build that succeeded, make only looks.
LEMMA IdleOnlyLooks ==
  ASSUME TypeOK, RunInv, IdleInv, idle, NEW t \in Target, Acts(t)
  PROVE  UpToDate(t)
<1>1. ~Off
  BY ActsKeepRun DEF Moves
<1>2. /\ make.held = {} /\ make.gone = {} /\ make.faked = {}
      /\ \A u \in Target : State(u) \in {"none", "ok"}
      /\ \A u \in Wanted : UpToDateIn(make.mem[u], u)
  BY <1>1 DEF IdleInv
<1>3. ~DependencyFailed(t)
  BY <1>2 DEF DependencyFailed, State
<1>4. ~JobWrites(t) /\ ~JobSucceeds(t) /\ ~JobFails(t) /\ ~Finish(t)
  BY <1>2 DEF JobWrites, JobSucceeds, JobFails, Finish, State
<1>5. ASSUME Ready(t) PROVE ~NeedsBuild(t)
  <2>1. UpToDateIn(make.mem[t], t)
    BY <1>2, <1>5 DEF Ready, MayConsider
  <2>2. ~CommandDiffers(t) /\ Vanished(t) = {} /\ t \notin make.gone
    BY <1>2, <2>1 DEF UpToDateIn, CommandDiffers, Vanished
  <2>3. t \in File /\ \A f \in File : disk[f] \in Nat /\ Time(f) = disk[f]
    BY <1>2, FileIsFinite DEF TypeOK, DiskOK, File, Time
  <2>4. Deps[t] \cup make.mem[t].autos \subseteq File
    BY MakefileAssumption DEF TypeOK, Make, Record, File
  <2>5. disk[t] > 0 /\ \A d \in Deps[t] \cup make.mem[t].autos : disk[d] <= disk[t]
    BY <2>1 DEF UpToDateIn
  <2>6. ~OutOfDate(disk[t], 0) /\ \A d \in Deps[t] \cup make.mem[t].autos : ~OutOfDate(disk[t], disk[d])
    BY <2>3, <2>4, <2>5 DEF OutOfDate
  <2>7. ~Stale(t)
    BY <2>2, <2>3, <2>4, <2>6 DEF Stale
  <2>. QED  BY <2>2, <2>7 DEF NeedsBuild
<1>. QED  BY <1>3, <1>4, <1>5 DEF Acts, PutAside, RunCommand, PrintCommand, TouchCommand

LEMMA ActsKeepIdle ==
  ASSUME TypeOK, RunInv, IdleInv, NEW t \in Target, Acts(t)
  PROVE  IdleInv'
<1>1. idle' = idle /\ ~Off /\ ~Off'
  BY ActsKeepRun DEF Moves, Off
<1>. SUFFICES ASSUME idle PROVE IdleInv'
  BY <1>1 DEF IdleInv
<1>2. UpToDate(t)
  BY IdleOnlyLooks
<1>3. Ready(t) /\ Vanished(t) = {} /\ disk' = disk /\ rule' = rule
  BY <1>2 DEF UpToDate, NeedsBuild, Stale, user, files
<1>4. /\ Turns(t, "ok", Looked(t)) /\ make'.phase = make.phase
      /\ Lists(Checked(t).gone, make.held, make.faked, make.did)
      /\ Checked(t).gone = make.gone
  BY <1>2, <1>3, UpToDateFacts, CheckedFacts
<1>5. make'.phase = "on" /\ make'.gone = {} /\ make'.held = {} /\ make'.faked = {} /\ make'.did = {}
  BY <1>1, <1>4 DEF IdleInv, Lists
<1>6. \A u \in Target : State(u)' \in {"none", "ok"}
  BY <1>1, <1>4 DEF IdleInv, Turns, State, TypeOK, Make
<1>7. ASSUME NEW u \in Wanted PROVE UpToDateIn(make.mem[u], u)'
  <2>1. UpToDateIn(make.mem[u], u) /\ u \in Target
    BY <1>1, <1>7 DEF IdleInv, Wanted
  <2>2. CASE u = t
    <3>1. Looked(t).autos = make.mem[t].autos \ {} /\ Looked(t).cmd = rule[t]
      BY <1>3, ReadyFacts
    <3>2. make'.mem[u] = Looked(t)
      BY <1>4, <2>2 DEF Turns, TypeOK, Make
    <3>3. make'.mem[u].autos = make.mem[u].autos /\ make'.mem[u].cmd = rule[u]
      BY <2>2, <3>1, <3>2
    <3>4. ~Replaces(u, make.mem[u].cmd)'
      BY <1>3, <2>1, <3>3, ReplacesNot DEF Replaces
    <3>. QED  BY <1>3, <2>1, <3>3, <3>4 DEF UpToDateIn, Exists
  <2>3. CASE u /= t
    <3>1. make'.mem[u] = make.mem[u]
      BY <2>1, <2>3, <1>4 DEF Turns, TypeOK, Make
    <3>. QED  BY <1>3, <2>1, <3>1 DEF UpToDateIn, Exists, Replaces
  <2>. QED  BY <2>2, <2>3
<1>. QED  BY <1>1, <1>5, <1>6, <1>7 DEF IdleInv

-----------------------------------------------------------------------------
(* Between builds                                                           *)

LEMMA StartedFacts ==
  ASSUME NEW mode \in {"run", "-n", "-t"}, NEW jobs \in Nat \ {0}, NEW k \in BOOLEAN,
         NEW memory \in [Target -> Record]
  PROVE  LET m == Started(mode, jobs, k, memory)
         IN /\ m \in Make /\ m.phase = "on" /\ m.mode = mode /\ m.mem = memory
            /\ m.held = {} /\ m.gone = {} /\ m.faked = {} /\ m.did = {}
            /\ ~m.rewrite_statefile /\ \A t \in Target : m.state[t] = "none"
<1>1. PICK state : state = [t \in Target |-> "none"]
  OBVIOUS
<1>2. state \in [Target -> Status] /\ \A t \in Target : state[t] = "none"
  BY <1>1 DEF Status
<1>3. Started(mode, jobs, k, memory) =
         [phase |-> "on", mode |-> mode, jobs |-> jobs, keep_going |-> k, mem |-> memory,
          state |-> state, faked |-> {}, gone |-> {}, held |-> {},
          command_changed |-> FALSE, rewrite_statefile |-> FALSE, did |-> {}]
  BY <1>1 DEF Started
<1>. QED  BY <1>2, <1>3 DEF Make

LEMMA StoppedFacts ==
  ASSUME NEW mode \in {"run", "-n", "-t"}, NEW did \in SUBSET Target
  PROVE  LET m == Stopped(mode, did)
         IN /\ m \in Make /\ m.phase = "off" /\ m.mode = mode /\ m.did = did
            /\ m.held = {} /\ m.gone = {} /\ m.faked = {}
            /\ \A t \in Target : m.mem[t].cmd = 0 /\ m.state[t] = "none"
<1>1. NoMemory \in [Target -> Record] /\ \A t \in Target : NoMemory[t].cmd = 0
  BY DEF NoMemory, NoRecord, Record
<1>2. PICK state : state = [t \in Target |-> "none"]
  OBVIOUS
<1>3. state \in [Target -> Status] /\ \A t \in Target : state[t] = "none"
  BY <1>2 DEF Status
<1>4. PICK m : m = [phase |-> "on", mode |-> mode, jobs |-> 1, keep_going |-> FALSE,
                    mem |-> NoMemory, state |-> state, faked |-> {}, gone |-> {}, held |-> {},
                    command_changed |-> FALSE, rewrite_statefile |-> FALSE, did |-> {}]
  OBVIOUS
<1>5. Stopped(mode, did) = [m EXCEPT !.phase = "off", !.did = did]
  <2>1. m = Started(mode, 1, FALSE, NoMemory)
    BY <1>2, <1>4 DEF Started
  <2>. QED  BY <2>1 DEF Stopped
<1>6. m \in Make
  BY <1>1, <1>3, <1>4 DEF Make
<1>7. /\ m.mode = mode /\ m.mem = NoMemory /\ m.state = state
      /\ m.held = {} /\ m.gone = {} /\ m.faked = {}
  BY <1>4
<1>8. PICK n : n = [m EXCEPT !.phase = "off", !.did = did]
  OBVIOUS
<1>9. n \in Make
  BY <1>6, <1>8 DEF Make
<1>10. /\ n.phase = "off" /\ n.did = did /\ n.mode = m.mode /\ n.mem = m.mem /\ n.state = m.state
       /\ n.held = m.held /\ n.gone = m.gone /\ n.faked = m.faked
  BY <1>6, <1>8 DEF Make
<1>. QED  BY <1>1, <1>3, <1>5, <1>7, <1>8, <1>9, <1>10

\* What holds while no make runs follows from what holds of the headers.
LEMMA OffRun ==
  ASSUME make.phase = "off", HeaderInv,
         make.held = {} /\ make.gone = {} /\ make.faked = {},
         \A t \in Target : State(t) = "none"
  PROVE  RunInv
<1>1. ModeInv
  BY DEF ModeInv, Off
<1>2. ASSUME NEW t \in Target PROVE TargetInv(t)
  <2>1. StateInv(t)
    BY DEF StateInv, Off, Busy, Active
  <2>2. MemoryInv(t) /\ NewerInv(t) /\ MadeInv(t)
    BY DEF MemoryInv, NewerInv, MadeInv, Off
  <2>. QED  BY <2>1, <2>2 DEF TargetInv
<1>. QED  BY <1>1, <1>2 DEF RunInv

LEMMA OffRunNext ==
  ASSUME make'.phase = "off", HeaderInv',
         make'.held = {} /\ make'.gone = {} /\ make'.faked = {},
         \A t \in Target : make'.state[t] = "none"
  PROVE  RunInv'
<1>1. ModeInv'
  BY DEF ModeInv, Off
<1>2. ASSUME NEW t \in Target PROVE TargetInv(t)'
  <2>1. StateInv(t)'
    BY DEF StateInv, Off, State, Busy, Active
  <2>2. MemoryInv(t)' /\ NewerInv(t)' /\ MadeInv(t)'
    BY DEF MemoryInv, NewerInv, MadeInv, Off, State
  <2>. QED  BY <2>1, <2>2 DEF TargetInv
<1>. QED  BY <1>1, <1>2 DEF RunInv

\* While no make runs, none of the targets has a state.
LEMMA OffStates ==
  ASSUME TypeOK, RunInv, Off
  PROVE  /\ make.held = {} /\ make.gone = {} /\ make.faked = {}
         /\ \A t \in Target : State(t) = "none"
<1>1. \A t \in Target : State(t) = "none" /\ t \notin make.held \cup make.gone \cup make.faked
  BY DEF RunInv, TargetInv, StateInv
<1>2. make.held \subseteq Target /\ make.gone \subseteq Target /\ make.faked \subseteq Target
  BY DEF TypeOK, Make
<1>. QED  BY <1>1, <1>2

LEMMA InitRun ==
  ASSUME Init PROVE TypeOK /\ RunInv /\ IdleInv
<1>. DEFINE times == [f \in File |-> IF f \in Source THEN 1 ELSE 0]
<1>1. times \in [File -> Nat] /\ disk = Ranked(times)
  BY DEF Init
<1>2. DiskOK /\ \A f \in File : disk[f] > 0 <=> f \in Source
  BY <1>1, RankedFacts DEF DiskOK
<1>3. make \in Make /\ Off /\ make.held = {} /\ make.gone = {} /\ make.faked = {}
      /\ \A t \in Target : make.state[t] = "none" /\ make.mem[t].cmd = 0
  <2>1. make = Stopped("run", {})
    BY DEF Init
  <2>. QED  BY <2>1, StoppedFacts DEF Off
<1>4. TypeOK
  <2>1. \A t \in Target : 1 \in DOMAIN Recipe[t]
    <3>1. \A t \in Target : Recipe[t] \in Seq(Seq(Cmd_line) \ {<<>>}) /\ Recipe[t] /= <<>>
      BY MakefileAssumption
    <3>. QED  BY <3>1, EmptySeq, LenProperties
  <2>2. saved \in [Target -> Record] /\ \A t \in Target : saved[t].cmd = 0
    BY DEF Init, NoMemory, NoRecord, Record
  <2>3. includes \in [Target -> SUBSET Source]
    BY MakefileAssumption DEF Init
  <2>4. /\ rule \in [Target -> Nat] /\ \A t \in Target : rule[t] = 1
        /\ whole \subseteq File /\ vouched \subseteq Target /\ right \subseteq Target
        /\ idle \in BOOLEAN
    BY DEF Init, File
  <2>. QED  BY <1>2, <1>3, <2>1, <2>2, <2>3, <2>4 DEF TypeOK
<1>5. HeaderInv
  <2>1. \A t \in Target : includes[t] = Includes[t] /\ Includes[t] \subseteq Source
    BY MakefileAssumption DEF Init
  <2>. QED  BY <1>2, <2>1 DEF HeaderInv, Exists, File
<1>6. RunInv
  BY <1>3, <1>5, OffRun DEF Off, State
<1>. QED  BY <1>4, <1>6 DEF Init, IdleInv

\* The user's edits: no make runs, and what is made is what it was.
Edit == \/ \E s \in Source : EditSource(s) \/ RemoveHeader(s)
        \/ \E t \in Target : EditRule(t) \/ RemoveTarget(t)

LEMMA EditFacts ==
  ASSUME Edit
  PROVE  /\ Off /\ Off' /\ UNCHANGED <<make, saved, whole, vouched>>
         /\ idle' = FALSE /\ foretold' = NoPlan
BY DEF Edit, EditSource, RemoveHeader, EditRule, RemoveTarget, Edited, Off

\* What an edit does to the files and the rules.
LEMMA EditDisk ==
  ASSUME TypeOK, RunInv, Edit
  PROVE  /\ DiskOK' /\ HeaderInv' /\ includes' \in [Target -> SUBSET Source]
         /\ rule' \in [Target -> Nat]
         /\ \A t \in Target : /\ rule'[t] \in DOMAIN Recipe[t] /\ rule[t] <= rule'[t]
                              /\ disk'[t] > 0 => disk[t] > 0
         /\ right' \subseteq right
<1>0. /\ Source \cap Target = {} /\ Source \subseteq File /\ Target \subseteq File
      /\ \A f \in File : f \in Exists <=> disk[f] > 0
      /\ \A f \in File : f \in Exists' <=> disk'[f] > 0
      /\ \A t \in Target : includes[t] \subseteq Includes[t] \cap Exists
      /\ \A t \in Target : rule[t] \in Nat /\ rule[t] \in DOMAIN Recipe[t]
  BY MakefileAssumption, RecipeFacts DEF File, Exists, RunInv, HeaderInv, TypeOK
<1>1. ASSUME NEW s \in Source, EditSource(s)
      PROVE  /\ DiskOK' /\ HeaderInv' /\ includes' \in [Target -> SUBSET Source] /\ rule' = rule
             /\ \A t \in Target : disk'[t] > 0 => disk[t] > 0
             /\ right' \subseteq right
  <2>1. /\ disk' = Written(s) /\ s \in Exists /\ includes' \in [Target -> SUBSET Source]
        /\ rule' = rule /\ right' \subseteq right
        /\ \A t \in Target : includes'[t] \subseteq Includes[t] \cap Exists \/ includes'[t] = includes[t]
    BY <1>1 DEF EditSource, Edited
  <2>2. DiskOK' /\ \A f \in File : disk'[f] > 0 <=> disk[f] > 0
    BY <1>0, <2>1, WrittenFacts DEF TypeOK, DiskOK
  <2>3. HeaderInv'
    BY <1>0, <2>1, <2>2 DEF HeaderInv, Exists
  <2>. QED  BY <1>0, <2>1, <2>2, <2>3
<1>2. ASSUME NEW s \in Source, RemoveHeader(s)
      PROVE  /\ DiskOK' /\ HeaderInv' /\ includes' = includes /\ rule' = rule
             /\ \A t \in Target : disk'[t] > 0 => disk[t] > 0
             /\ right' \subseteq right
  <2>1. /\ disk' = Without({s}) /\ includes' = includes /\ rule' = rule /\ right' \subseteq right
        /\ \A t \in Target : s \notin includes[t]
    BY <1>2 DEF RemoveHeader, Edited
  <2>2. DiskOK' /\ \A f \in File : disk'[f] > 0 <=> disk[f] > 0 /\ f \notin {s}
    BY <2>1, WithoutFacts DEF TypeOK, DiskOK
  <2>3. HeaderInv'
    BY <1>0, <2>1, <2>2 DEF HeaderInv, Exists
  <2>. QED  BY <1>0, <2>1, <2>2, <2>3
<1>3. ASSUME NEW t \in Target, EditRule(t)
      PROVE  /\ disk' = disk /\ includes' = includes /\ rule' \in [Target -> Nat]
             /\ \A u \in Target : rule'[u] \in DOMAIN Recipe[u] /\ rule[u] <= rule'[u]
             /\ right' \subseteq right
  <2>1. /\ disk' = disk /\ includes' = includes /\ rule[t] < Len(Recipe[t])
        /\ rule' = [rule EXCEPT ![t] = rule[t] + 1] /\ right' \subseteq right
    BY <1>3 DEF EditRule, Edited, TypeOK
  <2>2. DOMAIN Recipe[t] = 1..Len(Recipe[t])
    BY RecipeFacts
  <2>. QED  BY <1>0, <2>1, <2>2, RecipeFacts DEF TypeOK
<1>4. ASSUME NEW t \in Target, RemoveTarget(t)
      PROVE  /\ DiskOK' /\ HeaderInv' /\ includes' = includes /\ rule' = rule
             /\ \A u \in Target : disk'[u] > 0 => disk[u] > 0
             /\ right' \subseteq right
  <2>1. /\ disk' = Without({t}) /\ includes' = includes /\ rule' = rule /\ right' \subseteq right
    BY <1>4 DEF RemoveTarget, Edited
  <2>2. DiskOK' /\ \A f \in File : disk'[f] > 0 <=> disk[f] > 0 /\ f \notin {t}
    BY <2>1, WithoutFacts DEF TypeOK, DiskOK
  <2>3. \A u \in Target : includes[u] \subseteq Source
    BY DEF TypeOK
  <2>4. HeaderInv'
    BY <1>0, <2>1, <2>2, <2>3 DEF HeaderInv, Exists
  <2>. QED  BY <1>0, <2>1, <2>2, <2>4
<1>5. (disk' = disk /\ includes' = includes) => DiskOK' /\ HeaderInv'
  BY <1>0 DEF TypeOK, DiskOK, HeaderInv, Exists
<1>. QED
  <2>1. CASE \E t \in Target : EditRule(t)
    BY <1>3, <1>5, <2>1 DEF TypeOK
  <2>2. CASE \E t \in Target : RemoveTarget(t)
    BY <1>0, <1>4, <2>2 DEF TypeOK
  <2>3. CASE \E s \in Source : EditSource(s)
    BY <1>0, <1>1, <2>3 DEF TypeOK
  <2>4. CASE \E s \in Source : RemoveHeader(s)
    BY <1>0, <1>2, <2>4 DEF TypeOK
  <2>. QED  BY <2>1, <2>2, <2>3, <2>4 DEF Edit

LEMMA EditKeepsRun ==
  ASSUME TypeOK, RunInv, Edit
  PROVE  TypeOK' /\ RunInv' /\ IdleInv'
<1>1. /\ Off /\ Off' /\ UNCHANGED <<make, saved, whole, vouched>> /\ idle' = FALSE
  BY EditFacts
<1>2. TypeOK'
  <2>1. \A t \in Target : saved[t].cmd \in Nat /\ make.mem[t].cmd \in Nat /\ rule[t] \in Nat
    BY RecipeFacts DEF TypeOK, Make, Record
  <2>2. \A t \in Target : saved[t].cmd <= rule'[t] /\ make.mem[t].cmd <= rule'[t]
    <3>1. \A t \in Target : rule'[t] \in Nat /\ rule[t] <= rule'[t]
      BY EditDisk
    <3>. QED  BY <2>1, <3>1 DEF TypeOK
  <2>3. right' \subseteq Target
    BY EditDisk DEF TypeOK
  <2>. QED  BY <1>1, <2>2, <2>3, EditDisk DEF TypeOK
<1>3. RunInv'
  <2>1. make'.phase = "off" /\ make' = make /\ \A t \in Target : make.state[t] = "none"
    BY <1>1, OffStates DEF Off, State
  <2>. QED  BY <1>1, <2>1, EditDisk, OffStates, OffRunNext
<1>. QED  BY <1>1, <1>2, <1>3 DEF IdleInv

LEMMA StartFacts ==
  ASSUME TypeOK, NEW how \in Invocations, Start(how.mode, how.jobs, how.keep)
  PROVE  /\ Off /\ UNCHANGED <<rule, includes, disk, whole, right, vouched, saved, idle>>
         /\ foretold' = IF make.mode = "-n" THEN foretold ELSE NoPlan
         /\ make' \in Make /\ make'.phase = "on" /\ make'.mode = how.mode /\ make'.mem = saved
         /\ make'.held = {} /\ make'.gone = {} /\ make'.faked = {} /\ make'.did = {}
         /\ ~make'.rewrite_statefile /\ \A t \in Target : make'.state[t] = "none"
<1>1. how.mode \in {"run", "-n", "-t"} /\ how.jobs \in Nat \ {0} /\ how.keep \in BOOLEAN
  BY InvocationAssumption
<1>2. /\ Off /\ UNCHANGED <<rule, includes, disk, whole, right, vouched, saved, idle>>
      /\ make' = Started(how.mode, how.jobs, how.keep, saved)
      /\ foretold' = IF make.mode = "-n" THEN foretold ELSE NoPlan
  BY DEF Start, user, files, Off
<1>. QED  BY <1>1, <1>2, StartedFacts DEF TypeOK

LEMMA StartKeepsRun ==
  ASSUME TypeOK, RunInv, IdleInv, NEW how \in Invocations, Start(how.mode, how.jobs, how.keep)
  PROVE  TypeOK' /\ RunInv' /\ IdleInv'
<1>1. TypeOK'
  BY StartFacts DEF TypeOK, DiskOK
<1>2. /\ ~Off' /\ make'.phase = "on" /\ \A t \in Target : State(t)' = "none" /\ make'.mem[t] = saved'[t]
      /\ make'.held = {} /\ make'.gone = {} /\ make'.faked = {} /\ make'.did = {}
  BY StartFacts DEF Off, State
<1>3. HeaderInv'
  BY StartFacts DEF RunInv, HeaderInv, Exists
<1>4. ModeInv'
  BY <1>2 DEF ModeInv
<1>5. ASSUME NEW t \in Target PROVE TargetInv(t)'
  <2>1. StateInv(t)'
    BY <1>2 DEF StateInv, Busy, Active
  <2>2. MemoryInv(t)' /\ NewerInv(t)' /\ MadeInv(t)'
    BY <1>2 DEF MemoryInv, NewerInv, MadeInv
  <2>. QED  BY <2>1, <2>2 DEF TargetInv
<1>6. IdleInv'
  <2>1. ASSUME idle, NEW t \in Wanted PROVE UpToDateIn(make.mem[t], t)'
    <3>1. UpToDateIn(saved[t], t) /\ make'.mem[t] = saved[t]
      BY <2>1, StartFacts DEF IdleInv
    <3>. QED  BY <3>1, StartFacts DEF UpToDateIn, Exists, Replaces
  <2>. QED  BY <1>2, <2>1, StartFacts DEF IdleInv
<1>. QED  BY <1>1, <1>3, <1>4, <1>5, <1>6 DEF RunInv

LEMMA EndFacts ==
  ASSUME TypeOK, RunInv, End
  PROVE  /\ ~Off /\ UNCHANGED <<rule, includes, disk, whole, right, vouched>>
         /\ make' \in Make /\ make'.phase = "off" /\ make'.mode = make.mode /\ make'.did = make.did
         /\ make'.held = {} /\ make'.gone = {} /\ make'.faked = {}
         /\ \A t \in Target : make'.mem[t].cmd = 0 /\ make'.state[t] = "none" /\ ~Busy(t)
         /\ saved' = IF Flagged /\ make.mode /= "-n" THEN make.mem ELSE saved
         /\ idle' = (make.mode = "run" /\ ~Failed)
         /\ foretold' = IF make.mode = "-n" THEN make.did ELSE IF Failed THEN NoPlan ELSE foretold
         /\ Failed => make.mode = "run"
         /\ ~Failed => \A t \in Wanted : State(t) = "ok"
<1>1. /\ make' = Stopped(make.mode, make.did) /\ ~Off /\ Running = {}
      /\ UNCHANGED <<rule, includes, disk, whole, right, vouched>>
      /\ saved' = IF Flagged /\ make.mode /= "-n" THEN make.mem ELSE saved
      /\ idle' = (make.mode = "run" /\ ~Failed)
      /\ foretold' = IF make.mode = "-n" THEN make.did ELSE IF Failed THEN NoPlan ELSE foretold
  BY DEF End, user, files, StateWritten, Off, Flagged
<1>2. make.mode \in {"run", "-n", "-t"} /\ make.did \in SUBSET Target
  BY DEF TypeOK, Make
<1>3. \A t \in Target : ~Busy(t)
  BY <1>1 DEF Running, Busy, State
<1>4. Failed => make.mode = "run"
  BY DEF RunInv, TargetInv, StateInv, Failed, State
<1>5. ~Failed => \A t \in Wanted : State(t) = "ok"
  <2>1. SUFFICES ASSUME ~Failed, NEW t \in Wanted PROVE State(t) = "ok"
    OBVIOUS
  <2>2. make.phase /= "fatal"
    BY <2>1 DEF RunInv, ModeInv
  <2>3. t \in Concluded /\ t \in Target /\ t \notin Source
    BY <2>2, MakefileAssumption DEF End, Wanted
  <2>. QED  BY <2>1, <2>3 DEF Concluded, Failed, State
<1>. QED  BY <1>1, <1>2, <1>3, <1>4, <1>5, StoppedFacts

LEMMA EndKeepsRun ==
  ASSUME TypeOK, RunInv, End
  PROVE  TypeOK' /\ RunInv' /\ IdleInv'
<1>1. TypeOK'
  <2>1. make.mem \in [Target -> Record] /\ \A t \in Target : rule[t] \in Nat
    BY RecipeFacts DEF TypeOK, Make
  <2>2. saved' \in [Target -> Record] /\ \A t \in Target : saved'[t].cmd <= rule[t]
    BY <2>1, EndFacts DEF TypeOK
  <2>3. \A t \in Target : make'.mem[t].cmd <= rule[t]
    BY <2>1, EndFacts
  <2>. QED  BY <2>2, <2>3, EndFacts DEF TypeOK, DiskOK
<1>2. HeaderInv'
  BY EndFacts DEF RunInv, HeaderInv, Exists
<1>3. RunInv'
  BY <1>2, EndFacts, OffRunNext
<1>4. IdleInv'
  <2>1. SUFFICES ASSUME idle', NEW t \in Wanted PROVE UpToDateIn(saved[t], t)'
    BY EndFacts DEF IdleInv, Off
  <2>2. make.mode = "run" /\ ~Off /\ State(t) = "ok" /\ t \in Target
    BY <2>1, EndFacts DEF Wanted
  <2>3. UpToDateIn(make.mem[t], t) /\ make.mem[t].cmd = rule[t] /\ MemoryInv(t)
    BY <2>2 DEF RunInv, TargetInv, MadeInv, StateInv
  <2>4. saved'[t].autos = make.mem[t].autos /\ ~Replaces(t, saved'[t].cmd)
    <3>1. CASE Flagged
      BY <2>2, <2>3, <3>1, EndFacts DEF UpToDateIn
    <3>2. CASE ~Flagged
      BY <2>2, <2>3, <3>2, EndFacts DEF UpToDateIn, MemoryInv
    <3>. QED  BY <3>1, <3>2
  <2>5. ~Replaces(t, saved[t].cmd)'
    BY <2>4, EndFacts DEF Replaces
  <2>. QED  BY <2>3, <2>4, <2>5, EndFacts DEF UpToDateIn, Exists
<1>. QED  BY <1>1, <1>3, <1>4

\* What an interrupt removes, and what make remembers of t while it exits.
Killed(reaped) == Running \ reaped
Left(reaped, t) ==
    IF t \in (IF make.jobs = 1 THEN Killed(reaped) ELSE {}) THEN [cmd |-> 0, autos |-> make.mem[t].autos]
    ELSE IF t \in reaped THEN Ended(t) ELSE make.mem[t]
Writes(reaped) ==
    /\ make.mode /= "-n" /\ make.rewrite_statefile
    /\ \/ make.command_changed \/ Killed(reaped) /= {}
       \/ \E t \in reaped : Finished(t, make).command_changed

LEMMA InterruptFacts ==
  ASSUME TypeOK, RunInv, NEW reaped \in SUBSET Running, Interrupt(reaped)
  PROVE  /\ ~Off /\ UNCHANGED <<rule, includes, whole, vouched>>
         /\ make' \in Make /\ make'.phase = "off" /\ make'.mode = make.mode /\ make'.did = make.did
         /\ make'.held = {} /\ make'.gone = {} /\ make'.faked = {}
         /\ \A t \in Target : make'.mem[t].cmd = 0 /\ make'.state[t] = "none"
         /\ saved' \in [Target -> Record]
         /\ \A t \in Target : saved'[t] = IF Writes(reaped) THEN Left(reaped, t) ELSE saved[t]
         /\ disk' = Without(Killed(reaped) \ Precious) /\ right' = right \ (Killed(reaped) \ Precious)
         /\ DiskOK' /\ \A f \in File : disk'[f] > 0 <=> disk[f] > 0 /\ f \notin Killed(reaped) \ Precious
         /\ idle' = FALSE /\ foretold' = NoPlan
         /\ Killed(reaped) \subseteq Target /\ reaped \subseteq Target
         /\ \A t \in Target : Busy(t) <=> t \in Killed(reaped) \cup reaped
         /\ \A t \in reaped : Busy(t) /\ State(t) \in {"done", "error"} /\ t \notin Killed(reaped)
         /\ make.jobs = 1 => reaped = {}
<1>. DEFINE cc == \/ make.command_changed \/ Killed(reaped) /= {}
                  \/ \E t \in reaped : Finished(t, make).command_changed
            mem == [t \in Target |->
                      IF t \in (IF make.jobs = 1 THEN Killed(reaped) ELSE {})
                      THEN [make.mem[t] EXCEPT !.cmd = 0]
                      ELSE IF t \in reaped THEN Finished(t, make).mem[t] ELSE make.mem[t]]
<1>1. /\ ~Off /\ UNCHANGED <<rule, includes, whole, vouched>>
      /\ make' = Stopped(make.mode, make.did) /\ idle' = FALSE /\ foretold' = NoPlan
      /\ disk' = Without(Killed(reaped) \ Precious) /\ right' = right \ (Killed(reaped) \ Precious)
      /\ reaped \subseteq {t \in Running : make.state[t] \in {"done", "error"}}
      /\ make.jobs = 1 => reaped = {}
  BY DEF Interrupt, Off, Killed
<1>2. make \in Make /\ make.mode \in {"run", "-n", "-t"} /\ make.did \in SUBSET Target
  BY DEF TypeOK, Make
<1>3. /\ make' \in Make /\ make'.phase = "off" /\ make'.mode = make.mode /\ make'.did = make.did
      /\ make'.held = {} /\ make'.gone = {} /\ make'.faked = {}
      /\ \A t \in Target : make'.mem[t].cmd = 0 /\ make'.state[t] = "none"
  BY <1>1, <1>2, StoppedFacts
<1>4. /\ Killed(reaped) \subseteq Target /\ reaped \subseteq Target
      /\ \A t \in Target : Busy(t) <=> t \in Killed(reaped) \cup reaped
      /\ \A t \in reaped : Busy(t) /\ State(t) \in {"done", "error"} /\ t \notin Killed(reaped)
  BY <1>1 DEF Running, Killed, Busy, State
<1>5. /\ DiskOK' /\ \A f \in File : disk'[f] > 0 <=> disk[f] > 0 /\ f \notin Killed(reaped) \ Precious
  BY <1>1, WithoutFacts DEF TypeOK, DiskOK
<1>6. \A t \in Target : mem[t] = Left(reaped, t) /\ Left(reaped, t) \in Record
  <2>. TAKE t \in Target
  <2>1. make.mem[t] \in Record /\ Finished(t, make).mem[t] = Ended(t) /\ Ended(t) \in Record
    <3>1. make.mem \in [Target -> Record]
      BY <1>2 DEF Make
    <3>2. Finished(t, make).mem = [make.mem EXCEPT ![t] = Ended(t)] /\ Ended(t) \in Record
      BY FinishedFacts
    <3>. QED  BY <3>1, <3>2
  <2>2. [make.mem[t] EXCEPT !.cmd = 0] = [cmd |-> 0, autos |-> make.mem[t].autos]
    BY <2>1 DEF Record
  <2>3. [cmd |-> 0, autos |-> make.mem[t].autos] \in Record
    BY <2>1 DEF Record
  <2>. QED  BY <2>1, <2>2, <2>3 DEF Left
<1>7. saved' = IF Writes(reaped) THEN mem ELSE saved
  <2>. DEFINE exiting == [make EXCEPT !.command_changed = cc, !.mem = mem]
  <2>1. saved' = StateWritten(exiting)
    BY <1>2 DEF Interrupt, Killed, Make
  <2>2. /\ exiting.rewrite_statefile = make.rewrite_statefile /\ exiting.mode = make.mode
        /\ exiting.command_changed = cc /\ exiting.mem = mem
    BY <1>2 DEF Make
  <2>3. StateWritten(exiting) =
           IF exiting.rewrite_statefile /\ exiting.command_changed /\ exiting.mode /= "-n"
           THEN exiting.mem ELSE saved
    BY DEF StateWritten
  <2>. HIDE DEF exiting, mem
  <2>. QED  BY <2>1, <2>2, <2>3 DEF Writes
<1>8. mem = [t \in Target |-> mem[t]]
  OBVIOUS
<1>. HIDE DEF mem
<1>9. saved' \in [Target -> Record]
      /\ \A t \in Target : saved'[t] = IF Writes(reaped) THEN Left(reaped, t) ELSE saved[t]
  <2>1. mem \in [Target -> Record]
    BY <1>6, <1>8
  <2>. QED  BY <1>6, <1>7, <2>1 DEF TypeOK
<1>. QED  BY <1>1, <1>3, <1>4, <1>5, <1>9

LEMMA InterruptKeepsRun ==
  ASSUME TypeOK, RunInv, NEW reaped \in SUBSET Running, Interrupt(reaped)
  PROVE  TypeOK' /\ RunInv' /\ IdleInv'
<1>1. \A t \in Target : rule[t] \in Nat /\ rule[t] > 0
  BY RecipeFacts
<1>2. \A t \in Target : saved'[t].cmd <= rule[t]
  <2>. TAKE t \in Target
  <2>1. Left(reaped, t).cmd \in {0, make.mem[t].cmd}
    BY DEF Left, Ended
  <2>2. make.mem[t].cmd <= rule[t] /\ saved[t].cmd <= rule[t] /\ 0 <= rule[t]
    BY <1>1 DEF TypeOK
  <2>3. saved'[t] = IF Writes(reaped) THEN Left(reaped, t) ELSE saved[t]
    BY InterruptFacts
  <2>. QED  BY <2>1, <2>2, <2>3
<1>3. TypeOK'
  <2>1. DiskOK' /\ saved' \in [Target -> Record] /\ make' \in Make /\ right' \subseteq right
        /\ UNCHANGED <<rule, includes, whole, vouched>> /\ idle' = FALSE
        /\ \A t \in Target : make'.mem[t].cmd = 0
    BY InterruptFacts
  <2>2. \A t \in Target : saved'[t].cmd <= rule'[t] /\ make'.mem[t].cmd <= rule'[t]
    BY <1>1, <1>2, <2>1
  <2>3. /\ whole' \subseteq File /\ vouched' \subseteq Target /\ right' \subseteq Target
        /\ rule' \in [Target -> Nat] /\ \A t \in Target : rule'[t] \in DOMAIN Recipe[t]
        /\ includes' \in [Target -> SUBSET Source] /\ idle' \in BOOLEAN
    BY <2>1 DEF TypeOK
  <2>. QED  BY <2>1, <2>2, <2>3 DEF TypeOK
<1>4. HeaderInv'
  <2>1. /\ Killed(reaped) \subseteq Target /\ includes' = includes
        /\ \A f \in File : disk'[f] > 0 <=> disk[f] > 0 /\ f \notin Killed(reaped) \ Precious
    BY InterruptFacts
  <2>2. \A t \in Target : includes[t] \subseteq Source /\ includes[t] \subseteq Includes[t] \cap Exists
    BY DEF TypeOK, RunInv, HeaderInv
  <2>3. \A f \in Source : f \in File /\ f \notin Target
    BY MakefileAssumption DEF File
  <2>. QED  BY <2>1, <2>2, <2>3 DEF HeaderInv, Exists
<1>5. RunInv'
  BY <1>4, InterruptFacts, OffRunNext
<1>. QED  BY <1>3, <1>5, InterruptFacts DEF IdleInv

-----------------------------------------------------------------------------
(* What holds in every build                                                *)

BuildInv == TypeOK /\ RunInv /\ IdleInv

LEMMA InitFacts ==
  ASSUME Init
  PROVE  /\ Off /\ make.mode = "run" /\ make.did = {}
         /\ \A t \in Target : t \notin Exists /\ disk[t] = 0 /\ saved[t].cmd = 0 /\ State(t) = "none"
<1>1. make.mode = "run" /\ make.phase = "off" /\ make.did = {} /\ \A t \in Target : make.state[t] = "none"
  <2>1. make = Stopped("run", {})
    BY DEF Init
  <2>. QED  BY <2>1, StoppedFacts
<1>2. \A t \in Target : saved[t].cmd = 0
  BY DEF Init, NoMemory, NoRecord
<1>3. \A t \in Target : t \notin Exists /\ disk[t] = 0
  <2>. DEFINE times == [f \in File |-> IF f \in Source THEN 1 ELSE 0]
  <2>1. times \in [File -> Nat] /\ disk = Ranked(times)
    BY DEF Init
  <2>2. \A t \in Target : t \in File /\ times[t] = 0
    BY MakefileAssumption DEF File
  <2>. HIDE DEF times
  <2>3. \A t \in Target : disk[t] \in Nat /\ ~(disk[t] > 0)
    BY <2>1, <2>2, RankedFacts, FileIsFinite
  <2>. QED  BY <2>3 DEF Exists
<1>. QED  BY <1>1, <1>2, <1>3 DEF Off, State

LEMMA NextCases ==
  ASSUME Next
  PROVE  \/ Edit \/ End
         \/ \E how \in Invocations : Start(how.mode, how.jobs, how.keep)
         \/ \E t \in Target : Acts(t)
         \/ \E reaped \in SUBSET Running : Interrupt(reaped)
BY DEF Next, Edit, Acts

LEMMA BuildStep ==
  ASSUME BuildInv, [Next]_vars
  PROVE  BuildInv'
<1>1. CASE UNCHANGED vars
  <2>1. /\ disk' = disk /\ whole' = whole /\ rule' = rule /\ includes' = includes
        /\ saved' = saved /\ make' = make /\ right' = right /\ vouched' = vouched /\ idle' = idle
    BY <1>1 DEF vars
  <2>2. TypeOK'
    BY <2>1 DEF BuildInv, TypeOK, DiskOK
  <2>3. HeaderInv' /\ ModeInv'
    BY <2>1 DEF BuildInv, RunInv, HeaderInv, Exists, ModeInv, Off, Failed
  <2>4. \A t \in Target : TargetInv(t)'
    <3>. TAKE t \in Target
    <3>0. StateInv(t) /\ MemoryInv(t) /\ NewerInv(t) /\ MadeInv(t)
      BY DEF BuildInv, RunInv, TargetInv
    <3>1. StateInv(t)'
      BY <2>1, <3>0 DEF StateInv, State, Off, Busy, Needs, Exists
    <3>2. MemoryInv(t)'
      BY <2>1, <3>0 DEF MemoryInv, State, Off, Flagged, Replaces
    <3>3. NewerInv(t)' /\ MadeInv(t)'
      BY <2>1, <3>0 DEF NewerInv, MadeInv, State, UpToDateIn, Replaces, Exists
    <3>. QED  BY <3>1, <3>2, <3>3 DEF TargetInv
  <2>5. IdleInv'
    BY <2>1 DEF BuildInv, IdleInv, Off, State, UpToDateIn, Replaces, Exists
  <2>. QED  BY <2>2, <2>3, <2>4, <2>5 DEF BuildInv, RunInv
<1>2. CASE Next
  <2>0. TypeOK /\ RunInv /\ IdleInv
    BY DEF BuildInv
  <2>1. CASE Edit
    BY <2>0, <2>1, EditKeepsRun DEF BuildInv
  <2>2. CASE End
    BY <2>0, <2>2, EndKeepsRun DEF BuildInv
  <2>3. CASE \E how \in Invocations : Start(how.mode, how.jobs, how.keep)
    BY <2>0, <2>3, StartKeepsRun DEF BuildInv
  <2>4. CASE \E t \in Target : Acts(t)
    BY <2>0, <2>4, ActsKeepRun, ActsKeepIdle DEF BuildInv
  <2>5. CASE \E reaped \in SUBSET Running : Interrupt(reaped)
    BY <2>0, <2>5, InterruptKeepsRun DEF BuildInv
  <2>. QED  BY <1>2, <2>1, <2>2, <2>3, <2>4, <2>5, NextCases
<1>. QED  BY <1>1, <1>2

\* In every state of every build the invariant holds: what make remembers of a
\* target fits the state it is in, and .make.state tells the next make the same.
THEOREM BuildInvariant == Spec => []BuildInv
<1>1. Init => BuildInv
  BY InitRun DEF BuildInv
<1>2. BuildInv /\ [Next]_vars => BuildInv'
  BY BuildStep
<1>. QED  BY <1>1, <1>2, PTL DEF Spec

\* After a build that succeeded, with nothing edited since, make runs no recipe
\* and touches nothing, however many targets there are and whatever was built,
\* edited, interrupted or touched before (write_state_file()).
THEOREM NothingToDoAgain == Spec => []NothingToDo
<1>1. BuildInv => NothingToDo
  BY DEF BuildInv, IdleInv, NothingToDo, Off
<1>. QED  BY <1>1, BuildInvariant, PTL

-----------------------------------------------------------------------------
(* Half-written files                                                       *)

\* A step about t leaves the files of the other targets alone.
LEMMA ActsFiles ==
  ASSUME TypeOK, RunInv, NEW t \in Target, Acts(t), NEW u \in Target, u /= t
  PROVE  /\ u \in whole' <=> u \in whole
         /\ u \in vouched' <=> u \in vouched
         /\ u \in Exists' <=> u \in Exists
<1>1. CASE UNCHANGED files
  BY <1>1 DEF files, Exists
<1>2. CASE TouchCommand(t) \/ JobWrites(t) \/ JobSucceeds(t)
  <2>1. /\ u \in whole' <=> u \in whole
        /\ u \in vouched' <=> u \in vouched
    BY <1>2 DEF TouchCommand, JobWrites, JobSucceeds
  <2>2. u \in File
    BY DEF File
  <2>. QED  BY <2>1, <2>2, ActsKeepRun, MovesDisk
<1>. QED  BY <1>1, <1>2 DEF Acts, DependencyFailed, UpToDate, PutAside, RunCommand,
                            PrintCommand, JobFails, Finish

Half(t) == t \in Exists \ (whole \cup vouched)

\* What is known of a half-written file: its recipe may fail, and its command
\* is forgotten, or about to be.
Forgotten(t) ==
    IF Off \/ make.mode = "-n" THEN saved[t].cmd = 0
    ELSE make.mem[t].cmd = 0 /\ (saved[t].cmd = 0 \/ Flagged)
HalfInv(t) ==
    Half(t) /\ State(t) \notin {"running", "writing", "error"} => t \in MayFail /\ Forgotten(t)

HalvesForgotten == \A t \in Target : HalfInv(t)

HalfHypothesis == FailuresShow /\ AloneIsPlain /\ CommandsCount

\* A command that is forgotten differs from the one of the rule.
LEMMA ForgottenDiffers ==
  ASSUME TypeOK, CommandsCount, NEW t \in Target
  PROVE  Replaces(t, 0)
<1>1. Recipe[t][rule[t]] \in Seq(Cmd_line) /\ Len(Recipe[t][rule[t]]) > 0 /\ rule[t] \in DOMAIN Recipe[t]
  BY RecipeFacts DEF TypeOK
<1>2. Compared(Recipe[t][rule[t]]) /= {}
  BY <1>1 DEF CommandsCount
<1>3. Len(<<>>) /= Len(Recipe[t][rule[t]])
  BY <1>1, EmptySeq
<1>. QED  BY <1>2, <1>3 DEF Replaces, Differ

\* A half-written file is neither taken for up to date nor put aside.
LEMMA HalfIsMade ==
  ASSUME TypeOK, RunInv, HalfHypothesis, NEW t \in Target, HalfInv(t), Half(t), Ready(t)
  PROVE  NeedsBuild(t) /\ ~PutAside(t)
<1>1. State(t) \in {"none", "queued"} /\ make.phase = "on" /\ ~Off
  BY ReadyFacts DEF Off
<1>2. t \in MayFail /\ Forgotten(t)
  BY <1>1 DEF HalfInv
<1>3. State(t) = "none" => make.mem[t].cmd = 0 /\ t \notin make.held
  BY <1>1, <1>2, ReadyFacts DEF Forgotten
<1>4. State(t) /= "queued"
  <2>1. State(t) = "queued" => make.mode = "run" /\ make.mem[t].cmd = rule[t] /\ rule[t] /= 0
    BY RecipeFacts DEF RunInv, TargetInv, StateInv
  <2>. QED  BY <1>1, <1>2, <2>1 DEF Forgotten
<1>5. NeedsBuild(t)
  BY <1>1, <1>3, <1>4, ForgottenDiffers DEF NeedsBuild, CommandDiffers, HalfHypothesis
<1>6. ~PutAside(t)
  BY <1>2 DEF PutAside, MustWait, HalfHypothesis, AloneIsPlain
<1>. QED  BY <1>5, <1>6

LEMMA ActsKeepHalf ==
  ASSUME TypeOK, RunInv, HalfHypothesis, NEW t \in Target, Acts(t), \A u \in Target : HalfInv(u)
  PROVE  \A u \in Target : HalfInv(u)'
<1>1. /\ Moves(t) /\ ~Off /\ ~Off' /\ make'.mode = make.mode /\ saved' = saved
      /\ Flagged => Flagged'
  BY ActsKeepRun DEF Moves, Off, Flagged
<1>2. ASSUME NEW u \in Target, u /= t PROVE HalfInv(u)'
  <2>1. HalfInv(u) /\ (Half(u)' <=> Half(u))
    BY <1>2, ActsFiles DEF Half
  <2>2. make'.mem[u] = make.mem[u] /\ State(u)' = State(u)
    BY <1>1, <1>2 DEF Moves, State
  <2>. QED  BY <1>1, <2>1, <2>2 DEF HalfInv, Forgotten
<1>3. HalfInv(t)'
  <2>1. CASE DependencyFailed(t)
    <3>1. Half(t)' <=> Half(t)
      BY <2>1 DEF DependencyFailed, files, Half, Exists
    <3>2. make'.mem[t] = make.mem[t] /\ State(t) \in {"none", "queued"}
      BY <2>1, DependencyFailedKeeps DEF DependencyFailed, MayConsider, State
    <3>. QED  BY <1>1, <3>1, <3>2 DEF HalfInv, Forgotten
  <2>2. CASE UpToDate(t) \/ PutAside(t)
    <3>1. ~Half(t)
      BY <2>2, HalfIsMade DEF UpToDate, PutAside
    <3>2. Half(t)' <=> Half(t)
      BY <2>2 DEF UpToDate, PutAside, files, Half, Exists
    <3>. QED  BY <3>1, <3>2 DEF HalfInv
  <2>3. CASE RunCommand(t)
    <3>1. State(t)' = "running"
      <4>1. make'.state = [make.state EXCEPT ![t] = "running"]
        BY <2>3, RunCommandFacts DEF Turns
      <4>2. make.state \in [Target -> Status]
        BY DEF TypeOK, Make
      <4>. QED  BY <4>1, <4>2 DEF State
    <3>. QED  BY <3>1 DEF HalfInv
  <2>4. CASE PrintCommand(t)
    <3>1. make.mode = "-n" /\ State(t) \in {"none", "queued"}
      BY <2>4, ReadyFacts DEF PrintCommand
    <3>2. Half(t)' <=> Half(t)
      BY <2>4 DEF PrintCommand, files, Half, Exists
    <3>. QED  BY <1>1, <3>1, <3>2 DEF HalfInv, Forgotten
  <2>5. CASE TouchCommand(t)
    <3>1. t \in vouched'
      BY <2>5 DEF TouchCommand
    <3>. QED  BY <3>1 DEF HalfInv, Half
  <2>6. CASE JobWrites(t)
    <3>1. State(t)' = "writing"
      BY <2>6, StateFacts DEF JobWrites, Turns, State, TypeOK, Make, Status, Active
    <3>. QED  BY <3>1 DEF HalfInv
  <2>7. CASE JobSucceeds(t)
    <3>1. t \in whole'
      BY <2>7 DEF JobSucceeds
    <3>. QED  BY <3>1 DEF HalfInv, Half
  <2>8. CASE JobFails(t)
    <3>1. State(t)' = "error"
      BY <2>8, StateFacts DEF JobFails, Turns, State, TypeOK, Make, Status, Active
    <3>. QED  BY <3>1 DEF HalfInv
  <2>9. CASE Finish(t)
    <3>1. /\ State(t) \in {"done", "error"} /\ Busy(t) /\ make' = Finished(t, make)
          /\ Half(t)' <=> Half(t)
      BY <2>9 DEF Finish, State, Busy, Active, files, Half, Exists
    <3>2. CASE State(t) = "done"
      <4>1. make.mode = "run" /\ make.mem[t].cmd = rule[t] /\ rule[t] /= 0
        BY <3>1, BusyFacts, RecipeFacts
      <4>2. ~Half(t)
        BY <1>1, <3>2, <4>1 DEF HalfInv, Forgotten
      <4>. QED  BY <3>1, <4>2 DEF HalfInv
    <3>3. CASE State(t) = "error"
      <4>1. t \in MayFail /\ t \in Reporters
        BY <3>3 DEF RunInv, TargetInv, StateInv, HalfHypothesis, FailuresShow
      <4>2. /\ make'.mem = [make.mem EXCEPT ![t] = Ended(t)]
            /\ make'.command_changed /\ make'.rewrite_statefile = make.rewrite_statefile
        BY <3>1, <4>1, FinishedFacts
      <4>3. make'.mem[t].cmd = 0
        <5>1. Ended(t).cmd = 0
          BY <3>3 DEF Ended
        <5>. QED  BY <4>2, <5>1 DEF TypeOK, Make
      <4>4. Flagged' /\ make.mode = "run"
        BY <3>1, <4>2, BusyFacts DEF Flagged
      <4>. QED  BY <1>1, <4>1, <4>3, <4>4 DEF HalfInv, Forgotten
    <3>. QED  BY <3>1, <3>2, <3>3
  <2>. QED  BY <2>1, <2>2, <2>3, <2>4, <2>5, <2>6, <2>7, <2>8, <2>9 DEF Acts
<1>. QED  BY <1>2, <1>3

LEMMA HalfStep ==
  ASSUME BuildInv, HalfHypothesis, \A t \in Target : HalfInv(t), [Next]_vars
  PROVE  \A t \in Target : HalfInv(t)'
<1>0. TypeOK /\ RunInv
  BY DEF BuildInv
<1>1. CASE UNCHANGED vars
  BY <1>1 DEF vars, HalfInv, Half, Forgotten, State, Off, Flagged, Exists
<1>2. CASE Edit
  <2>. TAKE t \in Target
  <2>1. Off /\ Off' /\ UNCHANGED <<make, saved, whole, vouched>> /\ t \in File
    BY <1>2, EditFacts DEF File
  <2>2. Half(t)' => Half(t)
    BY <1>0, <1>2, <2>1, EditDisk DEF Half, Exists
  <2>. QED  BY <2>1, <2>2 DEF HalfInv, Forgotten, State
<1>3. CASE End
  <2>. TAKE t \in Target
  <2>1. Half(t)' <=> Half(t)
    BY <1>0, <1>3, EndFacts DEF Half, Exists
  <2>2. ~Busy(t) /\ ~Off /\ Off' /\ State(t) \notin {"running", "writing", "error"}
    BY <1>0, <1>3, EndFacts DEF Off, Busy, Active
  <2>3. saved' = IF Flagged /\ make.mode /= "-n" THEN make.mem ELSE saved
    BY <1>0, <1>3, EndFacts
  <2>. QED  BY <2>1, <2>2, <2>3 DEF HalfInv, Forgotten
<1>4. ASSUME NEW how \in Invocations, Start(how.mode, how.jobs, how.keep), NEW t \in Target
      PROVE  HalfInv(t)'
  <2>1. /\ Off /\ ~Off' /\ saved' = saved /\ make'.mem = saved
        /\ disk' = disk /\ whole' = whole /\ vouched' = vouched
    BY <1>0, <1>4, StartFacts DEF Off
  <2>2. Half(t)' <=> Half(t)
    BY <2>1 DEF Half, Exists
  <2>3. State(t) = "none"
    BY <1>0, <2>1, OffStates
  <2>. QED  BY <2>1, <2>2, <2>3 DEF HalfInv, Forgotten
<1>5. ASSUME NEW reaped \in SUBSET Running, Interrupt(reaped), NEW t \in Target
      PROVE  HalfInv(t)'
  <2>1. /\ ~Off /\ Off' /\ UNCHANGED <<whole, vouched>> /\ t \in File
        /\ saved'[t] = IF Writes(reaped) THEN Left(reaped, t) ELSE saved[t]
        /\ disk'[t] > 0 <=> disk[t] > 0 /\ t \notin Killed(reaped) \ Precious
        /\ Busy(t) <=> t \in Killed(reaped) \cup reaped
        /\ t \in reaped => State(t) \in {"done", "error"} /\ t \notin Killed(reaped)
    BY <1>0, <1>5, InterruptFacts DEF Off, File
  <2>2. SUFFICES ASSUME Half(t)' PROVE t \in MayFail /\ saved'[t].cmd = 0
    BY <2>1 DEF HalfInv, Forgotten
  <2>3. Half(t) /\ t \notin Killed(reaped)
    BY <2>1, <2>2 DEF Half, Exists, HalfHypothesis, FailuresShow
  <2>4. CASE t \in reaped
    <3>1. make.mode = "run" /\ make.rewrite_statefile /\ make.mem[t].cmd = rule[t] /\ rule[t] /= 0
      BY <1>0, <2>1, <2>4, BusyFacts, RecipeFacts
    <3>2. State(t) /= "done"
      BY <2>1, <2>3, <3>1 DEF HalfInv, Forgotten
    <3>3. State(t) = "error" /\ t \in MayFail /\ t \in Reporters
      BY <1>0, <2>1, <2>4, <3>2 DEF RunInv, TargetInv, StateInv, HalfHypothesis, FailuresShow
    <3>4. Finished(t, make).command_changed
      BY <1>0, <3>3, FinishedFacts
    <3>5. Writes(reaped)
      BY <2>4, <3>1, <3>4 DEF Writes
    <3>6. Left(reaped, t) = Ended(t)
      BY <2>3, <2>4 DEF Left
    <3>. QED  BY <2>1, <3>3, <3>5, <3>6 DEF Ended
  <2>5. CASE t \notin reaped
    <3>1. ~Busy(t) /\ State(t) \notin {"running", "writing", "error"}
      BY <2>1, <2>3, <2>5 DEF Busy, Active
    <3>2. t \in MayFail /\ Forgotten(t) /\ Left(reaped, t) = make.mem[t]
      BY <2>3, <2>5, <3>1 DEF HalfInv, Left
    <3>3. Flagged /\ make.mode /= "-n" => Writes(reaped)
      BY DEF Flagged, Writes
    <3>4. Writes(reaped) => make.mode /= "-n"
      BY DEF Writes
    <3>. QED  BY <2>1, <3>2, <3>3, <3>4 DEF Forgotten
  <2>. QED  BY <2>4, <2>5
<1>6. CASE \E t \in Target : Acts(t)
  BY <1>0, <1>6, ActsKeepHalf
<1>. QED  BY <1>1, <1>2, <1>3, <1>4, <1>5, <1>6, NextCases

\* A file that a failing or interrupted recipe left half-written is never
\* trusted by the next make, for any makefile whose recipes report what they
\* read when they fail, keep no half-written file, and are compared; and whose
\* targets that are made alone do not fail (execute_serial(), main.cc).
THEOREM NoHalfIsTrusted ==
  ASSUME HalfHypothesis
  PROVE  Spec => []NoTrustedHalf
<1>1. Init => HalvesForgotten
  BY InitFacts DEF HalvesForgotten, HalfInv, Half
<1>2. BuildInv /\ HalvesForgotten /\ [Next]_vars => HalvesForgotten'
  BY HalfStep DEF HalvesForgotten
<1>3. BuildInv /\ HalvesForgotten => NoTrustedHalf
  <2>. SUFFICES ASSUME BuildInv, HalvesForgotten, Off, NEW t \in Target, Half(t)
                PROVE  saved[t].cmd /= rule[t]
    BY DEF NoTrustedHalf, Half, Off
  <2>1. State(t) = "none" /\ rule[t] /= 0
    BY OffStates, RecipeFacts DEF BuildInv
  <2>. QED  BY <2>1 DEF HalvesForgotten, HalfInv, Forgotten
<1>. QED  BY <1>1, <1>2, <1>3, BuildInvariant, PTL DEF Spec

-----------------------------------------------------------------------------
(* What make -n says                                                        *)

DryRunHypothesis == AloneIsPlain /\ Alone \cap Precious = {}

\* A target that is made alone, if it is there, was made by its only rule.
AloneInv(t) ==
    t \in Alone /\ disk[t] > 0 /\ ~Busy(t) =>
        ~Replaces(t, IF Off \/ make.mode = "-n" THEN saved[t].cmd ELSE make.mem[t].cmd)
\* A target is put aside because it is stale.
QueuedInv(t) == State(t) = "queued" => Stale(t)

\* The targets D are made: is t, of which r is known?
Plan(r, D, t) ==
    \/ r.autos \ Exists /= {} \/ Replaces(t, r.cmd)
    \/ Deps[t] \cap D /= {}
    \/ \E d \in (Deps[t] \ D) \cup r.autos : OutOfDate(disk[t], disk[d])
    \/ Deps[t] \cup r.autos = {} /\ OutOfDate(disk[t], 0)

\* What a make -n has said up to now, what it said in the end, and what the
\* next make did of it.
Saying ==
    /\ make.did \subseteq Wanted
    /\ \A t \in Wanted : State(t) = "ok" => (t \in make.did <=> Plan(saved[t], make.did, t))
Said == foretold \subseteq Wanted /\ \A t \in Wanted : t \in foretold <=> Plan(saved[t], foretold, t)
Following ==
    /\ make.did \subseteq foretold /\ foretold \subseteq Wanted
    /\ \A t \in Wanted :
         /\ State(t) = "none" => (t \in foretold <=> Plan(make.mem[t], foretold, t))
         /\ State(t) = "queued" => t \in foretold
         /\ State(t) = "ok" => (t \in foretold <=> t \in make.did)
PlanInv ==
    /\ ~Off /\ make.mode = "-n" => Saying
    /\ foretold /= NoPlan => /\ Off /\ make.mode = "-n" => Said
                             /\ ~Off /\ make.mode = "run" => Following
                             /\ Off /\ make.mode = "run" => make.did = foretold

DryRunInv == PlanInv /\ \A t \in Target : AloneInv(t) /\ QueuedInv(t)

LEMMA OutOfDateKept ==
  ASSUME TypeOK, NEW t \in Target, Moves(t), NEW f \in File, NEW g \in File, f /= t, g /= t
  PROVE  OutOfDate(disk'[f], disk'[g]) <=> OutOfDate(disk[f], disk[g])
<1>1. disk[f] \in Nat /\ disk[g] \in Nat /\ disk'[f] \in Nat /\ disk'[g] \in Nat
  BY MovesDisk, FileIsFinite DEF TypeOK, DiskOK
<1>2. /\ disk'[f] > 0 <=> disk[f] > 0
      /\ disk'[g] > 0 <=> disk[g] > 0
      /\ disk'[f] < disk'[g] <=> disk[f] < disk[g]
  BY MovesDisk DEF Exists
<1>. QED  BY <1>1, <1>2 DEF OutOfDate

LEMMA AbsentIsStale ==
  ASSUME TypeOK, RunInv, NEW t \in Target, make.mode = "run", ~(disk[t] > 0)
  PROVE  Stale(t)
BY NotStale DEF RunInv, ModeInv

\* Deps[t] and what is known of t are files.
LEMMA DependenciesAreFiles ==
  ASSUME TypeOK, NEW t \in Target
  PROVE  /\ t \in File /\ t \notin Source /\ Deps[t] \subseteq File
         /\ make.mem[t].autos \subseteq Source /\ saved[t].autos \subseteq Source
         /\ Source \subseteq File
         /\ \A f \in File : disk[f] \in Nat /\ disk[f] < FileMaxTime /\ (f \in Exists <=> disk[f] > 0)
<1>1. /\ t \in File /\ t \notin Source /\ Deps[t] \subseteq File
      /\ make.mem[t].autos \subseteq Source /\ saved[t].autos \subseteq Source
      /\ Source \subseteq File
  BY MakefileAssumption DEF TypeOK, Make, Record, File
<1>2. \A f \in File : disk[f] \in Nat /\ disk[f] < FileMaxTime
  BY FileIsFinite DEF TypeOK, DiskOK, FileMaxTime
<1>. QED  BY <1>1, <1>2 DEF Exists

LEMMA ActsKeepAlone ==
  ASSUME TypeOK, RunInv, DryRunHypothesis, NEW t \in Target, Acts(t),
         NEW u \in Target, AloneInv(u)
  PROVE  AloneInv(u)'
<1>1. /\ Moves(t) /\ ~Off /\ ~Off' /\ make'.mode = make.mode /\ saved' = saved /\ rule' = rule
      /\ \A c : Replaces(u, c)' <=> Replaces(u, c)
  BY ActsKeepRun DEF Moves, Off, Replaces
<1>2. CASE u /= t
  <2>1. disk'[u] > 0 <=> disk[u] > 0
    BY <1>2, ActsFiles, DependenciesAreFiles DEF Exists
  <2>2. make'.mem[u] = make.mem[u] /\ (Busy(u)' <=> Busy(u))
    BY <1>1, <1>2 DEF Moves, Busy, State
  <2>3. Replaces(u, IF Off \/ make.mode = "-n" THEN saved[u].cmd ELSE make.mem[u].cmd)'
          <=> Replaces(u, IF make.mode = "-n" THEN saved[u].cmd ELSE make.mem[u].cmd)
    BY <1>1, <2>2 DEF Replaces
  <2>. QED  BY <1>1, <2>1, <2>2, <2>3 DEF AloneInv
<1>3. CASE u = t /\ make.mode = "-n"
  <2>1. ~Busy(t)
    BY <1>3 DEF RunInv, TargetInv, StateInv
  <2>2. disk' = disk
    <3>1. State(t) \notin {"running", "writing"}
      BY <2>1 DEF Busy, Active
    <3>. QED  BY <1>3, <3>1 DEF Acts, DependencyFailed, UpToDate, PutAside, RunCommand, PrintCommand,
                TouchCommand, JobWrites, JobSucceeds, JobFails, Finish, State, files
  <2>3. Replaces(t, IF Off \/ make.mode = "-n" THEN saved[t].cmd ELSE make.mem[t].cmd)'
          <=> Replaces(t, saved[t].cmd)
    BY <1>1, <1>3 DEF Replaces
  <2>. QED  BY <1>1, <1>3, <2>1, <2>2, <2>3 DEF AloneInv
<1>4. CASE u = t /\ make.mode /= "-n"
  <2>1. SUFFICES ASSUME t \in Alone, disk'[t] > 0, ~Busy(t)'
                 PROVE  ~Replaces(t, make.mem[t].cmd)'
    BY <1>1, <1>4 DEF AloneInv, Replaces
  <2>2. (make'.mem[t].cmd = rule'[t]) => ~Replaces(t, make.mem[t].cmd)'
    BY <1>1, ReplacesNot DEF Replaces
  <2>3. CASE DependencyFailed(t)
    <3>1. make'.mem[t] = make.mem[t] /\ disk' = disk /\ ~Busy(t)
      BY <2>3, DependencyFailedKeeps
         DEF DependencyFailed, MayConsider, files, Busy, Active, State
    <3>2. ~Replaces(t, make.mem[t].cmd)
      BY <1>1, <1>4, <2>1, <3>1 DEF AloneInv
    <3>. QED  BY <1>1, <3>1, <3>2 DEF Replaces
  <2>4. CASE UpToDate(t) \/ PutAside(t) \/ RunCommand(t) \/ PrintCommand(t) \/ TouchCommand(t)
    BY <2>2, <2>4, UpToDateKeeps, PutAsideKeeps, RunCommandKeeps, SimulatedKeeps
  <2>5. CASE JobWrites(t) \/ JobSucceeds(t) \/ JobFails(t)
    <3>1. Busy(t)'
      <4>1. \E s \in Active : make' = [make EXCEPT !.state[t] = s]
        BY <2>5 DEF JobWrites, JobSucceeds, JobFails, Active
      <4>. QED  BY <4>1 DEF Busy, State, TypeOK, Make
    <3>. QED  BY <2>1, <3>1
  <2>6. CASE Finish(t)
    <3>1. State(t) \in {"done", "error"} /\ Busy(t) /\ make' = Finished(t, make)
      BY <2>6 DEF Finish, State, Busy, Active
    <3>2. State(t) = "done"
      BY <2>1, <3>1 DEF DryRunHypothesis, AloneIsPlain, RunInv, TargetInv, StateInv
    <3>3. make'.mem[t] = Ended(t)
      <4>1. make'.mem = [make.mem EXCEPT ![t] = Ended(t)]
        BY <3>1, FinishedFacts
      <4>. QED  BY <4>1 DEF TypeOK, Make
    <3>4. make'.mem[t].cmd = rule'[t]
      BY <1>1, <3>1, <3>2, <3>3, BusyFacts DEF Ended
    <3>. QED  BY <2>2, <3>4
  <2>. QED  BY <2>3, <2>4, <2>5, <2>6 DEF Acts
<1>. QED  BY <1>2, <1>3, <1>4

LEMMA ActsKeepQueued ==
  ASSUME TypeOK, RunInv, DryRunHypothesis, NEW t \in Target, Acts(t), AloneInv(t),
         NEW u \in Target, QueuedInv(u)
  PROVE  QueuedInv(u)'
<1>1. Moves(t)
  BY ActsKeepRun
<1>. SUFFICES ASSUME State(u)' = "queued" PROVE Stale(u)'
  BY DEF QueuedInv
<1>2. CASE u /= t
  <2>1. State(u) = "queued" /\ make'.mem[u] = make.mem[u] /\ (u \in make'.gone <=> u \in make.gone)
    BY <1>1, <1>2 DEF Moves, State
  <2>2. make.faked = {} /\ make'.faked = {} /\ \A d \in Needs(u) : State(d) = "ok"
    <3>1. make.mode = "run" /\ make'.mode = "run" /\ \A d \in Needs(u) : State(d) = "ok"
      BY <1>1, <2>1 DEF RunInv, TargetInv, StateInv, Moves
    <3>. QED  BY <3>1, ActsKeepRun DEF RunInv, ModeInv
  <2>3. t \notin Deps[u] \cup make.mem[u].autos /\ Deps[u] \cup make.mem[u].autos \subseteq File
    BY <1>1, <2>2, DependenciesAreFiles, MakefileAssumption DEF Needs, Moves
  <2>4. \A d \in Deps[u] \cup make.mem[u].autos :
           OutOfDate(disk'[u], disk'[d]) <=> OutOfDate(disk[u], disk[d])
    BY <1>1, <1>2, <2>3, OutOfDateKept, DependenciesAreFiles
  <2>5. OutOfDate(disk'[u], 0) <=> OutOfDate(disk[u], 0)
    <3>1. disk'[u] \in Nat /\ disk[u] \in Nat /\ (disk'[u] > 0 <=> disk[u] > 0)
      BY <1>1, <1>2, MovesDisk, DependenciesAreFiles, FileIsFinite DEF Exists, DiskOK
    <3>. QED  BY <3>1 DEF OutOfDate
  <2>6. Vanished(u)' = Vanished(u)
    <3>1. \A f \in make.mem[u].autos : f \in Exists' <=> f \in Exists
      BY <1>1, <2>3, MovesDisk
    <3>. QED  BY <2>1, <3>1 DEF Vanished
  <2>7. Stale(u)
    BY <2>1 DEF QueuedInv
  <2>8. \A f \in File : Time(f) = disk[f] /\ Time(f)' = disk'[f]
    BY <2>2 DEF Time
  <2>9. u \in File
    BY DependenciesAreFiles
  <2>10. \/ u \in make.gone \/ Vanished(u) /= {}
         \/ \E d \in Deps[u] \cup make.mem[u].autos : OutOfDate(disk[u], disk[d])
         \/ Deps[u] \cup make.mem[u].autos = {} /\ OutOfDate(disk[u], 0)
    BY <2>3, <2>7, <2>8, <2>9 DEF Stale
  <2>11. \/ u \in make'.gone \/ Vanished(u)' /= {}
         \/ \E d \in Deps[u] \cup make'.mem[u].autos : OutOfDate(disk'[u], disk'[d])
         \/ Deps[u] \cup make'.mem[u].autos = {} /\ OutOfDate(disk'[u], 0)
    BY <2>1, <2>4, <2>5, <2>6, <2>10
  <2>. QED  BY <2>1, <2>3, <2>8, <2>9, <2>11 DEF Stale
<1>3. CASE u = t
  <2>1. PutAside(t)
    <3>1. ~DependencyFailed(t) /\ ~JobWrites(t) /\ ~JobSucceeds(t) /\ ~JobFails(t)
      <4>1. ASSUME NEW s \in Status, make' = [make EXCEPT !.state[t] = s] PROVE s = "queued"
        BY <1>3, <4>1 DEF State, TypeOK, Make
      <4>. QED  BY <4>1 DEF DependencyFailed, JobWrites, JobSucceeds, JobFails, Status, Active
    <3>2. ~UpToDate(t) /\ ~RunCommand(t) /\ ~PrintCommand(t) /\ ~TouchCommand(t)
      <4>1. ASSUME NEW s, NEW r, Turns(t, s, r) PROVE s = "queued"
        BY <1>3, <4>1 DEF Turns, State, TypeOK, Make
      <4>. QED  BY <4>1, UpToDateFacts, RunCommandFacts, SimulatedFacts
    <3>3. ~Finish(t)
      <4>1. SUFFICES ASSUME Finish(t) PROVE FALSE
        OBVIOUS
      <4>2. make'.state = [make.state EXCEPT ![t] = IF State(t) = "done" THEN "ok" ELSE "failed"]
        BY <4>1, FinishedFacts DEF Finish
      <4>. QED  BY <1>3, <4>2 DEF State, TypeOK, Make
    <3>. QED  BY <3>1, <3>2, <3>3 DEF Acts
  <2>2. /\ Ready(t) /\ NeedsBuild(t) /\ make.mode = "run" /\ t \in Alone /\ disk' = disk
    BY <2>1 DEF PutAside, MustWait, files
  <2>3. /\ make'.mem[t] = Looked(t) /\ make'.gone = Checked(t).gone /\ make'.faked = make.faked
    <3>1. make.mem \in [Target -> Record]
      BY DEF TypeOK, Make
    <3>. QED  BY <2>1, <3>1, PutAsideFacts DEF Turns, Lists
  <2>4. Stale(t)
    <3>1. SUFFICES ASSUME ~Stale(t) PROVE FALSE
      OBVIOUS
    <3>2. disk[t] > 0 /\ CommandDiffers(t)
      BY <2>2, <3>1, AbsentIsStale DEF NeedsBuild
    <3>3. ~Busy(t) /\ ~Off
      BY <2>2, ReadyFacts DEF Busy, Active, Off
    <3>. QED  BY <2>2, <3>2, <3>3 DEF AloneInv, CommandDiffers
  <2>5. CASE Vanished(t) /= {}
    <3>1. t \in make'.gone
      BY <2>3, <2>5, CheckedFacts
    <3>. QED  BY <1>3, <3>1 DEF Stale
  <2>6. CASE Vanished(t) = {}
    <3>1. Looked(t).autos = make.mem[t].autos \ {}
      <4>1. Looked(t).autos = make.mem[t].autos \ Vanished(t)
        BY <2>2, ReadyFacts
      <4>. QED  BY <2>6, <4>1
    <3>2. make'.mem[t].autos = make.mem[t].autos /\ make'.gone = make.gone /\ make'.faked = make.faked
      BY <2>3, <2>6, <3>1, CheckedFacts
    <3>. QED  BY <1>3, <2>2, <2>4, <2>6, <3>2 DEF Stale, Time, Vanished, Exists
  <2>. QED  BY <2>5, <2>6
<1>. QED  BY <1>2, <1>3

\* If D are the targets that were made, or whose making was printed, t is made
\* just when the plan says so.
LEMMA NeedIsPlan ==
  ASSUME TypeOK, RunInv, NEW t \in Target, Ready(t), State(t) = "none", NEW D,
         \A d \in Deps[t] \cap D : OutOfDate(disk[t], Time(d)),
         \A d \in (Deps[t] \ D) \cup make.mem[t].autos : Time(d) = disk[d],
         Time(t) = disk[t]
  PROVE  NeedsBuild(t) <=> Plan(make.mem[t], D, t)
<1>1. t \notin make.held /\ t \notin make.gone
  BY ReadyFacts
<1>2. NeedsBuild(t) <=> Stale(t) \/ Replaces(t, make.mem[t].cmd)
  BY <1>1 DEF NeedsBuild, CommandDiffers
<1>3. Stale(t) <=> \/ make.mem[t].autos \ Exists /= {}
                   \/ \E d \in Deps[t] \cup make.mem[t].autos : OutOfDate(disk[t], Time(d))
                   \/ Deps[t] \cup make.mem[t].autos = {} /\ OutOfDate(disk[t], 0)
  BY <1>1 DEF Stale, Vanished
<1>4. (\E d \in Deps[t] \cup make.mem[t].autos : OutOfDate(disk[t], Time(d)))
        <=> \/ Deps[t] \cap D /= {}
            \/ \E d \in (Deps[t] \ D) \cup make.mem[t].autos : OutOfDate(disk[t], disk[d])
  <2>1. Deps[t] \cup make.mem[t].autos = (Deps[t] \cap D) \cup ((Deps[t] \ D) \cup make.mem[t].autos)
    OBVIOUS
  <2>. QED  BY <2>1
<1>. QED  BY <1>2, <1>3, <1>4 DEF Plan

\* The same for the next make, which follows the plan as far as it got.
LEMMA NeedIsForetold ==
  ASSUME TypeOK, RunInv, Following, make.mode = "run", NEW t \in Target, Ready(t), State(t) = "none"
  PROVE  NeedsBuild(t) <=> t \in foretold
<1>1. make.faked = {} /\ \A f : Time(f) = disk[f]
  BY DEF RunInv, ModeInv, Time
<1>2. t \notin make.did /\ t \in Wanted /\ t \in File
  BY ReadyFacts, DependenciesAreFiles
<1>3. ASSUME NEW d \in Deps[t] \cap foretold PROVE OutOfDate(disk[t], Time(d))
  <2>1. d \in Wanted /\ d \in Target /\ State(d) = "ok"
    BY ReadyFacts DEF Following, Wanted, Needs
  <2>2. d \in make.did
    BY <2>1 DEF Following
  <2>3. disk[t] < disk[d]
    BY <1>2, <2>1, <2>2 DEF RunInv, TargetInv, NewerInv
  <2>. QED  BY <1>1, <2>3 DEF OutOfDate
<1>4. NeedsBuild(t) <=> Plan(make.mem[t], foretold, t)
  BY <1>1, <1>3, NeedIsPlan
<1>. QED  BY <1>2, <1>4 DEF Following

\* A plan stays what it is when a target of it is made.
LEMMA PlanKept ==
  ASSUME TypeOK, NEW t \in Target, Moves(t), NEW u \in Target, u /= t,
         disk' = disk \/ t \in foretold
  PROVE  Plan(make.mem[u], foretold, u)' <=> Plan(make.mem[u], foretold, u)
<1>1. make'.mem[u] = make.mem[u] /\ foretold' = foretold /\ rule' = rule
  BY DEF Moves
<1>. DEFINE A == make.mem[u].autos
            O == (Deps[u] \ foretold) \cup A
<1>2. A \subseteq Source /\ u \in File /\ t \notin Source /\ t \in File /\ O \subseteq File
  BY DependenciesAreFiles
<1>3. A \ Exists' /= {} <=> A \ Exists /= {}
  BY <1>2, MovesDisk, DependenciesAreFiles
<1>4. \A d \in O : OutOfDate(disk'[u], disk'[d]) <=> OutOfDate(disk[u], disk[d])
  <2>1. CASE disk' = disk
    BY <2>1
  <2>2. CASE t \in foretold
    <3>1. \A d \in O : d /= t /\ d \in File
      BY <1>2, <2>2
    <3>. QED  BY <1>2, <3>1, OutOfDateKept
  <2>. QED  BY <2>1, <2>2
<1>5. OutOfDate(disk'[u], 0) <=> OutOfDate(disk[u], 0)
  <2>1. disk'[u] \in Nat /\ disk[u] \in Nat /\ (disk'[u] > 0 <=> disk[u] > 0)
    BY MovesDisk, DependenciesAreFiles, FileIsFinite DEF Exists, DiskOK
  <2>. QED  BY <2>1 DEF OutOfDate
<1>6. Replaces(u, make.mem[u].cmd)' <=> Replaces(u, make.mem[u].cmd)
  BY <1>1 DEF Replaces
<1>7. Plan(make.mem[u], foretold, u)
        <=> \/ A \ Exists /= {} \/ Replaces(u, make.mem[u].cmd) \/ Deps[u] \cap foretold /= {}
            \/ \E d \in O : OutOfDate(disk[u], disk[d])
            \/ Deps[u] \cup A = {} /\ OutOfDate(disk[u], 0)
  BY DEF Plan
<1>8. Plan(make.mem[u], foretold, u)'
        <=> \/ A \ Exists' /= {} \/ Replaces(u, make.mem[u].cmd)' \/ Deps[u] \cap foretold /= {}
            \/ \E d \in O : OutOfDate(disk'[u], disk'[d])
            \/ Deps[u] \cup A = {} /\ OutOfDate(disk'[u], 0)
  BY <1>1 DEF Plan
<1>. HIDE DEF A, O
<1>. QED  BY <1>3, <1>4, <1>5, <1>6, <1>7, <1>8

\* The state that a step about t leaves t in.
LEMMA StateAfter ==
  ASSUME TypeOK, NEW t \in Target
  PROVE  /\ DependencyFailed(t) => State(t)' = "failed" /\ make'.did = make.did
         /\ UpToDate(t) => State(t)' = "ok" /\ make'.did = make.did
         /\ PutAside(t) => State(t)' = "queued" /\ make'.did = make.did
         /\ RunCommand(t) => State(t)' = "running" /\ make'.did = make.did \cup {t}
         /\ PrintCommand(t) \/ TouchCommand(t) => State(t)' = "ok" /\ make'.did = make.did \cup {t}
         /\ JobWrites(t) \/ JobSucceeds(t) \/ JobFails(t) =>
               State(t)' \in Active /\ make'.did = make.did /\ Busy(t)
         /\ Finish(t) => /\ State(t)' \in {"ok", "failed"} /\ make'.did = make.did /\ Busy(t)
                         /\ State(t)' = "ok" <=> State(t) = "done"
<1>0. make.state \in [Target -> Status]
  BY DEF TypeOK, Make
<1>1. ASSUME NEW s, NEW r, Turns(t, s, r) PROVE State(t)' = s
  BY <1>0, <1>1 DEF Turns, State
<1>2. DependencyFailed(t) => State(t)' = "failed" /\ make'.did = make.did
  <2>1. DependencyFailed(t) => make' = [make EXCEPT !.state[t] = "failed"]
    BY DEF DependencyFailed
  <2>. QED  BY <1>1, <2>1, StateFacts DEF Status, Lists
<1>3. JobWrites(t) \/ JobSucceeds(t) \/ JobFails(t) =>
         State(t)' \in Active /\ make'.did = make.did /\ Busy(t)
  <2>1. ASSUME JobWrites(t) \/ JobSucceeds(t) \/ JobFails(t)
        PROVE  Busy(t) /\ \E s \in Active : make' = [make EXCEPT !.state[t] = s]
    BY <2>1 DEF JobWrites, JobSucceeds, JobFails, Active, Busy, State
  <2>2. ASSUME NEW s \in Active, make' = [make EXCEPT !.state[t] = s]
        PROVE  State(t)' \in Active /\ make'.did = make.did
    BY <1>1, <2>2, StateFacts DEF Status, Lists
  <2>. QED  BY <2>1, <2>2
<1>4. UpToDate(t) => State(t)' = "ok" /\ make'.did = make.did
  BY <1>1, UpToDateFacts DEF Lists
<1>5. PutAside(t) => State(t)' = "queued" /\ make'.did = make.did
  BY <1>1, PutAsideFacts DEF Lists
<1>6. RunCommand(t) => State(t)' = "running" /\ make'.did = make.did \cup {t}
  BY <1>1, RunCommandFacts DEF Lists
<1>7. PrintCommand(t) \/ TouchCommand(t) => State(t)' = "ok" /\ make'.did = make.did \cup {t}
  BY <1>1, SimulatedFacts DEF Lists
<1>8. Finish(t) => /\ State(t)' \in {"ok", "failed"} /\ make'.did = make.did /\ Busy(t)
                   /\ State(t)' = "ok" <=> State(t) = "done"
  <2>1. ASSUME Finish(t)
        PROVE  /\ make'.state = [make.state EXCEPT ![t] = IF State(t) = "done" THEN "ok" ELSE "failed"]
               /\ make'.did = make.did /\ State(t) \in {"done", "error"}
    BY <2>1, FinishedFacts DEF Finish, State
  <2>. QED  BY <1>0, <2>1 DEF State, Busy, Active
<1>. QED  BY <1>2, <1>3, <1>4, <1>5, <1>6, <1>7, <1>8

LEMMA ActsFollow ==
  ASSUME TypeOK, RunInv, Following, make.mode = "run", NEW t \in Target, Acts(t), QueuedInv(t)
  PROVE  Following'
<1>1. Moves(t) /\ foretold' = foretold /\ foretold \subseteq Wanted /\ Wanted \subseteq Target
  BY ActsKeepRun DEF Moves, Following, Wanted
<1>2. ASSUME Ready(t)
      PROVE  /\ t \in Wanted /\ t \notin make.did /\ State(t) \in {"none", "queued"}
             /\ NeedsBuild(t) <=> t \in foretold
  <2>1. t \in Wanted /\ t \notin make.did /\ State(t) \in {"none", "queued"}
    BY <1>2, ReadyFacts
  <2>2. CASE State(t) = "none"
    BY <1>2, <2>1, <2>2, NeedIsForetold
  <2>3. CASE State(t) = "queued"
    BY <2>1, <2>3 DEF QueuedInv, NeedsBuild, Following
  <2>. QED  BY <2>1, <2>2, <2>3
<1>3. Busy(t) => t \in make.did /\ t \in foretold
  BY BusyFacts DEF Following
<1>4. /\ make'.did \subseteq foretold /\ (disk' = disk \/ t \in foretold)
      /\ State(t)' /= "none" /\ (State(t)' = "queued" => t \in foretold)
      /\ State(t)' = "ok" => (t \in foretold <=> t \in make'.did)
  <2>0. make.did \subseteq foretold
    BY DEF Following
  <2>1. CASE DependencyFailed(t)
    BY <2>0, <2>1, StateAfter DEF DependencyFailed, files
  <2>2. CASE UpToDate(t)
    BY <1>2, <2>0, <2>2, StateAfter DEF UpToDate, files
  <2>3. CASE PutAside(t)
    BY <1>2, <2>0, <2>3, StateAfter DEF PutAside, files
  <2>4. CASE RunCommand(t)
    BY <1>2, <2>0, <2>4, StateAfter DEF RunCommand, files
  <2>5. CASE JobWrites(t) \/ JobSucceeds(t) \/ JobFails(t)
    BY <1>3, <2>0, <2>5, StateAfter DEF Active
  <2>6. CASE Finish(t)
    BY <1>3, <2>0, <2>6, StateAfter
  <2>7. ~PrintCommand(t) /\ ~TouchCommand(t)
    BY DEF PrintCommand, TouchCommand
  <2>. QED  BY <2>1, <2>2, <2>3, <2>4, <2>5, <2>6, <2>7 DEF Acts
<1>5. ASSUME NEW u \in Wanted
      PROVE  /\ State(u)' = "none" => (u \in foretold <=> Plan(make.mem[u], foretold, u)')
             /\ State(u)' = "queued" => u \in foretold
             /\ State(u)' = "ok" => (u \in foretold <=> u \in make'.did)
  <2>1. CASE u = t
    BY <1>4, <2>1
  <2>2. CASE u /= t
    <3>1. u \in Target /\ State(u)' = State(u) /\ (u \in make'.did <=> u \in make.did)
      BY <1>1, <2>2 DEF Moves, State
    <3>2. Plan(make.mem[u], foretold, u)' <=> Plan(make.mem[u], foretold, u)
      BY <1>1, <1>4, <2>2, <3>1, PlanKept
    <3>. QED  BY <3>1, <3>2 DEF Following
  <2>. QED  BY <2>1, <2>2
<1>6. Wanted' = Wanted
  BY DEF Wanted
<1>. QED  BY <1>1, <1>4, <1>5, <1>6 DEF Following

\* make -n says of a target what make would do, if it does what was said.
LEMMA ActsSay ==
  ASSUME TypeOK, RunInv, Saying, make.mode = "-n", NEW t \in Target, Acts(t)
  PROVE  Saying'
<1>1. /\ Moves(t) /\ Wanted \subseteq Target /\ Wanted' = Wanted /\ saved' = saved /\ rule' = rule
      /\ make.faked = make.did /\ make.did \subseteq Target
  BY ActsKeepRun DEF Moves, Wanted, RunInv, ModeInv, TypeOK, Make
<1>2. UpToDate(t) \/ PrintCommand(t)
  <2>1. ~DependencyFailed(t) /\ ~Busy(t)
    BY DEF DependencyFailed, RunInv, TargetInv, StateInv, State
  <2>. QED  BY <2>1, StateAfter DEF Acts, PutAside, RunCommand, TouchCommand
<1>3. Ready(t) /\ disk' = disk /\ State(t)' = "ok"
  BY <1>2, StateAfter DEF UpToDate, PrintCommand, files
<1>4. /\ State(t) = "none" /\ t \notin make.did /\ t \in Wanted /\ make.mem[t] = saved[t]
      /\ t \notin Deps[t]
  BY <1>3, ReadyFacts DEF RunInv, TargetInv, StateInv
<1>5. NeedsBuild(t) <=> Plan(saved[t], make.did, t)
  <2>1. \A f \in File : f \notin make.did => Time(f) = disk[f]
    BY <1>1 DEF Time
  <2>2. \A d \in make.did : Time(d) = FileMaxTime
    BY <1>1 DEF Time
  <2>3. \A d \in Deps[t] \cap make.did : OutOfDate(disk[t], Time(d))
    BY <2>2, DependenciesAreFiles DEF OutOfDate
  <2>4. \A d \in (Deps[t] \ make.did) \cup make.mem[t].autos : Time(d) = disk[d]
    <3>1. make.mem[t].autos \cap make.did = {}
      BY <1>1, DependenciesAreFiles
    <3>. QED  BY <2>1, <3>1, DependenciesAreFiles
  <2>. QED  BY <1>3, <1>4, <2>1, <2>3, <2>4, NeedIsPlan, DependenciesAreFiles
<1>6. /\ make'.did = IF NeedsBuild(t) THEN make.did \cup {t} ELSE make.did
  BY <1>2, StateAfter DEF UpToDate, PrintCommand
<1>7. ASSUME NEW u \in Wanted, t \notin Deps[u]
      PROVE  Plan(saved[u], make.did, u)' <=> Plan(saved[u], make.did, u)
  <2>1. Deps[u] \cap make'.did = Deps[u] \cap make.did /\ Deps[u] \ make'.did = Deps[u] \ make.did
    BY <1>6, <1>7
  <2>2. Replaces(u, saved[u].cmd)' <=> Replaces(u, saved[u].cmd)
    BY <1>1 DEF Replaces
  <2>. QED  BY <1>1, <1>3, <2>1, <2>2 DEF Plan, Exists
<1>8. ASSUME NEW u \in Wanted, State(u)' = "ok"
      PROVE  u \in make'.did <=> Plan(saved[u], make.did, u)'
  <2>1. CASE u = t
    BY <1>4, <1>5, <1>6, <1>7, <2>1
  <2>2. CASE u /= t
    <3>1. u \in Target /\ State(u) = "ok" /\ (u \in make'.did <=> u \in make.did)
      BY <1>1, <1>8, <2>2 DEF Moves, State
    <3>2. t \notin Deps[u]
      <4>1. \A d \in Needs(u) : State(d) = "ok"
        BY <3>1 DEF RunInv, TargetInv, StateInv
      <4>. QED  BY <1>4, <4>1 DEF Needs
    <3>. QED  BY <1>7, <3>1, <3>2 DEF Saying
  <2>. QED  BY <2>1, <2>2
<1>9. make'.did \subseteq Wanted
  BY <1>4, <1>6 DEF Saying
<1>. QED  BY <1>1, <1>8, <1>9 DEF Saying

\* Where no make runs, .make.state says of a target that is made alone what
\* make knew of it.
LEMMA SavedAlone ==
  ASSUME TypeOK, RunInv, DryRunHypothesis, NEW t \in Target, t \in Alone, ~Off, ~Flagged,
         make.mode /= "-n", ~Replaces(t, make.mem[t].cmd)
  PROVE  ~Replaces(t, saved[t].cmd)
<1>1. MemoryInv(t) /\ t \notin MayFail
  BY DEF RunInv, TargetInv, DryRunHypothesis, AloneIsPlain
<1>. QED  BY <1>1 DEF MemoryInv

LEMMA EndKeepsAlone ==
  ASSUME TypeOK, RunInv, DryRunHypothesis, End, NEW t \in Target, AloneInv(t)
  PROVE  AloneInv(t)'
<1>1. /\ ~Off /\ Off' /\ rule' = rule /\ disk' = disk /\ ~Busy(t)
      /\ saved' = IF Flagged /\ make.mode /= "-n" THEN make.mem ELSE saved
  BY EndFacts DEF Off
<1>. SUFFICES ASSUME t \in Alone, disk[t] > 0 PROVE ~Replaces(t, saved'[t].cmd)
  BY <1>1 DEF AloneInv, Replaces
<1>2. CASE make.mode = "-n"
  BY <1>1, <1>2 DEF AloneInv
<1>3. CASE make.mode /= "-n"
  <2>1. ~Replaces(t, make.mem[t].cmd)
    BY <1>1, <1>3 DEF AloneInv
  <2>. QED  BY <1>1, <1>3, <2>1, SavedAlone
<1>. QED  BY <1>2, <1>3

LEMMA InterruptKeepsAlone ==
  ASSUME TypeOK, RunInv, DryRunHypothesis, NEW reaped \in SUBSET Running, Interrupt(reaped),
         NEW t \in Target, AloneInv(t)
  PROVE  AloneInv(t)'
<1>1. /\ ~Off /\ Off' /\ rule' = rule
      /\ saved'[t] = IF Writes(reaped) THEN Left(reaped, t) ELSE saved[t]
      /\ disk'[t] > 0 <=> disk[t] > 0 /\ t \notin Killed(reaped) \ Precious
      /\ Busy(t) <=> t \in Killed(reaped) \cup reaped
      /\ t \in reaped => State(t) \in {"done", "error"} /\ t \notin Killed(reaped)
  BY InterruptFacts, DependenciesAreFiles DEF Off
<1>. SUFFICES ASSUME t \in Alone, disk'[t] > 0 PROVE ~Replaces(t, saved'[t].cmd)
  BY <1>1 DEF AloneInv, Replaces
<1>2. t \notin Killed(reaped) /\ disk[t] > 0
  BY <1>1 DEF DryRunHypothesis
<1>3. Flagged /\ make.mode /= "-n" => Writes(reaped)
  BY DEF Flagged, Writes
<1>4. Writes(reaped) => make.mode /= "-n"
  BY DEF Writes
<1>5. CASE t \in reaped
  <2>1. Busy(t) /\ State(t) = "done"
    BY <1>1, <1>5 DEF DryRunHypothesis, AloneIsPlain, RunInv, TargetInv, StateInv
  <2>2. make.mem[t].cmd = rule[t] /\ make.mode = "run"
    BY <2>1, BusyFacts
  <2>3. ~Replaces(t, make.mem[t].cmd)
    BY <2>2, ReplacesNot
  <2>4. Left(reaped, t).cmd = make.mem[t].cmd
    BY <1>2, <1>5, <2>1 DEF Left, Ended
  <2>. QED  BY <1>1, <1>3, <2>2, <2>3, <2>4, SavedAlone
<1>6. CASE t \notin reaped
  <2>1. ~Busy(t) /\ Left(reaped, t) = make.mem[t]
    BY <1>1, <1>2, <1>6 DEF Left
  <2>2. CASE make.mode = "-n"
    BY <1>1, <1>2, <1>4, <2>1, <2>2 DEF AloneInv
  <2>3. CASE make.mode /= "-n"
    <3>1. ~Replaces(t, make.mem[t].cmd)
      BY <1>1, <1>2, <2>1, <2>3 DEF AloneInv
    <3>. QED  BY <1>1, <1>3, <2>1, <2>3, <3>1, SavedAlone
  <2>. QED  BY <2>2, <2>3
<1>. QED  BY <1>5, <1>6

LEMMA EditKeepsAlone ==
  ASSUME TypeOK, RunInv, DryRunHypothesis, Edit, NEW t \in Target, AloneInv(t)
  PROVE  AloneInv(t)'
<1>1. /\ Off /\ Off' /\ make' = make /\ saved' = saved /\ (disk'[t] > 0 => disk[t] > 0)
      /\ rule'[t] \in DOMAIN Recipe[t] /\ rule[t] \in DOMAIN Recipe[t]
  BY EditFacts, EditDisk DEF TypeOK
<1>2. t \in Alone => rule'[t] = rule[t]
  <2>1. t \in Alone => DOMAIN Recipe[t] = 1..1
    BY RecipeFacts DEF DryRunHypothesis, AloneIsPlain
  <2>. QED  BY <1>1, <2>1
<1>. QED  BY <1>1, <1>2 DEF AloneInv, Replaces, Busy, State

LEMMA StartKeepsAlone ==
  ASSUME TypeOK, RunInv, NEW how \in Invocations, Start(how.mode, how.jobs, how.keep),
         NEW t \in Target, AloneInv(t)
  PROVE  AloneInv(t)'
<1>1. /\ Off /\ ~Off' /\ make'.mem = saved /\ saved' = saved /\ disk' = disk /\ rule' = rule
  BY StartFacts DEF Off
<1>2. ~Busy(t)
  BY <1>1, OffStates DEF Busy, Active
<1>. QED  BY <1>1, <1>2 DEF AloneInv, Replaces

\* Which plan there is, from one make to the next.
LEMMA StartKeepsPlan ==
  ASSUME TypeOK, RunInv, PlanInv, NEW how \in Invocations, Start(how.mode, how.jobs, how.keep)
  PROVE  PlanInv'
<1>1. /\ Off /\ ~Off' /\ make'.mem = saved /\ saved' = saved /\ disk' = disk /\ rule' = rule
      /\ make'.did = {} /\ \A t \in Target : State(t)' = "none"
      /\ foretold' = IF make.mode = "-n" THEN foretold ELSE NoPlan
  BY StartFacts DEF Off, State
<1>2. Wanted' = Wanted /\ Wanted \subseteq Target
  BY DEF Wanted
<1>3. Saying'
  BY <1>1, <1>2 DEF Saying
<1>4. foretold' /= NoPlan => Following'
  <2>1. SUFFICES ASSUME foretold' /= NoPlan PROVE Following'
    OBVIOUS
  <2>2. Said /\ foretold' = foretold
    BY <1>1, <2>1 DEF PlanInv
  <2>3. ASSUME NEW t \in Wanted
        PROVE  Plan(make.mem[t], foretold, t)' <=> Plan(saved[t], foretold, t)
    <3>1. Replaces(t, make.mem[t].cmd)' <=> Replaces(t, saved[t].cmd)
      BY <1>1 DEF Replaces
    <3>2. make'.mem[t] = saved[t] /\ Exists' = Exists
      BY <1>1 DEF Exists
    <3>. QED  BY <1>1, <2>2, <3>1, <3>2 DEF Plan
  <2>. QED  BY <1>1, <1>2, <2>2, <2>3 DEF Said, Following
<1>. QED  BY <1>1, <1>3, <1>4 DEF PlanInv

LEMMA EndKeepsPlan ==
  ASSUME TypeOK, RunInv, PlanInv, End
  PROVE  PlanInv'
<1>1. /\ ~Off /\ Off' /\ make'.mode = make.mode /\ make'.did = make.did /\ rule' = rule /\ disk' = disk
      /\ foretold' = IF make.mode = "-n" THEN make.did ELSE IF Failed THEN NoPlan ELSE foretold
      /\ Failed => make.mode = "run"
      /\ ~Failed => \A t \in Wanted : State(t) = "ok"
      /\ saved' = IF Flagged /\ make.mode /= "-n" THEN make.mem ELSE saved
  BY EndFacts DEF Off
<1>2. Wanted' = Wanted
  BY DEF Wanted
<1>3. CASE make.mode = "-n"
  <2>1. Saying /\ foretold' = make.did /\ saved' = saved /\ \A t \in Wanted : State(t) = "ok"
    BY <1>1, <1>3 DEF PlanInv
  <2>2. ASSUME NEW t \in Wanted
        PROVE  Plan(saved[t], foretold, t)' <=> Plan(saved[t], make.did, t)
    <3>1. Replaces(t, saved[t].cmd)' <=> Replaces(t, saved[t].cmd)
      BY <1>1, <2>1 DEF Replaces
    <3>. QED  BY <1>1, <2>1, <3>1 DEF Plan, Exists
  <2>3. Said'
    BY <1>2, <2>1, <2>2 DEF Saying, Said
  <2>. QED  BY <1>1, <1>3, <2>3 DEF PlanInv
<1>4. CASE make.mode = "run"
  <2>1. ASSUME foretold' /= NoPlan PROVE make.did = foretold /\ foretold' = foretold
    <3>1. Following /\ foretold' = foretold /\ \A t \in Wanted : State(t) = "ok"
      BY <1>1, <1>4, <2>1 DEF PlanInv
    <3>. QED  BY <3>1 DEF Following
  <2>. QED  BY <1>1, <1>4, <2>1 DEF PlanInv
<1>5. CASE make.mode \notin {"-n", "run"}
  BY <1>1, <1>5 DEF PlanInv
<1>. QED  BY <1>3, <1>4, <1>5

LEMMA ActsKeepPlan ==
  ASSUME TypeOK, RunInv, PlanInv, NEW t \in Target, Acts(t), QueuedInv(t)
  PROVE  PlanInv'
<1>1. ~Off /\ ~Off' /\ make'.mode = make.mode /\ foretold' = foretold
  BY ActsKeepRun DEF Moves, Off
<1>2. make.mode = "-n" => Saying'
  BY <1>1, ActsSay DEF PlanInv
<1>3. make.mode = "run" /\ foretold /= NoPlan => Following'
  BY <1>1, ActsFollow DEF PlanInv
<1>. QED  BY <1>1, <1>2, <1>3 DEF PlanInv

LEMMA DryRunStep ==
  ASSUME BuildInv, DryRunHypothesis, DryRunInv, [Next]_vars
  PROVE  DryRunInv'
<1>0. TypeOK /\ RunInv /\ PlanInv /\ \A t \in Target : AloneInv(t) /\ QueuedInv(t)
  BY DEF BuildInv, DryRunInv
<1>1. CASE UNCHANGED vars
  <2>1. /\ make' = make /\ saved' = saved /\ disk' = disk /\ rule' = rule /\ foretold' = foretold
        /\ Exists' = Exists /\ Wanted' = Wanted
    BY <1>1 DEF vars, Exists, Wanted
  <2>2. \A t \in Target : AloneInv(t)' /\ QueuedInv(t)'
    BY <1>0, <2>1 DEF AloneInv, QueuedInv, Stale, Vanished, Time, Replaces, Busy, State, Off
  <2>3. PlanInv'
    BY <1>0, <2>1 DEF PlanInv, Saying, Said, Following, Plan, Replaces, State, Off
  <2>. QED  BY <2>2, <2>3 DEF DryRunInv
<1>2. CASE Edit
  <2>1. Off' /\ foretold' = NoPlan /\ \A t \in Target : State(t)' /= "queued"
    BY <1>0, <1>2, EditFacts, OffStates DEF State
  <2>. QED  BY <1>0, <1>2, <2>1, EditKeepsAlone DEF DryRunInv, PlanInv, QueuedInv
<1>3. CASE End
  <2>1. \A t \in Target : State(t)' /= "queued"
    BY <1>0, <1>3, EndFacts DEF State
  <2>. QED  BY <1>0, <1>3, <2>1, EndKeepsAlone, EndKeepsPlan DEF DryRunInv, QueuedInv
<1>4. CASE \E how \in Invocations : Start(how.mode, how.jobs, how.keep)
  <2>1. \A t \in Target : State(t)' /= "queued"
    BY <1>0, <1>4, StartFacts DEF State
  <2>. QED  BY <1>0, <1>4, <2>1, StartKeepsAlone, StartKeepsPlan DEF DryRunInv, QueuedInv
<1>5. CASE \E reaped \in SUBSET Running : Interrupt(reaped)
  <2>1. Off' /\ foretold' = NoPlan /\ \A t \in Target : State(t)' /= "queued"
    BY <1>0, <1>5, InterruptFacts DEF Off, State
  <2>. QED  BY <1>0, <1>5, <2>1, InterruptKeepsAlone DEF DryRunInv, PlanInv, QueuedInv
<1>6. CASE \E t \in Target : Acts(t)
  BY <1>0, <1>6, ActsKeepAlone, ActsKeepQueued, ActsKeepPlan DEF DryRunInv
<1>. QED  BY <1>1, <1>2, <1>3, <1>4, <1>5, <1>6, NextCases

LEMMA DryRunInvariant ==
  ASSUME DryRunHypothesis
  PROVE  Spec => []DryRunInv
<1>1. Init => DryRunInv
  <2>. SUFFICES ASSUME Init PROVE DryRunInv
    OBVIOUS
  <2>1. foretold = NoPlan
    BY DEF Init
  <2>2. PlanInv
    BY <2>1, InitFacts DEF PlanInv
  <2>3. \A t \in Target : ~(disk[t] > 0) /\ State(t) /= "queued"
    BY InitFacts
  <2>. QED  BY <2>2, <2>3 DEF DryRunInv, AloneInv, QueuedInv
<1>2. BuildInv /\ DryRunInv /\ [Next]_vars => DryRunInv'
  BY DryRunStep
<1>. QED  BY <1>1, <1>2, BuildInvariant, PTL DEF Spec

\* What make -n prints is what the next make does, if nothing was edited and it
\* succeeds, and one that fails does a part of it, however many jobs it has;
\* for any makefile whose targets that are made alone have one rule, which does
\* not fail, and do not survive an interrupt (run_command(), update_target()).
THEOREM DryRunIsRight ==
  ASSUME DryRunHypothesis
  PROVE  Spec => []DryRunForetells
<1>1. BuildInv /\ DryRunInv => DryRunForetells
  <2>. SUFFICES ASSUME BuildInv, DryRunInv, foretold /= NoPlan, make.mode = "run"
                PROVE  make.did \subseteq foretold /\ (Off => make.did = foretold)
    BY DEF DryRunForetells, Off
  <2>. QED  BY DEF DryRunInv, PlanInv, Following
<1>. QED  BY <1>1, BuildInvariant, DryRunInvariant, PTL

-----------------------------------------------------------------------------
(* What a build that succeeds leaves behind                                 *)

SettledHypothesis ==
    FailuresShow /\ AloneIsPlain /\ CommandsCount /\ CommandsShow /\ HeadersShow

\* What the next make will know of t, as things are.
Known(t) == IF Off \/ make.mode = "-n" THEN saved[t] ELSE make.mem[t]
SameEffect(t, cmd) == cmd /= 0 /\ Effect(Recipe[t][cmd]) = Effect(Recipe[t][rule[t]])
\* Known as r, t will be made; or what is wrong with it is not its own fault.
Redone(r, t) ==
    \/ ~SameEffect(t, r.cmd)
    \/ \E d \in Deps[t] \cup (r.autos \cap includes[t]) : disk[d] > disk[t]
Excused(t) == t \in vouched \/ \E d \in Needs(t) : d \notin right

\* A target that is wrong will be made, or has an excuse; one that is right is
\* known with all it reads; one that counts as up to date is right, unless
\* make -t vouched for something.
WrongInv(t) == disk[t] > 0 /\ t \notin right /\ ~Busy(t) => Redone(Known(t), t) \/ Excused(t)
RightInv(t) ==
    t \in right => /\ disk[t] > 0
                   /\ ~Busy(t) => /\ includes[t] \subseteq Known(t).autos
                                  /\ Known(t).cmd = 0 \/ SameEffect(t, Known(t).cmd)
OkInv(t) ==
    /\ State(t) = "ok" /\ t \notin right /\ make.mode /= "-n" => \E u \in vouched : State(u) = "ok"
    /\ State(t) = "done" /\ t \notin right => \E d \in Needs(t) : d \notin right
FileInv(t) == WrongInv(t) /\ RightInv(t) /\ OkInv(t)
FilesInv == \A t \in Target : FileInv(t)

LEMMA NotReplacedIsSame ==
  ASSUME TypeOK, CommandsCount, CommandsShow, NEW t \in Target, NEW cmd \in Nat,
         cmd <= rule[t], ~Replaces(t, cmd)
  PROVE  SameEffect(t, cmd)
<1>1. cmd /= 0
  BY ForgottenDiffers
<1>2. cmd \in DOMAIN Recipe[t] /\ rule[t] \in DOMAIN Recipe[t]
  BY <1>1, RecipeFacts DEF TypeOK
<1>3. ~Differ(Recipe[t][cmd], Recipe[t][rule[t]])
  BY <1>1 DEF Replaces
<1>. QED  BY <1>1, <1>2, <1>3 DEF SameEffect, CommandsShow

LEMMA RuleIsSame ==
  ASSUME TypeOK, NEW t \in Target
  PROVE  SameEffect(t, rule[t])
BY RecipeFacts DEF SameEffect

\* What is above a file: the file, what is made from it, what is made from that.
LEMMA AboveFile ==
  ASSUME TypeOK, NEW x \in File
  PROVE  /\ x \in Above({x})
         /\ \A u \in Target : x \in Deps[u] \cup includes[u] => u \in Above({x})
         /\ \A u \in Target : u \in Above({x}) /\ u /= x =>
               x \in Deps[u] \cup includes[u] \/ \E d \in Needs(u) : d \in Above({x})
         /\ \A X : x \notin X /\ (\A f \in X \cap Target : Deps[f] \cup includes[f] \subseteq X)
                      => X \cap Above({x}) = {}
<1>1. /\ {x} \subseteq Above({x}) /\ MadeFrom({x}) \subseteq Above({x})
      /\ \A f \in Above({x}) \ {x} : f \in Target /\ f \in MadeFrom(Above({x}))
      /\ \A X : X \cap {x} = {} /\ (\A f \in X \cap Target : Deps[f] \cup includes[f] \subseteq X)
                  => X \cap Above({x}) = {}
  BY AboveFacts DEF TypeOK
<1>2. \A u \in Target : x \in Deps[u] \cup includes[u] => u \in MadeFrom({x})
  BY DEF MadeFrom
<1>3. ASSUME NEW u \in Target, u \in Above({x}), u /= x
      PROVE  x \in Deps[u] \cup includes[u] \/ \E d \in Needs(u) : d \in Above({x})
  <2>0. u \in Above({x}) \ {x}
    BY <1>3
  <2>1. PICK d \in Deps[u] \cup includes[u] : d \in Above({x})
    <3>1. u \in MadeFrom(Above({x}))
      BY <1>1, <2>0
    <3>. HIDE <1>1
    <3>. QED  BY <3>1 DEF MadeFrom
  <2>2. CASE d = x
    BY <2>2
  <2>3. CASE d /= x
    <3>1. d \in Target /\ d \notin Source
      BY <1>1, <2>1, <2>3, MakefileAssumption
    <3>2. d \notin includes[u]
      BY <3>1 DEF TypeOK
    <3>. QED  BY <2>1, <3>1, <3>2 DEF Needs
  <2>. QED  BY <2>2, <2>3
<1>4. \A X : x \notin X => X \cap {x} = {}
  OBVIOUS
<1>. QED  BY <1>1, <1>2, <1>3, <1>4

\* Which files a step about t makes right or wrong.
LEMMA ActsRight ==
  ASSUME TypeOK, RunInv, NEW t \in Target, Acts(t)
  PROVE  /\ right' \ {t} \subseteq right
         /\ right \subseteq right' \/ right' = right \ Above({t})
         /\ t \in right' \ right => disk' = Written(t)
         /\ \A u \in vouched : u /= t => u \in vouched'
<1>1. CASE UNCHANGED files
  BY <1>1 DEF files
<1>2. CASE TouchCommand(t) \/ JobWrites(t) \/ JobSucceeds(t)
  BY <1>2 DEF TouchCommand, JobWrites, JobSucceeds
<1>. QED  BY <1>1, <1>2 DEF Acts, DependencyFailed, UpToDate, PutAside, RunCommand,
                            PrintCommand, JobFails, Finish

\* Nothing that make has looked at is above what it works on.
LEMMA LookedIsNotAbove ==
  ASSUME TypeOK, RunInv, NEW t \in Target, State(t) /= "ok",
         NEW u \in Target, u /= t, State(u) \notin {"none", "failed"}
  PROVE  u \notin Above({t})
<1>. DEFINE X == Source \cup {f \in Target : f /= t /\ State(f) \notin {"none", "failed"}}
<1>1. t \in File /\ t \notin X
  BY DependenciesAreFiles
<1>2. ASSUME NEW f \in X \cap Target PROVE Deps[f] \cup includes[f] \subseteq X
  <2>1. f \in Target /\ State(f) \notin {"none", "failed"}
    BY <1>2, MakefileAssumption
  <2>2. \A d \in Needs(f) : State(d) = "ok"
    BY <2>1 DEF RunInv, TargetInv, StateInv
  <2>3. Needs(f) \subseteq X
    BY <2>2 DEF Needs
  <2>4. Deps[f] \subseteq Source \cup Needs(f) /\ includes[f] \subseteq Source
    BY <2>1, MakefileAssumption DEF File, Needs, TypeOK
  <2>. QED  BY <2>3, <2>4
<1>3. u \in X
  OBVIOUS
<1>. HIDE DEF X
<1>4. X \cap Above({t}) = {}
  BY <1>1, <1>2, AboveFile
<1>. QED  BY <1>3, <1>4

LEMMA OthersSettled ==
  ASSUME TypeOK, RunInv, FilesInv, NEW t \in Target, Acts(t), NEW u \in Target, u /= t
  PROVE  FileInv(u)'
<1>1. /\ Moves(t) /\ ~Off /\ ~Off' /\ make'.mode = make.mode /\ saved' = saved /\ rule' = rule
      /\ includes' = includes /\ State(t) /= "ok"
      /\ make'.mem[u] = make.mem[u] /\ State(u)' = State(u) /\ (Busy(u)' <=> Busy(u))
  BY ActsKeepRun DEF Moves, Off, State, Busy
<1>2. /\ right' \ {t} \subseteq right
      /\ right \subseteq right' \/ right' = right \ Above({t})
      /\ t \in right' \ right => disk' = Written(t)
      /\ (u \in vouched' <=> u \in vouched) /\ (disk'[u] > 0 <=> disk[u] > 0)
  BY ActsRight, ActsFiles, DependenciesAreFiles DEF Exists
<1>3. Known(u)' = Known(u) /\ Needs(u)' = Needs(u) /\ FileInv(u)
  BY <1>1 DEF Known, Needs, FilesInv
<1>4. ASSUME u \in right, u \notin right'
      PROVE  u \in Above({t}) /\ \E d \in Needs(u) : d \notin right'
  <2>1. u \in Above({t}) /\ right' = right \ Above({t}) /\ t \in Above({t}) /\ t \in File
    BY <1>2, <1>4, DependenciesAreFiles, AboveFile
  <2>2. t \in Deps[u] \cup includes[u] \/ \E d \in Needs(u) : d \in Above({t})
    BY <2>1, AboveFile
  <2>3. t \notin includes[u]
    BY MakefileAssumption DEF TypeOK
  <2>4. t \in Deps[u] => t \in Needs(u)
    BY DEF Needs
  <2>. QED  BY <2>1, <2>2, <2>3, <2>4
<1>5. WrongInv(u)'
  <2>1. SUFFICES ASSUME disk[u] > 0, u \notin right', ~Busy(u)
                 PROVE  Redone(Known(u), u)' \/ Excused(u)'
    BY <1>1, <1>2 DEF WrongInv
  <2>2. CASE u \in right
    BY <1>3, <1>4, <2>1, <2>2 DEF Excused
  <2>3. CASE u \notin right
    <3>1. Redone(Known(u), u) \/ Excused(u)
      BY <1>3, <2>1, <2>3 DEF FileInv, WrongInv
    <3>2. CASE Excused(u)
      <4>1. CASE u \in vouched
        BY <1>2, <4>1 DEF Excused
      <4>2. CASE \E d \in Needs(u) : d \notin right /\ d \notin right'
        BY <1>3, <4>2 DEF Excused
      <4>3. CASE t \in Needs(u) /\ t \notin right /\ t \in right'
        <5>1. disk'[t] > disk'[u] /\ t \in Deps[u]
          BY <1>2, <4>3, WrittenFacts, DependenciesAreFiles DEF TypeOK, Needs
        <5>. QED  BY <5>1 DEF Redone
      <4>. QED  BY <1>2, <3>2, <4>1, <4>2, <4>3 DEF Excused
    <3>3. CASE ~SameEffect(u, Known(u).cmd)
      BY <1>1, <1>3, <3>3 DEF Redone, SameEffect
    <3>4. CASE \E d \in Deps[u] \cup (Known(u).autos \cap includes[u]) : disk[d] > disk[u]
      <4>1. PICK d \in Deps[u] \cup (Known(u).autos \cap includes[u]) : disk[d] > disk[u]
        BY <3>4
      <4>2. d \in File /\ u \in File /\ t \in File
        BY DependenciesAreFiles DEF TypeOK
      <4>3. disk'[d] > disk'[u]
        <5>1. CASE d /= t
          BY <1>1, <4>1, <4>2, <5>1, MovesDisk
        <5>2. CASE d = t
          <6>1. CASE disk' = disk
            BY <4>1, <6>1
          <6>2. CASE disk' = Written(t)
            BY <4>2, <5>2, <6>2, WrittenFacts DEF TypeOK
          <6>. QED  BY <1>1, <6>1, <6>2 DEF Moves
        <5>. QED  BY <5>1, <5>2
      <4>. QED  BY <1>1, <1>3, <4>1, <4>3 DEF Redone
    <3>. QED  BY <3>1, <3>2, <3>3, <3>4 DEF Redone
  <2>. QED  BY <2>2, <2>3
<1>6. RightInv(u)'
  <2>1. u \in right' => u \in right
    BY <1>2
  <2>. QED  BY <1>1, <1>2, <1>3, <2>1 DEF FileInv, RightInv, SameEffect
<1>7. OkInv(u)'
  <2>1. State(u) \in {"ok", "done"} => (u \notin right' => u \notin right)
    BY <1>1, <1>4, LookedIsNotAbove
  <2>2. ASSUME State(u)' = "ok", u \notin right', make'.mode /= "-n"
        PROVE  \E w \in vouched' : State(w)' = "ok"
    <3>1. PICK w \in vouched : State(w) = "ok"
      BY <1>1, <1>3, <2>1, <2>2 DEF FileInv, OkInv
    <3>2. w /= t /\ w \in Target
      BY <1>1, <3>1 DEF TypeOK
    <3>. QED  BY <1>1, <3>1, <3>2, ActsRight DEF Moves, State
  <2>3. ASSUME State(u)' = "done", u \notin right'
        PROVE  \E d \in Needs(u)' : d \notin right'
    <3>1. PICK d \in Needs(u) : d \notin right
      BY <1>1, <1>3, <2>1, <2>3 DEF FileInv, OkInv
    <3>2. d /= t
      <4>1. State(d) = "ok"
        BY <1>1, <2>3, <3>1 DEF RunInv, TargetInv, StateInv
      <4>. QED  BY <1>1, <4>1
    <3>. QED  BY <1>2, <1>3, <3>1, <3>2
  <2>. QED  BY <2>2, <2>3 DEF OkInv
<1>. QED  BY <1>5, <1>6, <1>7 DEF FileInv

\* A step about t that leaves the files alone.
Still(t) == UNCHANGED files /\ UNCHANGED <<includes, rule, saved>>

\* What is known of t and the state it is in, after a step about it.
LEMMA TurnsFacts ==
  ASSUME TypeOK, NEW t \in Target, NEW s, NEW r, Turns(t, s, r)
  PROVE  make'.mem[t] = r /\ State(t)' = s /\ make'.mode = make.mode
BY DEF TypeOK, Make, Turns, State

\* The steps after which t is neither right nor wrong yet.
LEMMA StartedIsSettled ==
  ASSUME TypeOK, RunInv, NEW t \in Target, FileInv(t), Still(t),
         State(t)' \in {"running", "error"}
  PROVE  FileInv(t)'
<1>1. Busy(t)' /\ State(t)' \notin {"ok", "done"}
  BY DEF Busy, Active
<1>2. disk' = disk /\ right' = right
  BY DEF Still, files
<1>. QED  BY <1>1, <1>2 DEF FileInv, WrongInv, RightInv, OkInv

\* The steps after which the same is known of t.
LEMMA SameIsSettled ==
  ASSUME TypeOK, RunInv, NEW t \in Target, FileInv(t), Still(t), ~Busy(t), ~Busy(t)', ~Off, ~Off',
         make'.mode = make.mode, make'.mem[t] = make.mem[t] \/ make.mode = "-n",
         State(t)' \notin {"ok", "done"} \/ (State(t)' = "ok" /\ make.mode = "-n")
  PROVE  FileInv(t)'
<1>1. Known(t)' = Known(t) /\ Needs(t)' = Needs(t)
  BY DEF Known, Still, Needs
<1>2. disk' = disk /\ right' = right /\ vouched' = vouched /\ includes' = includes /\ rule' = rule
  BY DEF Still, files
<1>3. WrongInv(t)'
  BY <1>1, <1>2 DEF FileInv, WrongInv, Redone, SameEffect, Excused
<1>4. RightInv(t)'
  BY <1>1, <1>2 DEF FileInv, RightInv, SameEffect
<1>5. OkInv(t)'
  BY DEF OkInv
<1>. QED  BY <1>3, <1>4, <1>5 DEF FileInv

\* A target that counts as up to date although it is wrong has a dependency
\* that is wrong, and counts as up to date.
LEMMA OkFromNeeds ==
  ASSUME TypeOK, RunInv, FilesInv, NEW t \in Target, Moves(t), make.mode /= "-n",
         vouched' = vouched, NEW d \in Needs(t), State(d) = "ok", d \notin right
  PROVE  \E u \in vouched' : State(u)' = "ok"
<1>1. d \in Target
  BY DEF Needs
<1>2. PICK u \in vouched : State(u) = "ok"
  BY <1>1 DEF FilesInv, FileInv, OkInv
<1>3. u \in Target /\ u /= t
  BY <1>2 DEF TypeOK, Moves
<1>. QED  BY <1>2, <1>3 DEF Moves, State


\* What make leaves alone as up to date is made by the command of the rule, and
\* is not older than anything it reads.
LEMMA UpToDateIsNotRedone ==
  ASSUME TypeOK, RunInv, SettledHypothesis, NEW t \in Target, UpToDate(t), make.mode /= "-n"
  PROVE  disk[t] > 0 /\ ~Redone(make.mem[t], t) /\ Vanished(t) = {}
<1>1. Ready(t) /\ ~Stale(t) /\ (t \in make.held \/ ~CommandDiffers(t))
  BY DEF UpToDate, NeedsBuild
<1>2. t \notin make.faked
  <2>1. t \notin make.did /\ ~Off
    BY <1>1, ReadyFacts DEF Off
  <2>2. make.faked = {} \/ make.faked = make.did
    BY <2>1 DEF RunInv, ModeInv, TypeOK, Make
  <2>. QED  BY <2>1, <2>2
<1>3. /\ disk[t] > 0 /\ make.mem[t].autos \subseteq Exists
      /\ \A d \in Deps[t] \cup make.mem[t].autos : disk[d] <= disk[t]
  BY <1>1, <1>2, NotStale
<1>4. SameEffect(t, make.mem[t].cmd)
  <2>1. CASE t \in make.held
    <3>1. make.mem[t].cmd = rule[t]
      BY <1>1, <2>1, ReadyFacts DEF RunInv, TargetInv, StateInv
    <3>. QED  BY <3>1, RuleIsSame
  <2>2. CASE t \notin make.held
    <3>1. ~Replaces(t, make.mem[t].cmd)
      BY <1>1, <2>2 DEF CommandDiffers
    <3>2. make.mem[t].cmd \in Nat /\ make.mem[t].cmd <= rule[t]
      BY DEF TypeOK, Make, Record
    <3>. QED  BY <3>1, <3>2, NotReplacedIsSame DEF SettledHypothesis
  <2>. QED  BY <2>1, <2>2
<1>5. \A d \in Deps[t] \cup (make.mem[t].autos \cap includes[t]) : ~(disk[d] > disk[t])
  <2>1. \A d \in Deps[t] \cup make.mem[t].autos : disk[d] \in Nat /\ disk[t] \in Nat
    BY DependenciesAreFiles
  <2>. QED  BY <1>3, <2>1
<1>6. Vanished(t) = {}
  BY <1>1 DEF Stale
<1>. QED  BY <1>3, <1>4, <1>5, <1>6 DEF Redone

LEMMA UpToDateSettled ==
  ASSUME TypeOK, RunInv, FilesInv, SettledHypothesis, NEW t \in Target, UpToDate(t)
  PROVE  FileInv(t)'
<1>1. /\ Acts(t) /\ Still(t) /\ FileInv(t) /\ Moves(t) /\ ~Off /\ ~Off'
  <2>1. Acts(t) /\ FileInv(t) /\ Still(t)
    BY DEF Acts, FilesInv, UpToDate, Still, user, rest
  <2>. QED  BY <2>1, ActsKeepRun DEF Moves, Off
<1>2. /\ State(t)' = "ok" /\ make'.mem[t] = Looked(t) /\ make'.mode = make.mode
      /\ ~Busy(t) /\ ~Busy(t)' /\ Ready(t)
  <2>1. Turns(t, "ok", Looked(t)) /\ Ready(t)
    BY UpToDateFacts DEF UpToDate
  <2>2. State(t) \in {"none", "queued"}
    BY <2>1, ReadyFacts
  <2>. QED  BY <2>1, <2>2, TurnsFacts DEF Busy, Active
<1>3. CASE make.mode = "-n"
  BY <1>1, <1>2, <1>3, SameIsSettled
<1>4. CASE make.mode /= "-n"
  <2>1. disk[t] > 0 /\ ~Redone(make.mem[t], t) /\ Vanished(t) = {} /\ Known(t) = make.mem[t]
    BY <1>1, <1>4, UpToDateIsNotRedone DEF Known
  <2>2. disk' = disk /\ right' = right /\ vouched' = vouched /\ includes' = includes /\ rule' = rule
    BY <1>1 DEF Still, files
  <2>3. t \notin right => Excused(t)
    BY <1>1, <1>2, <2>1 DEF FileInv, WrongInv
  <2>4. WrongInv(t)'
    BY <2>2, <2>3 DEF WrongInv, Excused, Needs
  <2>5. RightInv(t)'
    <3>1. Known(t)' = Looked(t) /\ Looked(t).cmd = rule[t] /\ Looked(t).autos = make.mem[t].autos
      <4>1. Known(t)' = Looked(t)
        BY <1>1, <1>2, <1>4 DEF Known
      <4>2. Looked(t).cmd = rule[t] /\ Looked(t).autos = make.mem[t].autos \ Vanished(t)
        BY <1>2, ReadyFacts
      <4>. QED  BY <2>1, <4>1, <4>2
    <3>2. SameEffect(t, rule[t])' /\ rule'[t] = rule[t]
      BY <2>2, RuleIsSame DEF SameEffect
    <3>3. t \in right => includes[t] \subseteq make.mem[t].autos
      BY <1>1, <1>2, <2>1 DEF FileInv, RightInv
    <3>4. SameEffect(t, Known(t).cmd)'
      BY <2>2, <3>1, RuleIsSame DEF SameEffect
    <3>. QED  BY <2>1, <2>2, <3>1, <3>3, <3>4 DEF RightInv
  <2>6. OkInv(t)'
    <3>1. SUFFICES ASSUME t \notin right PROVE \E u \in vouched' : State(u)' = "ok"
      BY <1>2, <2>2 DEF OkInv
    <3>2. CASE t \in vouched
      BY <1>2, <2>2, <3>2
    <3>3. CASE \E d \in Needs(t) : d \notin right
      <4>1. PICK d \in Needs(t) : d \notin right
        BY <3>3
      <4>2. State(d) = "ok"
        BY <1>2, <4>1, ReadyFacts
      <4>. QED  BY <1>1, <1>4, <2>2, <4>1, <4>2, OkFromNeeds
    <3>. QED  BY <2>3, <3>1, <3>2, <3>3 DEF Excused
  <2>. QED  BY <2>4, <2>5, <2>6 DEF FileInv
<1>. QED  BY <1>3, <1>4

LEMMA PutAsideSettled ==
  ASSUME TypeOK, RunInv, FilesInv, SettledHypothesis, NEW t \in Target, AloneInv(t), PutAside(t)
  PROVE  FileInv(t)'
<1>1. /\ Acts(t) /\ Still(t) /\ FileInv(t) /\ ~Off /\ ~Off' /\ make.mode = "run" /\ t \in Alone
  <2>1. Acts(t) /\ FileInv(t) /\ Still(t) /\ make.mode = "run" /\ t \in Alone
    BY DEF Acts, FilesInv, PutAside, Still, user, rest, MustWait
  <2>. QED  BY <2>1, ActsKeepRun DEF Moves, Off
<1>2. /\ State(t)' = "queued" /\ make'.mem[t] = Looked(t) /\ make'.mode = make.mode
      /\ ~Busy(t) /\ ~Busy(t)' /\ Ready(t) /\ State(t) \in {"none", "queued"}
  <2>1. Turns(t, "queued", Looked(t)) /\ Ready(t)
    BY PutAsideFacts DEF PutAside
  <2>2. State(t) \in {"none", "queued"}
    BY <2>1, ReadyFacts
  <2>. QED  BY <2>1, <2>2, TurnsFacts DEF Busy, Active
<1>3. disk' = disk /\ right' = right /\ vouched' = vouched /\ includes' = includes /\ rule' = rule
  BY <1>1 DEF Still, files
<1>4. Known(t) = make.mem[t] /\ Known(t)' = Looked(t) /\ Looked(t).cmd = rule[t]
  BY <1>1, <1>2, ReadyFacts DEF Known
<1>5. Looked(t).autos \cap includes[t] = make.mem[t].autos \cap includes[t]
  <2>1. includes[t] \subseteq Exists /\ Looked(t).autos = make.mem[t].autos \ Vanished(t)
    BY <1>2, ReadyFacts DEF RunInv, HeaderInv
  <2>. QED  BY <2>1 DEF Vanished
<1>6. disk[t] > 0 => SameEffect(t, make.mem[t].cmd)
  <2>1. disk[t] > 0 => ~Replaces(t, make.mem[t].cmd)
    BY <1>1, <1>2 DEF AloneInv
  <2>2. make.mem[t].cmd \in Nat /\ make.mem[t].cmd <= rule[t]
    BY DEF TypeOK, Make, Record
  <2>. QED  BY <2>1, <2>2, NotReplacedIsSame DEF SettledHypothesis
<1>7. SameEffect(t, Known(t).cmd)'
  BY <1>3, <1>4, RuleIsSame DEF SameEffect
<1>8. WrongInv(t)'
  <2>1. SUFFICES ASSUME disk[t] > 0, t \notin right PROVE Redone(Known(t), t)' \/ Excused(t)'
    BY <1>3 DEF WrongInv
  <2>2. Redone(make.mem[t], t) \/ Excused(t)
    BY <1>1, <1>2, <1>4, <2>1 DEF FileInv, WrongInv
  <2>3. CASE Excused(t)
    BY <1>3, <2>3 DEF Excused, Needs
  <2>4. CASE \E d \in Deps[t] \cup (make.mem[t].autos \cap includes[t]) : disk[d] > disk[t]
    BY <1>3, <1>4, <1>5, <2>4 DEF Redone
  <2>. QED  BY <1>6, <2>1, <2>2, <2>3, <2>4 DEF Redone
<1>9. RightInv(t)'
  BY <1>1, <1>2, <1>3, <1>4, <1>5, <1>7 DEF FileInv, RightInv
<1>10. OkInv(t)'
  BY <1>2 DEF OkInv
<1>. QED  BY <1>8, <1>9, <1>10 DEF FileInv


LEMMA FinishSettled ==
  ASSUME TypeOK, RunInv, FilesInv, SettledHypothesis, NEW t \in Target, Finish(t)
  PROVE  FileInv(t)'
<1>1. /\ Acts(t) /\ Still(t) /\ FileInv(t) /\ Moves(t) /\ ~Off /\ ~Off'
  <2>1. Acts(t) /\ FileInv(t) /\ Still(t)
    BY DEF Acts, FilesInv, Finish, Still, user, rest
  <2>. QED  BY <2>1, ActsKeepRun DEF Moves, Off
<1>2. State(t) \in {"done", "error"} /\ Busy(t) /\ make' = Finished(t, make)
  BY DEF Finish, State, Busy, Active
<1>3. /\ make.mode = "run" /\ make.mem[t].cmd = rule[t]
      /\ \A d \in Needs(t) : State(d) = "ok"
  BY <1>2, BusyFacts
<1>4. /\ make'.mode = "run" /\ make'.mem[t] = Ended(t) /\ ~Busy(t)'
      /\ State(t)' = IF State(t) = "done" THEN "ok" ELSE "failed"
  <2>1. /\ make'.mode = make.mode /\ make'.mem = [make.mem EXCEPT ![t] = Ended(t)]
        /\ make'.state = [make.state EXCEPT ![t] = IF State(t) = "done" THEN "ok" ELSE "failed"]
    BY <1>2, FinishedFacts
  <2>2. make'.mem[t] = Ended(t) /\ State(t)' = IF State(t) = "done" THEN "ok" ELSE "failed"
    BY <2>1 DEF TypeOK, Make, State
  <2>. QED  BY <1>3, <2>1, <2>2 DEF Busy, Active
<1>5. disk' = disk /\ right' = right /\ vouched' = vouched /\ includes' = includes /\ rule' = rule
  BY <1>1 DEF Still, files
<1>6. Known(t)' = Ended(t) /\ Needs(t)' = Needs(t)
  BY <1>1, <1>4 DEF Known, Needs
<1>7. State(t) = "done" /\ t \notin right => \E d \in Needs(t) : d \notin right
  BY <1>1 DEF FileInv, OkInv
<1>8. WrongInv(t)'
  <2>1. CASE State(t) = "done"
    BY <1>5, <1>6, <1>7, <2>1 DEF WrongInv, Excused
  <2>2. CASE State(t) = "error"
    <3>1. Ended(t).cmd = 0
      BY <2>2 DEF Ended
    <3>. QED  BY <1>6, <3>1 DEF WrongInv, Redone, SameEffect
  <2>. QED  BY <1>2, <2>1, <2>2
<1>9. RightInv(t)'
  <2>1. t \in right => disk[t] > 0
    BY <1>1 DEF FileInv, RightInv
  <2>2. includes[t] \subseteq Ended(t).autos
    <3>1. t \notin Reporters => includes[t] = {}
      BY DEF SettledHypothesis, HeadersShow, RunInv, HeaderInv
    <3>. QED  BY <3>1 DEF Ended
  <2>3. Ended(t).cmd = 0 \/ Ended(t).cmd = rule[t]
    BY <1>3 DEF Ended
  <2>4. Known(t)'.cmd = 0 \/ SameEffect(t, Known(t).cmd)'
    BY <1>5, <1>6, <2>3, RuleIsSame DEF SameEffect
  <2>. QED  BY <1>5, <1>6, <2>1, <2>2, <2>4 DEF RightInv
<1>10. OkInv(t)'
  <2>1. State(t)' /= "done"
    BY <1>4
  <2>2. ASSUME State(t) = "done", t \notin right PROVE \E u \in vouched' : State(u)' = "ok"
    <3>1. PICK d \in Needs(t) : d \notin right
      BY <1>7, <2>2
    <3>. QED  BY <1>1, <1>3, <1>5, <3>1, OkFromNeeds
  <2>. QED  BY <1>4, <1>5, <2>1, <2>2 DEF OkInv
<1>. QED  BY <1>8, <1>9, <1>10 DEF FileInv

\* What is written is right when it is done, if all it is made from is.
LEMMA WrittenSettled ==
  ASSUME TypeOK, RunInv, NEW t \in Target, TouchCommand(t) \/ JobWrites(t) \/ JobSucceeds(t)
  PROVE  FileInv(t)'
<1>1. t \in File /\ t \in Above({t})
  <2>1. t \in File
    BY DependenciesAreFiles
  <2>. QED  BY <2>1, AboveFile
<1>2. CASE TouchCommand(t)
  <2>1. t \in vouched' /\ t \notin right' /\ make.mode = "-t"
    BY <1>1, <1>2 DEF TouchCommand
  <2>2. State(t)' = "ok"
    BY <1>2, SimulatedFacts, TurnsFacts
  <2>. QED  BY <2>1, <2>2 DEF FileInv, WrongInv, RightInv, OkInv, Excused
<1>3. CASE JobWrites(t)
  <2>1. t \notin right'
    BY <1>1, <1>3 DEF JobWrites
  <2>2. State(t)' = "writing"
    <3>1. Turns(t, "writing", make.mem[t])
      BY <1>3, StateFacts DEF JobWrites, Status, Active
    <3>. QED  BY <3>1, TurnsFacts
  <2>. QED  BY <2>1, <2>2 DEF FileInv, WrongInv, RightInv, OkInv, Busy, Active
<1>4. CASE JobSucceeds(t)
  <2>1. State(t)' = "done"
    <3>1. Turns(t, "done", make.mem[t])
      BY <1>4, StateFacts DEF JobSucceeds, Status, Active
    <3>. QED  BY <3>1, TurnsFacts
  <2>2. disk'[t] > 0
    BY <1>1, <1>4, WrittenFacts DEF JobSucceeds, TypeOK
  <2>3. t \notin right' => \E d \in Needs(t)' : d \notin right'
    BY <1>4 DEF JobSucceeds, Needs
  <2>. QED  BY <2>1, <2>2, <2>3 DEF FileInv, WrongInv, RightInv, OkInv, Busy, Active
<1>. QED  BY <1>2, <1>3, <1>4

LEMMA ActsSettled ==
  ASSUME TypeOK, RunInv, FilesInv, SettledHypothesis, NEW t \in Target, Acts(t), AloneInv(t)
  PROVE  FilesInv'
<1>0. Moves(t) /\ ~Off /\ ~Off' /\ make'.mode = make.mode /\ FileInv(t)
  BY ActsKeepRun DEF Moves, Off, FilesInv
<1>1. FileInv(t)'
  <2>1. CASE DependencyFailed(t)
    <3>1. /\ State(t)' = "failed" /\ make'.mem[t] = make.mem[t]
          /\ State(t) \in {"none", "queued"} /\ Still(t)
      <4>1. Turns(t, "failed", make.mem[t])
        BY <2>1, StateFacts DEF DependencyFailed, Status
      <4>. QED  BY <2>1, <4>1, TurnsFacts
                DEF DependencyFailed, MayConsider, State, Still, user, rest
    <3>. QED  BY <1>0, <3>1, SameIsSettled DEF Busy, Active
  <2>2. CASE UpToDate(t)
    BY <2>2, UpToDateSettled
  <2>3. CASE PutAside(t)
    BY <2>3, PutAsideSettled
  <2>4. CASE RunCommand(t)
    <3>1. State(t)' = "running" /\ Still(t)
      BY <2>4, RunCommandFacts, TurnsFacts DEF RunCommand, Still, user, rest
    <3>. QED  BY <1>0, <3>1, StartedIsSettled
  <2>5. CASE PrintCommand(t)
    <3>1. make.mode = "-n" /\ Still(t) /\ Ready(t)
      BY <2>5 DEF PrintCommand, Still, user, rest
    <3>2. State(t)' = "ok"
      BY <2>5, SimulatedFacts, TurnsFacts
    <3>3. State(t) \in {"none", "queued"}
      BY <3>1, ReadyFacts
    <3>. QED  BY <1>0, <3>1, <3>2, <3>3, SameIsSettled DEF Busy, Active
  <2>6. CASE TouchCommand(t) \/ JobWrites(t) \/ JobSucceeds(t)
    BY <2>6, WrittenSettled
  <2>7. CASE JobFails(t)
    <3>1. State(t)' = "error" /\ Still(t)
      <4>1. Turns(t, "error", make.mem[t])
        BY <2>7, StateFacts DEF JobFails, Status, Active
      <4>. QED  BY <2>7, <4>1, TurnsFacts DEF JobFails, Still, user, rest
    <3>. QED  BY <1>0, <3>1, StartedIsSettled
  <2>8. CASE Finish(t)
    BY <2>8, FinishSettled
  <2>. QED  BY <2>1, <2>2, <2>3, <2>4, <2>5, <2>6, <2>7, <2>8 DEF Acts
<1>2. \A u \in Target : u /= t => FileInv(u)'
  BY OthersSettled
<1>. QED  BY <1>1, <1>2 DEF FilesInv


\* Two records of a target that ask for the same.
Alike(t, r, q) ==
    /\ r.autos = q.autos
    /\ r.cmd = q.cmd \/ (SameEffect(t, r.cmd) /\ SameEffect(t, q.cmd))

\* As long as make does not mean to write it, .make.state is as good as what
\* make remembers.
LEMMA SavedIsAlike ==
  ASSUME TypeOK, RunInv, SettledHypothesis, NEW t \in Target, ~Off, ~Flagged \/ make.mode = "-n"
  PROVE  Alike(t, saved[t], Known(t))
<1>1. CASE make.mode = "-n"
  BY <1>1 DEF Known, Alike
<1>2. CASE make.mode /= "-n"
  <2>1. ~Flagged /\ MemoryInv(t) /\ Known(t) = make.mem[t]
    BY <1>2 DEF RunInv, TargetInv, Known
  <2>2. t \notin MayFail \ Reporters
    BY DEF SettledHypothesis, FailuresShow
  <2>3. /\ make.mem[t].autos = saved[t].autos
        /\ \/ make.mem[t].cmd = saved[t].cmd
           \/ make.mem[t].cmd = rule[t] /\ ~Replaces(t, saved[t].cmd)
    BY <1>2, <2>1, <2>2 DEF MemoryInv
  <2>4. ~Replaces(t, saved[t].cmd) => SameEffect(t, saved[t].cmd)
    <3>1. saved[t].cmd \in Nat /\ saved[t].cmd <= rule[t]
      BY DEF TypeOK, Record
    <3>. QED  BY <3>1, NotReplacedIsSame DEF SettledHypothesis
  <2>. QED  BY <2>1, <2>3, <2>4, RuleIsSame DEF Alike
<1>. QED  BY <1>1, <1>2

\* make begins or ends, and the next make knows the same of t.
LEMMA AlikeIsSettled ==
  ASSUME TypeOK, RunInv, NEW t \in Target, FileInv(t), ~Busy(t), State(t)' = "none",
         disk' = disk, right' = right, vouched' = vouched, includes' = includes, rule' = rule,
         NEW r, Known(t)' = r, Alike(t, r, Known(t))
  PROVE  FileInv(t)'
<1>1. SameEffect(t, Known(t).cmd)' <=> SameEffect(t, r.cmd)
  BY DEF SameEffect
<1>2. WrongInv(t)'
  <2>1. SUFFICES ASSUME disk[t] > 0, t \notin right PROVE Redone(Known(t), t)' \/ Excused(t)'
    BY DEF WrongInv
  <2>2. Redone(Known(t), t) \/ Excused(t)
    BY <2>1 DEF FileInv, WrongInv
  <2>3. CASE Excused(t)
    BY <2>3 DEF Excused, Needs
  <2>4. CASE ~SameEffect(t, Known(t).cmd)
    <3>1. ~SameEffect(t, r.cmd)
      BY <2>4 DEF Alike
    <3>. QED  BY <1>1, <3>1 DEF Redone
  <2>5. CASE \E d \in Deps[t] \cup (Known(t).autos \cap includes[t]) : disk[d] > disk[t]
    BY <2>5 DEF Redone, Alike
  <2>. QED  BY <2>2, <2>3, <2>4, <2>5 DEF Redone
<1>3. RightInv(t)'
  <2>1. SUFFICES ASSUME t \in right
                 PROVE  /\ disk[t] > 0 /\ includes[t] \subseteq r.autos
                        /\ r.cmd = 0 \/ SameEffect(t, Known(t).cmd)'
    BY DEF RightInv
  <2>2. /\ disk[t] > 0 /\ includes[t] \subseteq Known(t).autos
        /\ Known(t).cmd = 0 \/ SameEffect(t, Known(t).cmd)
    BY <2>1 DEF FileInv, RightInv
  <2>. QED  BY <1>1, <2>2 DEF Alike
<1>4. OkInv(t)'
  BY DEF OkInv
<1>. QED  BY <1>2, <1>3, <1>4 DEF FileInv

\* Files F are removed: those that are made are no longer right, and none of
\* the others is read for t.
LEMMA WithoutIsSettled ==
  ASSUME TypeOK, RunInv, NEW t \in Target, FileInv(t), ~Busy(t), State(t)' = "none",
         NEW F, disk' = Without(F), right' = right \ F,
         \A f \in F : f \in Target \/ f \notin Deps[t] \cup includes[t],
         vouched' = vouched, includes' = includes, rule' = rule,
         NEW r, Known(t)' = r, Alike(t, r, Known(t))
  PROVE  FileInv(t)'
<1>1. SameEffect(t, Known(t).cmd)' <=> SameEffect(t, r.cmd)
  BY DEF SameEffect
<1>2. /\ t \in File /\ includes[t] \subseteq Source /\ Source \subseteq File
      /\ Deps[t] \subseteq File /\ Source \cap Target = {}
  BY DependenciesAreFiles, MakefileAssumption DEF TypeOK
<1>3. /\ \A g \in File : disk'[g] > 0 <=> disk[g] > 0 /\ g \notin F
      /\ \A g, h \in File : g \notin F /\ h \notin F => (disk'[g] < disk'[h] <=> disk[g] < disk[h])
  BY WithoutFacts DEF TypeOK
<1>4. WrongInv(t)'
  <2>1. SUFFICES ASSUME disk'[t] > 0, t \notin right' PROVE Redone(Known(t), t)' \/ Excused(t)'
    BY DEF WrongInv
  <2>2. disk[t] > 0 /\ t \notin F /\ t \notin right
    BY <1>2, <1>3, <2>1
  <2>3. Redone(Known(t), t) \/ Excused(t)
    BY <2>2 DEF FileInv, WrongInv
  <2>4. CASE Excused(t)
    BY <2>4 DEF Excused, Needs
  <2>5. CASE ~SameEffect(t, Known(t).cmd)
    <3>1. ~SameEffect(t, r.cmd)
      BY <2>5 DEF Alike
    <3>. QED  BY <1>1, <3>1 DEF Redone
  <2>6. CASE \E d \in Deps[t] \cup (Known(t).autos \cap includes[t]) : disk[d] > disk[t]
    <3>1. PICK d \in Deps[t] \cup (Known(t).autos \cap includes[t]) : disk[d] > disk[t]
      BY <2>6
    <3>2. d \in File /\ (d \in F => d \in Target /\ d \in Deps[t])
      BY <1>2, <3>1
    <3>3. CASE d \in F
      BY <3>2, <3>3 DEF Excused, Needs
    <3>4. CASE d \notin F
      BY <1>2, <1>3, <2>2, <3>1, <3>2, <3>4 DEF Redone, Alike
    <3>. QED  BY <3>3, <3>4
  <2>. QED  BY <2>3, <2>4, <2>5, <2>6 DEF Redone
<1>5. RightInv(t)'
  <2>1. SUFFICES ASSUME t \in right, t \notin F
                 PROVE  /\ disk'[t] > 0 /\ includes[t] \subseteq r.autos
                        /\ r.cmd = 0 \/ SameEffect(t, Known(t).cmd)'
    BY DEF RightInv
  <2>2. /\ disk[t] > 0 /\ includes[t] \subseteq Known(t).autos
        /\ Known(t).cmd = 0 \/ SameEffect(t, Known(t).cmd)
    BY <2>1 DEF FileInv, RightInv
  <2>. QED  BY <1>1, <1>2, <1>3, <2>1, <2>2 DEF Alike
<1>6. OkInv(t)'
  BY DEF OkInv
<1>. QED  BY <1>4, <1>5, <1>6 DEF FileInv


LEMMA EndSettled ==
  ASSUME TypeOK, RunInv, SettledHypothesis, NEW t \in Target, FileInv(t), End
  PROVE  FileInv(t)'
<1>1. /\ ~Off /\ Off' /\ ~Busy(t) /\ State(t)' = "none"
      /\ disk' = disk /\ right' = right /\ vouched' = vouched /\ includes' = includes /\ rule' = rule
      /\ saved' = IF Flagged /\ make.mode /= "-n" THEN make.mem ELSE saved
  BY EndFacts DEF Off, State
<1>2. PICK r : r = saved'[t]
  OBVIOUS
<1>3. Known(t)' = r
  BY <1>1, <1>2 DEF Known
<1>4. Alike(t, r, Known(t))
  <2>1. CASE Flagged /\ make.mode /= "-n"
    BY <1>1, <1>2, <2>1 DEF Known, Alike
  <2>2. CASE ~(Flagged /\ make.mode /= "-n")
    BY <1>1, <1>2, <2>2, SavedIsAlike
  <2>. QED  BY <2>1, <2>2
<1>. QED  BY <1>1, <1>3, <1>4, AlikeIsSettled

LEMMA StartSettled ==
  ASSUME TypeOK, RunInv, NEW t \in Target, FileInv(t),
         NEW how \in Invocations, Start(how.mode, how.jobs, how.keep)
  PROVE  FileInv(t)'
<1>1. /\ Off /\ ~Off' /\ State(t)' = "none" /\ make'.mem = saved /\ saved' = saved
      /\ disk' = disk /\ right' = right /\ vouched' = vouched /\ includes' = includes /\ rule' = rule
  BY StartFacts DEF Off, State
<1>2. ~Busy(t)
  BY <1>1, OffStates DEF Busy, Active
<1>3. Known(t) = saved[t] /\ Known(t)' = saved[t] /\ Alike(t, saved[t], saved[t])
  BY <1>1 DEF Known, Alike
<1>. QED  BY <1>1, <1>2, <1>3, AlikeIsSettled

\* A job that an interrupt finds done or failed.
LEMMA ReapedSettled ==
  ASSUME TypeOK, RunInv, SettledHypothesis, NEW t \in Target, FileInv(t),
         NEW reaped \in SUBSET Running, Interrupt(reaped), t \in reaped
  PROVE  FileInv(t)'
<1>1. /\ Off' /\ State(t)' = "none" /\ Busy(t) /\ ~Busy(t)' /\ t \notin Killed(reaped) /\ t \in File
      /\ State(t) \in {"done", "error"}
      /\ vouched' = vouched /\ includes' = includes /\ rule' = rule
      /\ right' = right \ Killed(reaped)
      /\ disk'[t] > 0 <=> disk[t] > 0
      /\ saved'[t] = IF Writes(reaped) THEN Ended(t) ELSE saved[t]
  <2>1. Precious = {} /\ t \in File
    BY DependenciesAreFiles DEF SettledHypothesis, FailuresShow
  <2>2. t \notin Killed(reaped) => Left(reaped, t) = Ended(t)
    BY DEF Left
  <2>3. Off' /\ State(t)' = "none" /\ vouched' = vouched /\ includes' = includes /\ rule' = rule
    BY InterruptFacts DEF Off, State
  <2>4. ~Busy(t)'
    BY <2>3 DEF Busy, Active
  <2>5. Busy(t) /\ t \notin Killed(reaped) /\ State(t) \in {"done", "error"}
    BY InterruptFacts
  <2>6. right' = right \ Killed(reaped) /\ (disk'[t] > 0 <=> disk[t] > 0)
    BY <2>1, <2>5, InterruptFacts
  <2>7. saved'[t] = IF Writes(reaped) THEN Ended(t) ELSE saved[t]
    <3>1. saved'[t] = IF Writes(reaped) THEN Left(reaped, t) ELSE saved[t]
      BY InterruptFacts
    <3>2. Left(reaped, t) = Ended(t)
      BY <2>2, <2>5
    <3>. QED  BY <3>1, <3>2
  <2>. QED  BY <2>1, <2>3, <2>4, <2>5, <2>6, <2>7
<1>2. make.mode = "run" /\ make.rewrite_statefile /\ make.mem[t].cmd = rule[t] /\ ~Off
  BY <1>1, BusyFacts
<1>3. Known(t)' = saved'[t]
  BY <1>1 DEF Known
<1>4. t \in Reporters => Writes(reaped)
  BY <1>2, FinishedFacts DEF Writes
<1>5. t \notin Reporters => includes[t] = {}
  BY DEF SettledHypothesis, HeadersShow, RunInv, HeaderInv
<1>6. includes[t] \subseteq saved'[t].autos
  BY <1>1, <1>4, <1>5 DEF Ended
<1>7. State(t) = "error" => saved'[t].cmd = 0
  <2>1. State(t) = "error" => t \in Reporters
    BY DEF RunInv, TargetInv, StateInv, SettledHypothesis, FailuresShow
  <2>. QED  BY <1>1, <1>4, <2>1 DEF Ended
<1>8. State(t) = "done" => SameEffect(t, saved'[t].cmd)
  <2>1. SUFFICES ASSUME State(t) = "done" PROVE SameEffect(t, saved'[t].cmd)
    OBVIOUS
  <2>2. CASE Writes(reaped)
    BY <1>1, <1>2, <2>1, <2>2, RuleIsSame DEF Ended
  <2>3. CASE ~Writes(reaped)
    <3>1. ~Flagged
      BY <1>2, <2>3 DEF Flagged, Writes
    <3>2. Alike(t, saved[t], Known(t)) /\ Known(t) = make.mem[t]
      BY <1>2, <3>1, SavedIsAlike DEF Known
    <3>. QED  BY <1>1, <1>2, <2>3, <3>2, RuleIsSame DEF Alike
  <2>. QED  BY <2>2, <2>3
<1>9. WrongInv(t)'
  <2>1. CASE State(t) = "done"
    <3>1. SUFFICES ASSUME t \notin right PROVE \E d \in Needs(t) : d \notin right
      BY <1>1 DEF WrongInv, Excused, Needs
    <3>. QED  BY <2>1, <3>1 DEF FileInv, OkInv
  <2>2. CASE State(t) = "error"
    BY <1>3, <1>7, <2>2 DEF WrongInv, Redone, SameEffect
  <2>. QED  BY <1>1, <2>1, <2>2
<1>10. RightInv(t)'
  <2>1. t \in right => disk[t] > 0
    BY DEF FileInv, RightInv
  <2>2. saved'[t].cmd = 0 \/ SameEffect(t, saved'[t].cmd)
    BY <1>1, <1>7, <1>8
  <2>3. Known(t)'.cmd = 0 \/ SameEffect(t, Known(t).cmd)'
    BY <1>1, <1>3, <2>2 DEF SameEffect
  <2>. QED  BY <1>1, <1>3, <1>6, <2>1, <2>3 DEF RightInv
<1>11. OkInv(t)'
  BY <1>1 DEF OkInv
<1>. QED  BY <1>9, <1>10, <1>11 DEF FileInv

LEMMA InterruptSettled ==
  ASSUME TypeOK, RunInv, SettledHypothesis, NEW t \in Target, FileInv(t),
         NEW reaped \in SUBSET Running, Interrupt(reaped)
  PROVE  FileInv(t)'
<1>1. Killed(reaped) \ Precious = Killed(reaped)
  BY DEF SettledHypothesis, FailuresShow
<1>2. /\ ~Off /\ Off' /\ State(t)' = "none" /\ t \in File
      /\ vouched' = vouched /\ includes' = includes /\ rule' = rule
      /\ right' = right \ Killed(reaped) /\ disk' = Without(Killed(reaped))
      /\ disk'[t] > 0 <=> disk[t] > 0 /\ t \notin Killed(reaped)
      /\ saved'[t] = IF Writes(reaped) THEN Left(reaped, t) ELSE saved[t]
      /\ Busy(t) <=> t \in Killed(reaped) \cup reaped
      /\ Killed(reaped) \subseteq Target
  <2>1. t \in File
    BY DEF File
  <2>2. ~Off /\ Off' /\ State(t)' = "none"
    BY InterruptFacts DEF Off, State
  <2>3. /\ vouched' = vouched /\ includes' = includes /\ rule' = rule
        /\ right' = right \ Killed(reaped) /\ disk' = Without(Killed(reaped))
        /\ Killed(reaped) \subseteq Target
    <3>1. Killed(reaped) \ Precious = Killed(reaped)
      BY <1>1
    <3>2. /\ vouched' = vouched /\ includes' = includes /\ rule' = rule
          /\ Killed(reaped) \subseteq Target
      BY InterruptFacts
    <3>3. /\ right' = right \ (Killed(reaped) \ Precious)
          /\ disk' = Without(Killed(reaped) \ Precious)
      BY InterruptFacts
    <3>. QED  BY <3>1, <3>2, <3>3
  <2>4. disk'[t] > 0 <=> disk[t] > 0 /\ t \notin Killed(reaped)
    BY <1>1, <2>1, InterruptFacts
  <2>5. /\ saved'[t] = IF Writes(reaped) THEN Left(reaped, t) ELSE saved[t]
        /\ Busy(t) <=> t \in Killed(reaped) \cup reaped
    BY InterruptFacts
  <2>. QED  BY <2>1, <2>2, <2>3, <2>4, <2>5
<1>3. CASE t \in Killed(reaped)
  BY <1>2, <1>3 DEF FileInv, WrongInv, RightInv, OkInv
<1>4. CASE t \in reaped
  BY <1>4, ReapedSettled
<1>5. CASE t \notin Killed(reaped) \cup reaped
  <2>1. PICK r : r = saved'[t]
    OBVIOUS
  <2>2. Known(t)' = r
    BY <1>2, <2>1 DEF Known
  <2>3. Alike(t, r, Known(t))
    <3>1. CASE Writes(reaped)
      <4>1. r = make.mem[t] /\ make.mode /= "-n"
        BY <1>2, <1>5, <2>1, <3>1 DEF Left, Writes
      <4>. QED  BY <1>2, <4>1 DEF Known, Alike
    <3>2. CASE ~Writes(reaped)
      <4>1. ~Flagged \/ make.mode = "-n"
        BY <3>2 DEF Flagged, Writes
      <4>. QED  BY <1>2, <2>1, <3>2, <4>1, SavedIsAlike
    <3>. QED  BY <3>1, <3>2
  <2>. QED  BY <1>2, <1>5, <2>2, <2>3, WithoutIsSettled
<1>. QED  BY <1>3, <1>4, <1>5


\* What the user does while no make runs.
LEMMA EditKeepsKnown ==
  ASSUME TypeOK, RunInv, Edit, NEW t \in Target
  PROVE  /\ Known(t)' = Known(t) /\ Known(t) = saved[t] /\ vouched' = vouched
         /\ State(t)' = "none" /\ ~Busy(t) /\ ~Busy(t)' /\ Needs(t)' = Needs(t)
         /\ OkInv(t)'
<1>1. Off /\ Off' /\ make' = make /\ saved' = saved /\ vouched' = vouched
  BY EditFacts
<1>2. State(t) = "none"
  BY <1>1, OffStates
<1>. QED  BY <1>1, <1>2 DEF Known, State, Busy, Active, Needs, OkInv

LEMMA EditSourceSettled ==
  ASSUME TypeOK, RunInv, NEW t \in Target, FileInv(t), NEW s \in Source, EditSource(s)
  PROVE  FileInv(t)'
<1>1. /\ Known(t)' = Known(t) /\ Known(t) = saved[t] /\ vouched' = vouched
      /\ ~Busy(t) /\ Needs(t)' = Needs(t) /\ OkInv(t)'
  <2>1. Edit
    BY DEF Edit
  <2>. QED  BY <2>1, EditKeepsKnown
<1>2. /\ disk' = Written(s) /\ right' = right \ Above({s}) /\ rule' = rule
      /\ s \notin Deps[t] => includes'[t] = includes[t]
  BY DEF EditSource, Edited
<1>3. /\ s \in File /\ t \in File /\ s /= t /\ s \notin Target
      /\ includes[t] \subseteq Source /\ Deps[t] \subseteq File /\ Source \subseteq File
  BY DependenciesAreFiles, MakefileAssumption DEF TypeOK
<1>4. /\ disk'[s] > disk'[t] /\ (disk'[t] > 0 <=> disk[t] > 0)
      /\ \A g, h \in File : g /= s /\ h /= s => (disk'[g] < disk'[h] <=> disk[g] < disk[h])
  BY <1>2, <1>3, WrittenFacts DEF TypeOK
<1>5. s \in Deps[t] => Redone(Known(t), t)'
  BY <1>4 DEF Redone
<1>6. t \in right => includes[t] \subseteq Known(t).autos
  BY <1>1 DEF FileInv, RightInv
<1>7. WrongInv(t)'
  <2>1. SUFFICES ASSUME disk[t] > 0, t \notin right', s \notin Deps[t]
                 PROVE  Redone(Known(t), t)' \/ Excused(t)'
    BY <1>4, <1>5 DEF WrongInv
  <2>2. includes'[t] = includes[t]
    BY <1>2, <2>1
  <2>3. CASE t \in right
    <3>1. t \in Above({s})
      BY <1>2, <2>1, <2>3
    <3>2. s \in includes[t] \/ \E d \in Needs(t) : d \in Above({s})
      BY <1>3, <2>1, <3>1, AboveFile
    <3>3. CASE s \in includes[t]
      BY <1>1, <1>4, <1>6, <2>2, <2>3, <3>3 DEF Redone
    <3>4. CASE \E d \in Needs(t) : d \in Above({s})
      BY <1>1, <1>2, <3>4 DEF Excused
    <3>. QED  BY <3>2, <3>3, <3>4
  <2>4. CASE t \notin right
    <3>1. Redone(Known(t), t) \/ Excused(t)
      BY <1>1, <2>1, <2>4 DEF FileInv, WrongInv
    <3>2. CASE Excused(t)
      BY <1>1, <1>2, <3>2 DEF Excused
    <3>3. CASE ~SameEffect(t, Known(t).cmd)
      BY <1>1, <1>2, <3>3 DEF Redone, SameEffect
    <3>4. CASE \E d \in Deps[t] \cup (Known(t).autos \cap includes[t]) : disk[d] > disk[t]
      <4>1. PICK d \in Deps[t] \cup (Known(t).autos \cap includes[t]) : disk[d] > disk[t]
        BY <3>4
      <4>2. d \in File
        BY <1>3, <4>1
      <4>3. disk'[d] > disk'[t]
        BY <1>3, <1>4, <4>1, <4>2
      <4>. QED  BY <1>1, <2>2, <4>1, <4>3 DEF Redone
    <3>. QED  BY <3>1, <3>2, <3>3, <3>4 DEF Redone
  <2>. QED  BY <2>3, <2>4
<1>8. RightInv(t)'
  <2>1. SUFFICES ASSUME t \in right, t \notin Above({s})
                 PROVE  /\ disk'[t] > 0 /\ includes'[t] \subseteq Known(t).autos
                        /\ Known(t).cmd = 0 \/ SameEffect(t, Known(t).cmd)'
    BY <1>1, <1>2 DEF RightInv
  <2>2. s \notin Deps[t]
    BY <1>3, <2>1, AboveFile
  <2>3. /\ disk[t] > 0 /\ includes[t] \subseteq Known(t).autos
        /\ Known(t).cmd = 0 \/ SameEffect(t, Known(t).cmd)
    BY <1>1, <2>1 DEF FileInv, RightInv
  <2>. QED  BY <1>1, <1>2, <1>4, <2>2, <2>3 DEF SameEffect
<1>. QED  BY <1>1, <1>7, <1>8 DEF FileInv

\* A rule that was changed is not one that the target was made by before.
LEMMA ChangedRule ==
  ASSUME TypeOK, NEW t \in Target, NEW cmd \in Nat, cmd <= rule[t], rule[t] < Len(Recipe[t]),
         Effect(Recipe[t][rule[t]]) /= Effect(Recipe[t][rule[t] + 1])
  PROVE  ~(cmd /= 0 /\ Effect(Recipe[t][cmd]) = Effect(Recipe[t][rule[t] + 1]))
<1>. SUFFICES ASSUME cmd /= 0, Effect(Recipe[t][cmd]) = Effect(Recipe[t][rule[t] + 1])
              PROVE  FALSE
  OBVIOUS
<1>1. cmd /= rule[t]
  OBVIOUS
<1>2. /\ cmd \in DOMAIN Recipe[t] /\ rule[t] \in DOMAIN Recipe[t]
      /\ rule[t] + 1 \in DOMAIN Recipe[t] /\ cmd < rule[t] /\ rule[t] < rule[t] + 1
  BY <1>1, RecipeFacts DEF TypeOK
<1>3. Effect(Recipe[t][rule[t]]) = Effect(Recipe[t][cmd])
  BY <1>2, MakefileAssumption
<1>. QED  BY <1>3

LEMMA EditRuleSettled ==
  ASSUME TypeOK, RunInv, NEW t \in Target, FileInv(t), NEW u \in Target, EditRule(u)
  PROVE  FileInv(t)'
<1>1. /\ Known(t)' = Known(t) /\ Known(t) = saved[t] /\ vouched' = vouched
      /\ ~Busy(t) /\ Needs(t)' = Needs(t) /\ OkInv(t)'
  <2>1. Edit
    BY DEF Edit
  <2>. QED  BY <2>1, EditKeepsKnown
<1>2. /\ disk' = disk /\ includes' = includes /\ rule[u] < Len(Recipe[u])
      /\ rule'[u] = rule[u] + 1 /\ (u /= t => rule'[t] = rule[t])
      /\ right' = right \ (IF Effect(Recipe[u][rule[u]]) = Effect(Recipe[u][rule[u] + 1])
                           THEN {} ELSE Above({u}))
  BY DEF EditRule, Edited, TypeOK
<1>3. u \in File /\ includes[t] \subseteq Source /\ u \notin Source
  BY DependenciesAreFiles DEF TypeOK
<1>4. CASE u = t /\ Effect(Recipe[u][rule[u]]) /= Effect(Recipe[u][rule[u] + 1])
  <2>1. t \notin right'
    BY <1>2, <1>3, <1>4, AboveFile
  <2>2. Known(t).cmd \in Nat /\ Known(t).cmd <= rule[t]
    BY <1>1 DEF TypeOK, Record
  <2>3. ~SameEffect(t, Known(t).cmd)'
    BY <1>1, <1>2, <1>4, <2>2, ChangedRule DEF SameEffect
  <2>. QED  BY <1>1, <2>1, <2>3 DEF FileInv, WrongInv, RightInv, Redone
<1>5. CASE u /= t \/ Effect(Recipe[u][rule[u]]) = Effect(Recipe[u][rule[u] + 1])
  <2>1. SameEffect(t, Known(t).cmd)' <=> SameEffect(t, Known(t).cmd)
    BY <1>1, <1>2, <1>5 DEF SameEffect
  <2>2. ASSUME t \in right, t \notin right' PROVE Excused(t)'
    <3>1. u /= t /\ t \in Above({u}) /\ right' = right \ Above({u}) /\ u \in Above({u})
      BY <1>2, <1>3, <1>5, <2>2, AboveFile
    <3>2. u \in Deps[t] \cup includes[t] \/ \E d \in Needs(t) : d \in Above({u})
      BY <1>3, <3>1, AboveFile
    <3>3. \E d \in Needs(t) : d \in Above({u})
      BY <1>3, <3>1, <3>2 DEF Needs
    <3>. QED  BY <1>1, <3>1, <3>3 DEF Excused
  <2>3. WrongInv(t)'
    <3>1. SUFFICES ASSUME disk[t] > 0, t \notin right PROVE Redone(Known(t), t)' \/ Excused(t)'
      BY <1>2, <2>2 DEF WrongInv
    <3>2. Redone(Known(t), t) \/ Excused(t)
      BY <1>1, <3>1 DEF FileInv, WrongInv
    <3>3. CASE Excused(t)
      BY <1>1, <1>2, <3>3 DEF Excused
    <3>4. CASE Redone(Known(t), t)
      BY <1>1, <1>2, <2>1, <3>4 DEF Redone
    <3>. QED  BY <3>2, <3>3, <3>4
  <2>4. RightInv(t)'
    <3>1. t \in right' => t \in right
      BY <1>2
    <3>. QED  BY <1>1, <1>2, <2>1, <3>1 DEF FileInv, RightInv
  <2>. QED  BY <1>1, <2>3, <2>4 DEF FileInv
<1>. QED  BY <1>4, <1>5

LEMMA RemoveSettled ==
  ASSUME TypeOK, RunInv, NEW t \in Target, FileInv(t),
         (\E s \in Source : RemoveHeader(s)) \/ (\E u \in Target : RemoveTarget(u))
  PROVE  FileInv(t)'
<1>1. /\ Known(t)' = Known(t) /\ vouched' = vouched /\ State(t)' = "none" /\ ~Busy(t)
  <2>1. Edit
    BY DEF Edit
  <2>. QED  BY <2>1, EditKeepsKnown
<1>2. Alike(t, Known(t), Known(t))
  BY DEF Alike
<1>3. ASSUME NEW s \in Source, RemoveHeader(s) PROVE FileInv(t)'
  <2>1. /\ disk' = Without({s}) /\ rule' = rule /\ includes' = includes
        /\ s \notin Deps[t] \cup includes[t] /\ right' = right
    BY <1>3 DEF RemoveHeader, Edited
  <2>2. right' = right \ {s}
    BY <2>1, MakefileAssumption DEF TypeOK
  <2>. QED  BY <1>1, <1>2, <2>1, <2>2, WithoutIsSettled
<1>4. ASSUME NEW u \in Target, RemoveTarget(u) PROVE FileInv(t)'
  <2>1. disk' = Without({u}) /\ rule' = rule /\ includes' = includes /\ right' = right \ {u}
    BY <1>4 DEF RemoveTarget, Edited
  <2>. QED  BY <1>1, <1>2, <2>1, WithoutIsSettled
<1>. QED  BY <1>3, <1>4

LEMMA EditSettled ==
  ASSUME TypeOK, RunInv, NEW t \in Target, FileInv(t), Edit
  PROVE  FileInv(t)'
BY EditSourceSettled, EditRuleSettled, RemoveSettled DEF Edit

\* What was settled stays so, for as long as make only looks at it.
LEMMA StaysSettled ==
  ASSUME TypeOK, RunInv, IdleInv, FilesInv, Settled, Next
  PROVE  Settled'
<1>0. Wanted' = Wanted /\ Wanted \subseteq Target
  BY DEF Wanted
<1>1. CASE Edit
  BY <1>1, EditFacts DEF Settled
<1>2. CASE End
  <2>1. SUFFICES ASSUME make.mode = "run", ~Failed, vouched = {}, NEW t \in Wanted
                 PROVE  t \in right
    BY <1>0, <1>2, EndFacts DEF Settled
  <2>2. State(t) = "ok" /\ t \in Target
    BY <1>0, <1>2, <2>1, EndFacts
  <2>. QED  BY <2>1, <2>2 DEF FilesInv, FileInv, OkInv
<1>3. CASE \E how \in Invocations : Start(how.mode, how.jobs, how.keep)
  <2>1. idle' = idle /\ right' = right /\ vouched' = vouched
    BY <1>3 DEF Start, files
  <2>. QED  BY <1>0, <2>1 DEF Settled
<1>4. CASE \E t \in Target : Acts(t)
  <2>1. PICK t \in Target : Acts(t)
    BY <1>4
  <2>2. idle' = idle
    BY <2>1, ActsKeepRun DEF Moves
  <2>3. idle => right' = right /\ vouched' = vouched
    <3>1. idle => UpToDate(t)
      BY <2>1, IdleOnlyLooks
    <3>. QED  BY <3>1 DEF UpToDate, files
  <2>. QED  BY <1>0, <2>2, <2>3 DEF Settled
<1>5. CASE \E reaped \in SUBSET Running : Interrupt(reaped)
  BY <1>5 DEF Interrupt, Settled
<1>. QED  BY <1>1, <1>2, <1>3, <1>4, <1>5, NextCases

SettledInv == Settled /\ FilesInv

LEMMA SettledStep ==
  ASSUME BuildInv, DryRunInv, SettledHypothesis, SettledInv, [Next]_vars
  PROVE  SettledInv'
<1>0. TypeOK /\ RunInv /\ IdleInv /\ Settled /\ FilesInv /\ \A t \in Target : AloneInv(t) /\ FileInv(t)
  BY DEF BuildInv, DryRunInv, SettledInv, FilesInv
<1>1. CASE UNCHANGED vars
  <2>1. /\ disk' = disk /\ right' = right /\ vouched' = vouched /\ includes' = includes
        /\ rule' = rule /\ saved' = saved /\ make' = make /\ idle' = idle
    BY <1>1 DEF vars
  <2>2. Settled'
    BY <1>0, <2>1 DEF Settled, Wanted
  <2>3. ASSUME NEW t \in Target PROVE FileInv(t)'
    <3>1. Known(t)' = Known(t) /\ Needs(t)' = Needs(t) /\ (Busy(t)' <=> Busy(t))
      BY <2>1 DEF Known, Needs, Busy, State, Off
    <3>2. WrongInv(t)' /\ RightInv(t)'
      BY <1>0, <2>1, <3>1 DEF FileInv, WrongInv, RightInv, Redone, SameEffect, Excused
    <3>3. OkInv(t)'
      BY <1>0, <2>1, <3>1 DEF FileInv, OkInv, State
    <3>. QED  BY <3>2, <3>3 DEF FileInv
  <2>. QED  BY <2>2, <2>3 DEF SettledInv, FilesInv
<1>2. CASE Next
  <2>1. Settled'
    BY <1>0, <1>2, StaysSettled
  <2>2. CASE Edit
    BY <1>0, <2>1, <2>2, EditSettled DEF SettledInv, FilesInv
  <2>3. CASE End
    BY <1>0, <2>1, <2>3, EndSettled DEF SettledInv, FilesInv
  <2>4. CASE \E how \in Invocations : Start(how.mode, how.jobs, how.keep)
    BY <1>0, <2>1, <2>4, StartSettled DEF SettledInv, FilesInv
  <2>5. CASE \E t \in Target : Acts(t)
    BY <1>0, <2>1, <2>5, ActsSettled DEF SettledInv
  <2>6. CASE \E reaped \in SUBSET Running : Interrupt(reaped)
    BY <1>0, <2>1, <2>6, InterruptSettled DEF SettledInv, FilesInv
  <2>. QED  BY <1>2, <2>2, <2>3, <2>4, <2>5, <2>6, NextCases
<1>. QED  BY <1>1, <1>2

\* A build that succeeds leaves nothing wrong behind, whatever was edited,
\* interrupted, simulated or failed before it, unless make -t vouched for a
\* file: for any makefile whose recipes report the headers they read, also when
\* they fail, whose commands are told apart by the lines that are compared, and
\* whose targets that are made alone have one rule, which does not fail
\* (run_command(), build_command_strings(), write_state_file()).
THEOREM NothingWrongIsLeft ==
  ASSUME SettledHypothesis
  PROVE  Spec => []Settled
<1>0. DryRunHypothesis
  BY DEF SettledHypothesis, DryRunHypothesis, FailuresShow
<1>1. Init => SettledInv
  <2>. SUFFICES ASSUME Init PROVE SettledInv
    OBVIOUS
  <2>1. idle = FALSE /\ right = {}
    BY DEF Init
  <2>2. \A t \in Target : ~(disk[t] > 0) /\ State(t) = "none"
    BY InitFacts
  <2>. QED  BY <2>1, <2>2 DEF SettledInv, Settled, FilesInv, FileInv, WrongInv, RightInv, OkInv
<1>2. BuildInv /\ DryRunInv /\ SettledInv /\ [Next]_vars => SettledInv'
  BY SettledStep
<1>3. SettledInv => Settled
  BY DEF SettledInv
<1>4. Spec => []DryRunInv
  BY <1>0, DryRunInvariant
<1>. QED  BY <1>1, <1>2, <1>3, <1>4, BuildInvariant, PTL DEF Spec

=============================================================================
