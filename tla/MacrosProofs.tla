---------------------------- MODULE MacrosProofs ----------------------------
(***************************************************************************)
(* What is promised of macros, for every makefile, environment and command *)
(* line: the rule of precedence when the build begins, the values a make   *)
(* that a recipe starts is given, the conditional values every recipe sees *)
(* and that they are put back, whatever chain of targets set them, however *)
(* calls of doname() nest, and whoever was put aside and resumed from the  *)
(* running list.                                                           *)
(***************************************************************************)
EXTENDS Macros, SequenceTheorems, FunctionTheorems, WellFoundedInduction, TLAPS

LEMMA LeastNumber ==
  ASSUME NEW T \in SUBSET Nat, T /= {}
  PROVE  \E n \in T : \A k \in T : n <= k
<1>1. PICK n \in T : \A k \in T : <<k, n>> \notin OpToRel(<, Nat)
  BY NatLessThanWellFounded, WFMin
<1>2. \A k \in T : ~(k < n)
  BY <1>1 DEF OpToRel
<1>. QED  BY <1>2

\* A set of numbers that has 0 and each successor up to n has all up to n.
LEMMA Upwards ==
  ASSUME NEW n \in Nat, NEW T, 0 \in T, \A i \in 0 .. n - 1 : i \in T => i + 1 \in T
  PROVE  0 .. n \subseteq T
<1>. DEFINE U == {i \in 0 .. n : i \notin T}
<1>. SUFFICES ASSUME U /= {} PROVE FALSE
  OBVIOUS
<1>1. PICK k \in U : \A j \in U : k <= j
  <2>1. U \in SUBSET Nat
    OBVIOUS
  <2>. HIDE DEF U
  <2>. QED  BY <2>1, LeastNumber
<1>2. k \in 1 .. n /\ k - 1 \in 0 .. n - 1 /\ k - 1 \notin U
  BY <1>1
<1>. QED  BY <1>1, <1>2
-----------------------------------------------------------------------------
(* Sequences *)

IsSeq(s) == s \in Seq({s[i] : i \in DOMAIN s})

LEMMA SeqIs ==
  ASSUME NEW S, NEW s \in Seq(S)
  PROVE  IsSeq(s)
<1>1. Len(s) \in Nat /\ s \in [1 .. Len(s) -> S] /\ DOMAIN s = 1 .. Len(s)
  BY LenProperties
<1>2. s \in [1 .. Len(s) -> {s[i] : i \in DOMAIN s}]
  BY <1>1
<1>. QED  BY <1>1, <1>2, SeqDef DEF IsSeq

LEMMA SeqShape ==
  ASSUME NEW s, IsSeq(s)
  PROVE  /\ Len(s) \in Nat /\ DOMAIN s = 1 .. Len(s)
         /\ s = [i \in 1 .. Len(s) |-> s[i]]
         /\ s = <<>> <=> Len(s) = 0
<1>1. /\ Len(s) \in Nat /\ DOMAIN s = 1 .. Len(s)
      /\ s \in [1 .. Len(s) -> {s[i] : i \in DOMAIN s}]
  BY LenProperties DEF IsSeq
<1>2. s = [i \in 1 .. Len(s) |-> s[i]]
  BY <1>1
<1>3. s /= <<>> => Len(s) \in Nat \ {0}
  BY EmptySeq DEF IsSeq
<1>4. Len(<<>>) = 0
  BY EmptySeq
<1>. QED  BY <1>1, <1>2, <1>3, <1>4

LEMMA NoneIsSeq == IsSeq(<<>>)
BY EmptySeq, SeqIs

LEMMA OfLength ==
  ASSUME NEW n \in Nat, NEW s, s = [i \in 1 .. n |-> s[i]]
  PROVE  IsSeq(s) /\ Len(s) = n
<1>1. s \in [1 .. n -> {s[i] : i \in DOMAIN s}] /\ DOMAIN s = 1 .. n
  OBVIOUS
<1>2. s \in Seq({s[i] : i \in DOMAIN s})
  BY <1>1, SeqDef
<1>3. 1 .. Len(s) = 1 .. n /\ Len(s) \in Nat
  BY <1>1, <1>2, LenProperties
<1>4. Len(s) = n
  BY <1>3
<1>. QED  BY <1>2, <1>4 DEF IsSeq

LEMMA AppendSeq ==
  ASSUME NEW s, IsSeq(s), NEW x
  PROVE  /\ IsSeq(Append(s, x))
         /\ Len(Append(s, x)) = Len(s) + 1
         /\ \A i \in 1 .. Len(s) : Append(s, x)[i] = s[i]
         /\ Append(s, x)[Len(s) + 1] = x
<1>. DEFINE S == {s[i] : i \in DOMAIN s} \cup {x}
<1>1. s \in Seq(S) /\ x \in S
  BY SeqMonotonic DEF IsSeq
<1>2. Len(s) \in Nat
  BY SeqShape
<1>3. /\ Append(s, x) \in Seq(S) /\ Len(Append(s, x)) = Len(s) + 1
      /\ \A i \in 1 .. Len(s) : Append(s, x)[i] = s[i]
      /\ Append(s, x)[Len(s) + 1] = x
  <2>. HIDE DEF S
  <2>. QED  BY <1>1, AppendProperties
<1>. QED  BY <1>3, SeqIs

LEMMA FrontSeq ==
  ASSUME NEW s, IsSeq(s), s /= <<>>
  PROVE  /\ IsSeq(Front(s))
         /\ Len(Front(s)) = Len(s) - 1
         /\ \A i \in 1 .. (Len(s) - 1) : Front(s)[i] = s[i]
<1>1. Len(s) \in Nat /\ Len(s) /= 0 /\ DOMAIN s = 1 .. Len(s)
  BY SeqShape
<1>. DEFINE S == {s[i] : i \in DOMAIN s}
            n == Len(s) - 1
<1>2. n \in Int /\ 1 \in Int /\ \A i \in 1 .. n : s[i] \in S
  BY <1>1
<1>3. /\ SubSeq(s, 1, n) \in Seq(S)
      /\ Len(SubSeq(s, 1, n)) = IF 1 <= n THEN n - 1 + 1 ELSE 0
      /\ \A i \in 1 .. n - 1 + 1 : SubSeq(s, 1, n)[i] = s[1 + i - 1]
  <2>. HIDE DEF S, n
  <2>. QED  BY <1>2, SubSeqProperties
<1>4. IsSeq(SubSeq(s, 1, n))
  BY <1>3, SeqIs
<1>. QED  BY <1>1, <1>3, <1>4 DEF Front

LEMMA SameSeq ==
  ASSUME NEW s, IsSeq(s), NEW u, IsSeq(u), Len(s) = Len(u),
         \A i \in 1 .. Len(s) : s[i] = u[i]
  PROVE  s = u
BY SeqShape

LEMMA FrontOfAppend ==
  ASSUME NEW s, IsSeq(s), NEW x
  PROVE  Front(Append(s, x)) = s
<1>1. /\ Len(s) \in Nat /\ IsSeq(Append(s, x)) /\ Len(Append(s, x)) = Len(s) + 1
      /\ \A i \in 1 .. Len(s) : Append(s, x)[i] = s[i]
  BY SeqShape, AppendSeq
<1>2. Append(s, x) /= <<>>
  BY <1>1, SeqShape
<1>3. /\ IsSeq(Front(Append(s, x))) /\ Len(Front(Append(s, x))) = Len(s)
      /\ \A i \in 1 .. Len(s) : Front(Append(s, x))[i] = Append(s, x)[i]
  <2>1. Len(Append(s, x)) - 1 = Len(s)
    BY <1>1
  <2>. QED  BY <1>1, <1>2, <2>1, FrontSeq
<1>. QED  BY <1>1, <1>3, SameSeq
-----------------------------------------------------------------------------
(* The recursive functions of Macros are what their definitions say: there *)
(* is a function that makes each of its steps, by induction on its length. *)
(* The lemmas differ in the step only, which cannot be a parameter.        *)

LEMMA AfterEachIs ==
  ASSUME NEW mm, NEW list, IsSeq(list), NEW reading
  PROVE  /\ AfterEach(mm, list, reading)[0] = mm
         /\ \A i \in 1 .. Len(list) :
              AfterEach(mm, list, reading)[i] =
                setvar_daemon(AfterEach(mm, list, reading)[i - 1], list[i], reading)
<1>. DEFINE Step(x, i) == setvar_daemon(x, list[i], reading)
            Made(g, k) == g = [i \in 0 .. k |-> IF i = 0 THEN mm ELSE Step(g[i - 1], i)]
            Can(k) == \E g : Made(g, k)
            T == {k \in 0 .. Len(list) : Can(k)}
<1>1. Len(list) \in Nat
  BY SeqShape
<1>2. Can(0)
  <2>. HIDE DEF Step
  <2>1. Made([i \in 0 .. 0 |-> mm], 0)
    OBVIOUS
  <2>. QED  BY <2>1
<1>3. ASSUME NEW k \in 0 .. Len(list) - 1, Can(k) PROVE Can(k + 1)
  <2>. HIDE DEF Step
  <2>1. PICK g : Made(g, k)
    BY <1>3
  <2>. DEFINE h == [i \in 0 .. k + 1 |-> IF i = k + 1 THEN Step(g[k], k + 1) ELSE g[i]]
  <2>2. \A i \in 0 .. k : h[i] = g[i] /\ g[i] = IF i = 0 THEN mm ELSE Step(g[i - 1], i)
    BY <2>1
  <2>3. h[k + 1] = Step(h[k], k + 1)
    BY <2>2
  <2>4. ASSUME NEW i \in 1 .. k PROVE h[i] = Step(h[i - 1], i)
    <3>1. i - 1 \in 0 .. k /\ i \in 0 .. k /\ i /= 0
      OBVIOUS
    <3>2. g[i] = Step(g[i - 1], i)
      BY <2>2, <3>1
    <3>3. h[i] = g[i] /\ h[i - 1] = g[i - 1]
      BY <2>2, <3>1
    <3>. QED  BY <3>2, <3>3
  <2>5. h = [i \in 0 .. k + 1 |-> h[i]] /\ h[0] = mm
    BY <2>2
  <2>6. h = [i \in 0 .. k + 1 |-> IF i = 0 THEN mm ELSE Step(h[i - 1], i)]
    <3>. HIDE DEF h
    <3>1. \A i \in 0 .. k + 1 : h[i] = IF i = 0 THEN mm ELSE Step(h[i - 1], i)
      <4>. TAKE i \in 0 .. k + 1
      <4>1. i = 0 \/ i \in 1 .. k \/ (i = k + 1 /\ i - 1 = k /\ i /= 0)
        BY <1>1
      <4>. QED  BY <2>3, <2>4, <2>5, <4>1
    <3>. QED  BY <2>5, <3>1
  <2>. HIDE DEF h
  <2>. QED  BY <2>6
<1>4. Can(Len(list))
  <2>. HIDE DEF Can
  <2>1. 0 \in T /\ \A k \in 0 .. Len(list) - 1 : k \in T => k + 1 \in T
    BY <1>1, <1>2, <1>3
  <2>. HIDE DEF T
  <2>2. 0 .. Len(list) \subseteq T
    BY <1>1, <2>1, Upwards
  <2>3. Len(list) \in T
    BY <1>1, <2>2
  <2>. QED  BY <2>3 DEF T
<1>5. Made(AfterEach(mm, list, reading), Len(list))
  BY <1>4 DEF AfterEach
<1>. QED  BY <1>1, <1>5

LEMMA ActivatedIs ==
  ASSUME NEW mm, NEW targets, IsSeq(targets)
  PROVE  /\ Activated(mm, targets)[0] = mm
         /\ \A i \in 1 .. Len(targets) :
              Activated(mm, targets)[i] =
                set_locals(Activated(mm, targets)[i - 1], targets[i]).m
<1>. DEFINE Step(x, i) == set_locals(x, targets[i]).m
            Made(g, k) == g = [i \in 0 .. k |-> IF i = 0 THEN mm ELSE Step(g[i - 1], i)]
            Can(k) == \E g : Made(g, k)
            T == {k \in 0 .. Len(targets) : Can(k)}
<1>1. Len(targets) \in Nat
  BY SeqShape
<1>2. Can(0)
  <2>. HIDE DEF Step
  <2>1. Made([i \in 0 .. 0 |-> mm], 0)
    OBVIOUS
  <2>. QED  BY <2>1
<1>3. ASSUME NEW k \in 0 .. Len(targets) - 1, Can(k) PROVE Can(k + 1)
  <2>. HIDE DEF Step
  <2>1. PICK g : Made(g, k)
    BY <1>3
  <2>. DEFINE h == [i \in 0 .. k + 1 |-> IF i = k + 1 THEN Step(g[k], k + 1) ELSE g[i]]
  <2>2. \A i \in 0 .. k : h[i] = g[i] /\ g[i] = IF i = 0 THEN mm ELSE Step(g[i - 1], i)
    BY <2>1
  <2>3. h[k + 1] = Step(h[k], k + 1)
    BY <2>2
  <2>4. ASSUME NEW i \in 1 .. k PROVE h[i] = Step(h[i - 1], i)
    <3>1. i - 1 \in 0 .. k /\ i \in 0 .. k /\ i /= 0
      OBVIOUS
    <3>2. g[i] = Step(g[i - 1], i)
      BY <2>2, <3>1
    <3>3. h[i] = g[i] /\ h[i - 1] = g[i - 1]
      BY <2>2, <3>1
    <3>. QED  BY <3>2, <3>3
  <2>5. h = [i \in 0 .. k + 1 |-> h[i]] /\ h[0] = mm
    BY <2>2
  <2>6. h = [i \in 0 .. k + 1 |-> IF i = 0 THEN mm ELSE Step(h[i - 1], i)]
    <3>. HIDE DEF h
    <3>1. \A i \in 0 .. k + 1 : h[i] = IF i = 0 THEN mm ELSE Step(h[i - 1], i)
      <4>. TAKE i \in 0 .. k + 1
      <4>1. i = 0 \/ i \in 1 .. k \/ (i = k + 1 /\ i - 1 = k /\ i /= 0)
        BY <1>1
      <4>. QED  BY <2>3, <2>4, <2>5, <4>1
    <3>. QED  BY <2>5, <3>1
  <2>. HIDE DEF h
  <2>. QED  BY <2>6
<1>4. Can(Len(targets))
  <2>. HIDE DEF Can
  <2>1. 0 \in T /\ \A k \in 0 .. Len(targets) - 1 : k \in T => k + 1 \in T
    BY <1>1, <1>2, <1>3
  <2>. HIDE DEF T
  <2>2. 0 .. Len(targets) \subseteq T
    BY <1>1, <2>1, Upwards
  <2>3. Len(targets) \in T
    BY <1>1, <2>2
  <2>. QED  BY <2>3 DEF T
<1>5. Made(Activated(mm, targets), Len(targets))
  BY <1>4 DEF Activated
<1>. QED  BY <1>1, <1>5

LEMMA ChosenIs ==
  ASSUME NEW list, IsSeq(list), NEW S
  PROVE  \E f : /\ f[0] = <<>>
                /\ \A i \in 1 .. Len(list) :
                     f[i] = (IF i \in S THEN Append(f[i - 1], list[i]) ELSE f[i - 1])
                /\ Chosen(list, S) = f[Len(list)]
<1>. DEFINE Step(x, i) == (IF i \in S THEN Append(x, list[i]) ELSE x)
            Made(g, k) == g = [i \in 0 .. k |-> IF i = 0 THEN <<>> ELSE Step(g[i - 1], i)]
            Can(k) == \E g : Made(g, k)
            T == {k \in 0 .. Len(list) : Can(k)}
<1>1. Len(list) \in Nat
  BY SeqShape
<1>2. Can(0)
  <2>. HIDE DEF Step
  <2>1. Made([i \in 0 .. 0 |-> <<>>], 0)
    OBVIOUS
  <2>. QED  BY <2>1
<1>3. ASSUME NEW k \in 0 .. Len(list) - 1, Can(k) PROVE Can(k + 1)
  <2>. HIDE DEF Step
  <2>1. PICK g : Made(g, k)
    BY <1>3
  <2>. DEFINE h == [i \in 0 .. k + 1 |-> IF i = k + 1 THEN Step(g[k], k + 1) ELSE g[i]]
  <2>2. \A i \in 0 .. k : h[i] = g[i] /\ g[i] = IF i = 0 THEN <<>> ELSE Step(g[i - 1], i)
    BY <2>1
  <2>3. h[k + 1] = Step(h[k], k + 1)
    BY <2>2
  <2>4. ASSUME NEW i \in 1 .. k PROVE h[i] = Step(h[i - 1], i)
    <3>1. i - 1 \in 0 .. k /\ i \in 0 .. k /\ i /= 0
      OBVIOUS
    <3>2. g[i] = Step(g[i - 1], i)
      BY <2>2, <3>1
    <3>3. h[i] = g[i] /\ h[i - 1] = g[i - 1]
      BY <2>2, <3>1
    <3>. QED  BY <3>2, <3>3
  <2>5. h = [i \in 0 .. k + 1 |-> h[i]] /\ h[0] = <<>>
    BY <2>2
  <2>6. h = [i \in 0 .. k + 1 |-> IF i = 0 THEN <<>> ELSE Step(h[i - 1], i)]
    <3>. HIDE DEF h
    <3>1. \A i \in 0 .. k + 1 : h[i] = IF i = 0 THEN <<>> ELSE Step(h[i - 1], i)
      <4>. TAKE i \in 0 .. k + 1
      <4>1. i = 0 \/ i \in 1 .. k \/ (i = k + 1 /\ i - 1 = k /\ i /= 0)
        BY <1>1
      <4>. QED  BY <2>3, <2>4, <2>5, <4>1
    <3>. QED  BY <2>5, <3>1
  <2>. HIDE DEF h
  <2>. QED  BY <2>6
<1>4. Can(Len(list))
  <2>. HIDE DEF Can
  <2>1. 0 \in T /\ \A k \in 0 .. Len(list) - 1 : k \in T => k + 1 \in T
    BY <1>1, <1>2, <1>3
  <2>. HIDE DEF T
  <2>2. 0 .. Len(list) \subseteq T
    BY <1>1, <2>1, Upwards
  <2>3. Len(list) \in T
    BY <1>1, <2>2
  <2>. QED  BY <2>3 DEF T
<1>5. PICK f : f = CHOOSE g : Made(g, Len(list))
  OBVIOUS
<1>6. Made(f, Len(list))
  BY <1>4, <1>5
<1>7. Chosen(list, S) = f[Len(list)]
  BY <1>5 DEF Chosen
<1>8. f[0] = <<>> /\ \A i \in 1 .. Len(list) : f[i] = Step(f[i - 1], i)
  <2>. HIDE DEF Step
  <2>. QED  BY <1>1, <1>6
<1>. QED  BY <1>7, <1>8

LEMMA ArgumentsAre ==
  ASSUME NEW mm, NEW args, IsSeq(args)
  PROVE  \E f : /\ f[0] = mm
                /\ \A i \in 1 .. Len(args) : f[i] = enter_argv_value(f[i - 1], args[i])
                /\ enter_argv_values(mm, args) = f[Len(args)]
<1>. DEFINE Step(x, i) == enter_argv_value(x, args[i])
            Made(g, k) == g = [i \in 0 .. k |-> IF i = 0 THEN mm ELSE Step(g[i - 1], i)]
            Can(k) == \E g : Made(g, k)
            T == {k \in 0 .. Len(args) : Can(k)}
<1>1. Len(args) \in Nat
  BY SeqShape
<1>2. Can(0)
  <2>. HIDE DEF Step
  <2>1. Made([i \in 0 .. 0 |-> mm], 0)
    OBVIOUS
  <2>. QED  BY <2>1
<1>3. ASSUME NEW k \in 0 .. Len(args) - 1, Can(k) PROVE Can(k + 1)
  <2>. HIDE DEF Step
  <2>1. PICK g : Made(g, k)
    BY <1>3
  <2>. DEFINE h == [i \in 0 .. k + 1 |-> IF i = k + 1 THEN Step(g[k], k + 1) ELSE g[i]]
  <2>2. \A i \in 0 .. k : h[i] = g[i] /\ g[i] = IF i = 0 THEN mm ELSE Step(g[i - 1], i)
    BY <2>1
  <2>3. h[k + 1] = Step(h[k], k + 1)
    BY <2>2
  <2>4. ASSUME NEW i \in 1 .. k PROVE h[i] = Step(h[i - 1], i)
    <3>1. i - 1 \in 0 .. k /\ i \in 0 .. k /\ i /= 0
      OBVIOUS
    <3>2. g[i] = Step(g[i - 1], i)
      BY <2>2, <3>1
    <3>3. h[i] = g[i] /\ h[i - 1] = g[i - 1]
      BY <2>2, <3>1
    <3>. QED  BY <3>2, <3>3
  <2>5. h = [i \in 0 .. k + 1 |-> h[i]] /\ h[0] = mm
    BY <2>2
  <2>6. h = [i \in 0 .. k + 1 |-> IF i = 0 THEN mm ELSE Step(h[i - 1], i)]
    <3>. HIDE DEF h
    <3>1. \A i \in 0 .. k + 1 : h[i] = IF i = 0 THEN mm ELSE Step(h[i - 1], i)
      <4>. TAKE i \in 0 .. k + 1
      <4>1. i = 0 \/ i \in 1 .. k \/ (i = k + 1 /\ i - 1 = k /\ i /= 0)
        BY <1>1
      <4>. QED  BY <2>3, <2>4, <2>5, <4>1
    <3>. QED  BY <2>5, <3>1
  <2>. HIDE DEF h
  <2>. QED  BY <2>6
<1>4. Can(Len(args))
  <2>. HIDE DEF Can
  <2>1. 0 \in T /\ \A k \in 0 .. Len(args) - 1 : k \in T => k + 1 \in T
    BY <1>1, <1>2, <1>3
  <2>. HIDE DEF T
  <2>2. 0 .. Len(args) \subseteq T
    BY <1>1, <2>1, Upwards
  <2>3. Len(args) \in T
    BY <1>1, <2>2
  <2>. QED  BY <2>3 DEF T
<1>5. PICK f : f = CHOOSE g : Made(g, Len(args))
  OBVIOUS
<1>6. Made(f, Len(args))
  BY <1>4, <1>5
<1>7. enter_argv_values(mm, args) = f[Len(args)]
  BY <1>5 DEF enter_argv_values
<1>8. f[0] = mm /\ \A i \in 1 .. Len(args) : f[i] = Step(f[i - 1], i)
  <2>. HIDE DEF Step
  <2>. QED  BY <1>1, <1>6
<1>. QED  BY <1>7, <1>8

LEMMA MergedIs ==
  ASSUME NEW t, NEW list, IsSeq(list), list = Entered(t, "pattern")
  PROVE  \E f : /\ f[0] = Entered(t, "conditional")
                /\ \A i \in 1 .. Len(list) : f[i] = InSequence(f[i - 1], list[i])
                /\ add_pattern_conditionals(t) =
                     [k \in DOMAIN f[Len(list)] |-> Makefile[f[Len(list)][k]]]
<1>. DEFINE Step(x, i) == InSequence(x, list[i])
            Made(g, k) == g = [i \in 0 .. k |->
                IF i = 0 THEN Entered(t, "conditional") ELSE Step(g[i - 1], i)]
            Can(k) == \E g : Made(g, k)
            T == {k \in 0 .. Len(list) : Can(k)}
<1>1. Len(list) \in Nat
  BY SeqShape
<1>2. Can(0)
  <2>. HIDE DEF Step
  <2>1. Made([i \in 0 .. 0 |-> Entered(t, "conditional")], 0)
    OBVIOUS
  <2>. QED  BY <2>1
<1>3. ASSUME NEW k \in 0 .. Len(list) - 1, Can(k) PROVE Can(k + 1)
  <2>. HIDE DEF Step
  <2>1. PICK g : Made(g, k)
    BY <1>3
  <2>. DEFINE h == [i \in 0 .. k + 1 |-> IF i = k + 1 THEN Step(g[k], k + 1) ELSE g[i]]
  <2>2. \A i \in 0 .. k :
          h[i] = g[i] /\ g[i] = IF i = 0 THEN Entered(t, "conditional") ELSE Step(g[i - 1], i)
    BY <2>1
  <2>3. h[k + 1] = Step(h[k], k + 1)
    BY <2>2
  <2>4. ASSUME NEW i \in 1 .. k PROVE h[i] = Step(h[i - 1], i)
    <3>1. i - 1 \in 0 .. k /\ i \in 0 .. k /\ i /= 0
      OBVIOUS
    <3>2. g[i] = Step(g[i - 1], i)
      BY <2>2, <3>1
    <3>3. h[i] = g[i] /\ h[i - 1] = g[i - 1]
      BY <2>2, <3>1
    <3>. QED  BY <3>2, <3>3
  <2>5. h = [i \in 0 .. k + 1 |-> h[i]] /\ h[0] = Entered(t, "conditional")
    BY <2>2
  <2>6. h = [i \in 0 .. k + 1 |-> IF i = 0 THEN Entered(t, "conditional") ELSE Step(h[i - 1], i)]
    <3>. HIDE DEF h
    <3>1. \A i \in 0 .. k + 1 :
            h[i] = IF i = 0 THEN Entered(t, "conditional") ELSE Step(h[i - 1], i)
      <4>. TAKE i \in 0 .. k + 1
      <4>1. i = 0 \/ i \in 1 .. k \/ (i = k + 1 /\ i - 1 = k /\ i /= 0)
        BY <1>1
      <4>. QED  BY <2>3, <2>4, <2>5, <4>1
    <3>. QED  BY <2>5, <3>1
  <2>. HIDE DEF h
  <2>. QED  BY <2>6
<1>4. Can(Len(list))
  <2>. HIDE DEF Can
  <2>1. 0 \in T /\ \A k \in 0 .. Len(list) - 1 : k \in T => k + 1 \in T
    BY <1>1, <1>2, <1>3
  <2>. HIDE DEF T
  <2>2. 0 .. Len(list) \subseteq T
    BY <1>1, <2>1, Upwards
  <2>3. Len(list) \in T
    BY <1>1, <2>2
  <2>. QED  BY <2>3 DEF T
<1>5. PICK f : f = CHOOSE g : Made(g, Len(list))
  OBVIOUS
<1>6. Made(f, Len(list))
  BY <1>4, <1>5
<1>7. add_pattern_conditionals(t) =
        [k \in DOMAIN f[Len(list)] |-> Makefile[f[Len(list)][k]]]
  BY <1>5 DEF add_pattern_conditionals
<1>8. f[0] = Entered(t, "conditional") /\ \A i \in 1 .. Len(list) : f[i] = Step(f[i - 1], i)
  <2>. HIDE DEF Step
  <2>. QED  BY <1>1, <1>6
<1>. QED  BY <1>7, <1>8

Put(x, n, v) == [x EXCEPT !.body[n] = v]

PutEach(f, mm, list, old) ==
    /\ f[0] = mm
    /\ \A i \in 1 .. Len(list) :
         f[i] = Put(f[i - 1], list[Len(list) + 1 - i].name, old[Len(list) + 1 - i])
    /\ Backwards(mm, list, old) = f[Len(list)]

LEMMA BackwardsIs ==
  ASSUME NEW mm, NEW list, IsSeq(list), NEW old
  PROVE  \E f : PutEach(f, mm, list, old)
<1>. DEFINE Step(x, i) == Put(x, list[Len(list) + 1 - i].name, old[Len(list) + 1 - i])
            Made(g, k) == g = [i \in 0 .. k |-> IF i = 0 THEN mm ELSE Step(g[i - 1], i)]
            Can(k) == \E g : Made(g, k)
            T == {k \in 0 .. Len(list) : Can(k)}
<1>1. Len(list) \in Nat
  BY SeqShape
<1>2. Can(0)
  <2>. HIDE DEF Step
  <2>1. Made([i \in 0 .. 0 |-> mm], 0)
    OBVIOUS
  <2>. QED  BY <2>1
<1>3. ASSUME NEW k \in 0 .. Len(list) - 1, Can(k) PROVE Can(k + 1)
  <2>. HIDE DEF Step
  <2>1. PICK g : Made(g, k)
    BY <1>3
  <2>. DEFINE h == [i \in 0 .. k + 1 |-> IF i = k + 1 THEN Step(g[k], k + 1) ELSE g[i]]
  <2>2. \A i \in 0 .. k : h[i] = g[i] /\ g[i] = IF i = 0 THEN mm ELSE Step(g[i - 1], i)
    BY <2>1
  <2>3. h[k + 1] = Step(h[k], k + 1)
    BY <2>2
  <2>4. ASSUME NEW i \in 1 .. k PROVE h[i] = Step(h[i - 1], i)
    <3>1. i - 1 \in 0 .. k /\ i \in 0 .. k /\ i /= 0
      OBVIOUS
    <3>2. g[i] = Step(g[i - 1], i)
      BY <2>2, <3>1
    <3>3. h[i] = g[i] /\ h[i - 1] = g[i - 1]
      BY <2>2, <3>1
    <3>. QED  BY <3>2, <3>3
  <2>5. h = [i \in 0 .. k + 1 |-> h[i]] /\ h[0] = mm
    BY <2>2
  <2>6. h = [i \in 0 .. k + 1 |-> IF i = 0 THEN mm ELSE Step(h[i - 1], i)]
    <3>. HIDE DEF h
    <3>1. \A i \in 0 .. k + 1 : h[i] = IF i = 0 THEN mm ELSE Step(h[i - 1], i)
      <4>. TAKE i \in 0 .. k + 1
      <4>1. i = 0 \/ i \in 1 .. k \/ (i = k + 1 /\ i - 1 = k /\ i /= 0)
        BY <1>1
      <4>. QED  BY <2>3, <2>4, <2>5, <4>1
    <3>. QED  BY <2>5, <3>1
  <2>. HIDE DEF h
  <2>. QED  BY <2>6
<1>4. Can(Len(list))
  <2>. HIDE DEF Can
  <2>1. 0 \in T /\ \A k \in 0 .. Len(list) - 1 : k \in T => k + 1 \in T
    BY <1>1, <1>2, <1>3
  <2>. HIDE DEF T
  <2>2. 0 .. Len(list) \subseteq T
    BY <1>1, <2>1, Upwards
  <2>3. Len(list) \in T
    BY <1>1, <2>2
  <2>. QED  BY <2>3 DEF T
<1>5. PICK f : f = CHOOSE g : Made(g, Len(list))
  OBVIOUS
<1>6. Made(f, Len(list))
  BY <1>4, <1>5
<1>7. Backwards(mm, list, old) = f[Len(list)]
  BY <1>5 DEF Backwards, Put
<1>8. f[0] = mm /\ \A i \in 1 .. Len(list) : f[i] = Step(f[i - 1], i)
  <2>. HIDE DEF Step
  <2>. QED  BY <1>1, <1>6
<1>. QED  BY <1>7, <1>8 DEF PutEach

ResetEach(f, mm, targets, old) ==
    /\ f[0] = mm
    /\ \A i \in 1 .. Len(targets) :
         f[i] = reset_locals(f[i - 1], targets[Len(targets) + 1 - i], old[Len(targets) + 1 - i])
    /\ reset_conditionals(mm, targets, old) = f[Len(targets)]

LEMMA ResetIs ==
  ASSUME NEW mm, NEW targets, IsSeq(targets), NEW old
  PROVE  \E f : ResetEach(f, mm, targets, old)
<1>. DEFINE Step(x, i) == reset_locals(x, targets[Len(targets) + 1 - i], old[Len(targets) + 1 - i])
            Made(g, k) == g = [i \in 0 .. k |-> IF i = 0 THEN mm ELSE Step(g[i - 1], i)]
            Can(k) == \E g : Made(g, k)
            T == {k \in 0 .. Len(targets) : Can(k)}
<1>1. Len(targets) \in Nat
  BY SeqShape
<1>2. Can(0)
  <2>. HIDE DEF Step
  <2>1. Made([i \in 0 .. 0 |-> mm], 0)
    OBVIOUS
  <2>. QED  BY <2>1
<1>3. ASSUME NEW k \in 0 .. Len(targets) - 1, Can(k) PROVE Can(k + 1)
  <2>. HIDE DEF Step
  <2>1. PICK g : Made(g, k)
    BY <1>3
  <2>. DEFINE h == [i \in 0 .. k + 1 |-> IF i = k + 1 THEN Step(g[k], k + 1) ELSE g[i]]
  <2>2. \A i \in 0 .. k : h[i] = g[i] /\ g[i] = IF i = 0 THEN mm ELSE Step(g[i - 1], i)
    BY <2>1
  <2>3. h[k + 1] = Step(h[k], k + 1)
    BY <2>2
  <2>4. ASSUME NEW i \in 1 .. k PROVE h[i] = Step(h[i - 1], i)
    <3>1. i - 1 \in 0 .. k /\ i \in 0 .. k /\ i /= 0
      OBVIOUS
    <3>2. g[i] = Step(g[i - 1], i)
      BY <2>2, <3>1
    <3>3. h[i] = g[i] /\ h[i - 1] = g[i - 1]
      BY <2>2, <3>1
    <3>. QED  BY <3>2, <3>3
  <2>5. h = [i \in 0 .. k + 1 |-> h[i]] /\ h[0] = mm
    BY <2>2
  <2>6. h = [i \in 0 .. k + 1 |-> IF i = 0 THEN mm ELSE Step(h[i - 1], i)]
    <3>. HIDE DEF h
    <3>1. \A i \in 0 .. k + 1 : h[i] = IF i = 0 THEN mm ELSE Step(h[i - 1], i)
      <4>. TAKE i \in 0 .. k + 1
      <4>1. i = 0 \/ i \in 1 .. k \/ (i = k + 1 /\ i - 1 = k /\ i /= 0)
        BY <1>1
      <4>. QED  BY <2>3, <2>4, <2>5, <4>1
    <3>. QED  BY <2>5, <3>1
  <2>. HIDE DEF h
  <2>. QED  BY <2>6
<1>4. Can(Len(targets))
  <2>. HIDE DEF Can
  <2>1. 0 \in T /\ \A k \in 0 .. Len(targets) - 1 : k \in T => k + 1 \in T
    BY <1>1, <1>2, <1>3
  <2>. HIDE DEF T
  <2>2. 0 .. Len(targets) \subseteq T
    BY <1>1, <2>1, Upwards
  <2>3. Len(targets) \in T
    BY <1>1, <2>2
  <2>. QED  BY <2>3 DEF T
<1>5. PICK f : f = CHOOSE g : Made(g, Len(targets))
  OBVIOUS
<1>6. Made(f, Len(targets))
  BY <1>4, <1>5
<1>7. reset_conditionals(mm, targets, old) = f[Len(targets)]
  BY <1>5 DEF reset_conditionals
<1>8. f[0] = mm /\ \A i \in 1 .. Len(targets) : f[i] = Step(f[i - 1], i)
  <2>. HIDE DEF Step
  <2>. QED  BY <1>1, <1>6
<1>. QED  BY <1>7, <1>8 DEF ResetEach

-----------------------------------------------------------------------------
(* Values are set and put back *)

Shaped(x) ==
    /\ x = [body |-> x.body, appendix |-> x.appendix, env |-> x.env,
            conditional_targets |-> x.conditional_targets, held |-> x.held]
    /\ x.body = [n \in DOMAIN x.body |-> x.body[n]]
    /\ IsSeq(x.conditional_targets)

\* x and y are the same but for the environment and what is to be appended.
Same(x, y) == x.body = y.body /\ x.held = y.held
Like(x, y) == Same(x, y) /\ x.conditional_targets = y.conditional_targets

\* y has the values of x but for the macro n.
Except(x, y, n) ==
    /\ y.conditional_targets = x.conditional_targets /\ y.held = x.held
    /\ DOMAIN y.body = DOMAIN x.body
    /\ \A k \in DOMAIN x.body : k /= n => y.body[k] = x.body[k]

LEMMA DaemonKeeps ==
  ASSUME NEW mm, Shaped(mm), NEW a, NEW reading, NEW d, d = setvar_daemon(mm, a, reading)
  PROVE  Shaped(d) /\ Except(mm, d, a.name)
<1>1. CASE d = mm
  BY <1>1 DEF Except
<1>2. CASE \E v, w, e : d = [mm EXCEPT !.body[a.name].value = v,
                                       !.appendix[a.name].value = w, !.env = e]
  <2>1. PICK v, w, e : d = [mm EXCEPT !.body[a.name].value = v,
                                      !.appendix[a.name].value = w, !.env = e]
    BY <1>2
  <2>2. PICK b, p : /\ b = [mm.body EXCEPT ![a.name].value = v]
                    /\ p = [mm.appendix EXCEPT ![a.name].value = w]
    OBVIOUS
  <2>3. d = [body |-> b, appendix |-> p, env |-> e,
             conditional_targets |-> mm.conditional_targets, held |-> mm.held]
    BY <2>1, <2>2 DEF Shaped
  <2>4. /\ b = [n \in DOMAIN b |-> b[n]] /\ DOMAIN b = DOMAIN mm.body
        /\ \A k \in DOMAIN mm.body : k /= a.name => b[k] = mm.body[k]
    BY <2>2 DEF Shaped
  <2>. QED  BY <2>3, <2>4 DEF Shaped, Except
<1>. QED  BY <1>1, <1>2 DEF setvar_daemon

\* One value is put back.
LEMMA PutBack ==
  ASSUME NEW x, Shaped(x), NEW y, Shaped(y), NEW n, Except(x, y, n),
         NEW z, Shaped(z), Same(z, y),
         NEW u, u = Put(z, n, x.body[n])
  PROVE  Shaped(u) /\ Same(u, x) /\ u.conditional_targets = z.conditional_targets
<1>1. PICK b : b = [z.body EXCEPT ![n] = x.body[n]]
  OBVIOUS
<1>2. u = [body |-> b, appendix |-> z.appendix, env |-> z.env,
           conditional_targets |-> z.conditional_targets, held |-> z.held]
  BY <1>1 DEF Shaped, Put
<1>3. b = [k \in DOMAIN b |-> b[k]] /\ DOMAIN b = DOMAIN x.body
      /\ \A k \in DOMAIN x.body : b[k] = x.body[k]
  BY <1>1 DEF Shaped, Same, Except
<1>4. b = x.body
  BY <1>3 DEF Shaped
<1>. QED  BY <1>2, <1>3, <1>4 DEF Shaped, Same, Except

LEMMA AfterShaped ==
  ASSUME NEW mm, Shaped(mm), NEW c, IsSeq(c), NEW reading,
         NEW after, after = AfterEach(mm, c, reading)
  PROVE  \A i \in 0 .. Len(c) : /\ Shaped(after[i])
                                /\ after[i].held = mm.held
                                /\ after[i].conditional_targets = mm.conditional_targets
<1>. DEFINE Fine(i) == /\ Shaped(after[i])
                       /\ after[i].held = mm.held
                       /\ after[i].conditional_targets = mm.conditional_targets
            T == {i \in 0 .. Len(c) : Fine(i)}
<1>1. Len(c) \in Nat
  BY SeqShape
<1>2. after[0] = mm /\ \A i \in 1 .. Len(c) : after[i] = setvar_daemon(after[i - 1], c[i], reading)
  BY AfterEachIs
<1>3. Fine(0)
  BY <1>2
<1>4. ASSUME NEW i \in 0 .. Len(c) - 1, Fine(i) PROVE Fine(i + 1)
  <2>1. i + 1 \in 1 .. Len(c) /\ i + 1 - 1 = i
    BY <1>1
  <2>2. after[i + 1] = setvar_daemon(after[i], c[i + 1], reading)
    BY <1>2, <2>1
  <2>3. Shaped(after[i + 1]) /\ Except(after[i], after[i + 1], c[i + 1].name)
    BY <1>4, <2>2, DaemonKeeps
  <2>. QED  BY <1>4, <2>3 DEF Except
<1>. HIDE DEF Fine
<1>5. 0 \in T /\ \A i \in 0 .. Len(c) - 1 : i \in T => i + 1 \in T
  BY <1>1, <1>3, <1>4
<1>. HIDE DEF T
<1>6. 0 .. Len(c) \subseteq T
  BY <1>1, <1>5, Upwards
<1>. QED  BY <1>6 DEF T, Fine

\* The values each assignment found.
Before(after, c) == [i \in DOMAIN c |-> after[i - 1].body[c[i].name]]

\* Each value is put back to what it was before it was set, the last one first.
LEMMA BackwardsRestores ==
  ASSUME NEW mm, Shaped(mm), NEW c, IsSeq(c), NEW reading,
         NEW after, after = AfterEach(mm, c, reading),
         NEW old, old = Before(after, c),
         NEW y, Shaped(y), Same(y, after[Len(c)]),
         NEW z, z = Backwards(y, c, old)
  PROVE  Shaped(z) /\ Same(z, mm) /\ z.conditional_targets = y.conditional_targets
<1>1. Len(c) \in Nat /\ DOMAIN c = 1 .. Len(c)
  BY SeqShape
<1>2. after[0] = mm /\ \A i \in 1 .. Len(c) : after[i] = setvar_daemon(after[i - 1], c[i], reading)
  BY AfterEachIs
<1>3. \A i \in 0 .. Len(c) : Shaped(after[i])
  BY AfterShaped
<1>4. PICK n \in Nat : n = Len(c)
  BY <1>1
<1>5. PICK f : PutEach(f, y, c, old)
  BY BackwardsIs
<1>. DEFINE Fine(i) == /\ Shaped(f[i]) /\ Same(f[i], after[n - i])
                       /\ f[i].conditional_targets = y.conditional_targets
            T == {i \in 0 .. n : Fine(i)}
<1>6. Fine(0)
  <2>1. n - 0 = Len(c)
    BY <1>4
  <2>. QED  BY <1>5, <2>1 DEF PutEach
<1>7. ASSUME NEW i \in 0 .. n - 1, Fine(i) PROVE Fine(i + 1)
  <2>1. PICK j \in 1 .. n : j = n - i
    OBVIOUS
  <2>2. i + 1 \in 1 .. n /\ i + 1 - 1 = i /\ j - 1 \in 0 .. n /\ j \in 0 .. n /\ j \in DOMAIN c
    BY <1>1, <1>4
  <2>a. n + 1 - (i + 1) = j /\ n - (i + 1) = j - 1
    BY <2>1
  <2>3. f[i + 1] = Put(f[i], c[j].name, old[j])
    BY <1>4, <1>5, <2>2, <2>a DEF PutEach
  <2>4. old[j] = after[j - 1].body[c[j].name]
    BY <2>2 DEF Before
  <2>5. Shaped(after[j - 1]) /\ Shaped(after[j])
    BY <1>3, <1>4, <2>2
  <2>6. after[j] = setvar_daemon(after[j - 1], c[j], reading)
    BY <1>2, <1>4
  <2>7. Except(after[j - 1], after[j], c[j].name)
    BY <2>5, <2>6, DaemonKeeps
  <2>8. /\ Shaped(f[i]) /\ Same(f[i], after[j])
        /\ f[i].conditional_targets = y.conditional_targets
    BY <1>7, <2>1
  <2>9. /\ Shaped(f[i + 1]) /\ Same(f[i + 1], after[j - 1])
        /\ f[i + 1].conditional_targets = f[i].conditional_targets
    BY <2>3, <2>4, <2>5, <2>7, <2>8, PutBack
  <2>. QED  BY <2>a, <2>8, <2>9
<1>8. Fine(n)
  <2>. HIDE DEF Fine
  <2>1. 0 \in T /\ \A i \in 0 .. n - 1 : i \in T => i + 1 \in T
    BY <1>6, <1>7
  <2>. HIDE DEF T
  <2>2. 0 .. n \subseteq T
    BY <2>1, Upwards
  <2>. QED  BY <2>2 DEF T
<1>9. n - n = 0
  OBVIOUS
<1>. QED  BY <1>2, <1>4, <1>5, <1>8, <1>9 DEF PutEach

-----------------------------------------------------------------------------
(* The conditionals of a target are a sequence *)

LEMMA ChosenSeq ==
  ASSUME NEW list, IsSeq(list), NEW S
  PROVE  IsSeq(Chosen(list, S))
<1>1. PICK f :
        /\ f[0] = <<>>
        /\ \A i \in 1 .. Len(list) :
             f[i] = (IF i \in S THEN Append(f[i - 1], list[i]) ELSE f[i - 1])
        /\ Chosen(list, S) = f[Len(list)]
  BY ChosenIs
<1>. DEFINE T == {i \in 0 .. Len(list) : IsSeq(f[i])}
<1>2. Len(list) \in Nat
  BY SeqShape
<1>3. 0 \in T
  BY <1>1, <1>2, NoneIsSeq
<1>4. ASSUME NEW i \in 0 .. Len(list) - 1, i \in T PROVE i + 1 \in T
  <2>1. i + 1 \in 1 .. Len(list) /\ i + 1 - 1 = i
    BY <1>2
  <2>2. f[i + 1] = (IF i + 1 \in S THEN Append(f[i + 1 - 1], list[i + 1]) ELSE f[i + 1 - 1])
    BY <1>1, <2>1
  <2>a. IsSeq(f[i])
    BY <1>4
  <2>3. IsSeq(f[i + 1])
    <3>1. f[i + 1] = f[i] \/ f[i + 1] = Append(f[i], list[i + 1])
      BY <2>1, <2>2
    <3>2. IsSeq(Append(f[i], list[i + 1]))
      BY <2>a, AppendSeq
    <3>. QED  BY <2>a, <3>1, <3>2
  <2>. QED  BY <2>1, <2>3
<1>5. 0 .. Len(list) \subseteq T
  <2>. HIDE DEF T
  <2>. QED  BY <1>2, <1>3, <1>4, Upwards
<1>. QED  BY <1>1, <1>2, <1>5

LEMMA MakefileSeq == IsSeq(Makefile)
BY StatementAssumption, SeqIs

LEMMA EnteredSeq ==
  ASSUME NEW t, NEW kind
  PROVE  IsSeq(Entered(t, kind))
<1>. DEFINE list == [i \in DOMAIN Makefile |-> i]
<1>1. Len(Makefile) \in Nat /\ DOMAIN Makefile = 1 .. Len(Makefile)
  BY MakefileSeq, SeqShape
<1>2. list = [i \in 1 .. Len(Makefile) |-> list[i]]
  BY <1>1
<1>3. IsSeq(list)
  <2>. HIDE DEF list
  <2>. QED  BY <1>1, <1>2, OfLength
<1>. HIDE DEF list
<1>. QED  BY <1>3, ChosenSeq DEF Entered, list

LEMMA PartSeq ==
  ASSUME NEW S, NEW s \in Seq(S), NEW i \in 1 .. Len(s), NEW k \in 0 .. Len(s)
  PROVE  SubSeq(s, i, k) \in Seq(S)
<1>1. i \in Int /\ k \in Int /\ \A j \in i .. k : s[j] \in S
  BY LenProperties, ElementOfSeq
<1>. QED  BY <1>1, SubSeqProperties

LEMMA InSequenceSeq ==
  ASSUME NEW list, IsSeq(list), NEW c
  PROVE  IsSeq(InSequence(list, c))
<1>. DEFINE later == {i \in DOMAIN list : list[i] > c}
            S == {list[i] : i \in DOMAIN list} \cup {c}
<1>1. CASE later = {}
  BY <1>1, AppendSeq DEF InSequence
<1>2. CASE later /= {}
  <2>1. Len(list) \in Nat /\ later \subseteq 1 .. Len(list)
    BY SeqShape
  <2>2. later \in SUBSET Nat
    BY <2>1
  <2>3. \E i \in later : \A k \in later : i <= k
    <3>. HIDE DEF later
    <3>. QED  BY <1>2, <2>2, LeastNumber
  <2>4. PICK j : j = Min(later)
    OBVIOUS
  <2>5. j \in 1 .. Len(list)
    <3>. HIDE DEF later
    <3>. QED  BY <2>1, <2>3, <2>4 DEF Min
  <2>6. list \in Seq(S) /\ c \in S
    BY SeqMonotonic DEF IsSeq
  <2>7. InSequence(list, c) =
          SubSeq(list, 1, j - 1) \o <<c>> \o SubSeq(list, j, Len(list))
    BY <1>2, <2>4 DEF InSequence, InsertAt
  <2>. HIDE DEF S, later
  <2>8. SubSeq(list, 1, j - 1) \in Seq(S) /\ SubSeq(list, j, Len(list)) \in Seq(S)
    <3>1. 1 \in 1 .. Len(list) /\ j - 1 \in 0 .. Len(list) /\ Len(list) \in 0 .. Len(list)
      BY <2>1, <2>5
    <3>. QED  BY <2>5, <2>6, <3>1, PartSeq
  <2>9. <<c>> \in Seq(S)
    BY <2>6
  <2>a. SubSeq(list, 1, j - 1) \o <<c>> \in Seq(S)
    BY <2>8, <2>9, ConcatProperties
  <2>b. InSequence(list, c) \in Seq(S)
    BY <2>7, <2>8, <2>a, ConcatProperties
  <2>. QED  BY <2>b, SeqIs
<1>. QED  BY <1>1, <1>2

LEMMA ConditionalsSeq ==
  ASSUME NEW t
  PROVE  IsSeq(add_pattern_conditionals(t))
<1>1. PICK list : list = Entered(t, "pattern") /\ IsSeq(list)
  BY EnteredSeq
<1>2. PICK f : /\ f[0] = Entered(t, "conditional")
               /\ \A i \in 1 .. Len(list) : f[i] = InSequence(f[i - 1], list[i])
               /\ add_pattern_conditionals(t) =
                    [k \in DOMAIN f[Len(list)] |-> Makefile[f[Len(list)][k]]]
  BY <1>1, MergedIs
<1>. DEFINE T == {i \in 0 .. Len(list) : IsSeq(f[i])}
<1>3. Len(list) \in Nat
  BY <1>1, SeqShape
<1>4. 0 \in T
  BY <1>2, <1>3, EnteredSeq
<1>5. ASSUME NEW i \in 0 .. Len(list) - 1, i \in T PROVE i + 1 \in T
  <2>1. i + 1 \in 1 .. Len(list) /\ i + 1 - 1 = i
    BY <1>3
  <2>2. f[i + 1] = InSequence(f[i], list[i + 1])
    BY <1>2, <2>1
  <2>3. IsSeq(f[i + 1])
    BY <1>5, <2>2, InSequenceSeq
  <2>. QED  BY <2>1, <2>3
<1>6. 0 .. Len(list) \subseteq T
  <2>. HIDE DEF T
  <2>. QED  BY <1>3, <1>4, <1>5, Upwards
<1>7. PICK s : s = f[Len(list)] /\ IsSeq(s)
  BY <1>3, <1>6
<1>8. PICK c : c = [k \in DOMAIN s |-> Makefile[s[k]]]
  OBVIOUS
<1>9. IsSeq(c)
  <2>1. Len(s) \in Nat /\ c = [k \in 1 .. Len(s) |-> c[k]]
    BY <1>7, <1>8, SeqShape
  <2>. QED  BY <2>1, OfLength
<1>. QED  BY <1>2, <1>7, <1>8, <1>9
-----------------------------------------------------------------------------
(* set_locals() and reset_locals(), set_conditionals() and reset_conditionals() *)

LEMMA LocalsRestored ==
  ASSUME NEW mm, Shaped(mm), NEW t, NEW r, r = set_locals(mm, t)
  PROVE  /\ Shaped(r.m) /\ r.m.held = mm.held
         /\ \A y : Shaped(y) /\ Like(y, r.m) =>
              Shaped(reset_locals(y, t, r.old)) /\ Like(reset_locals(y, t, r.old), mm)
<1>1. PICK c : c = add_pattern_conditionals(t) /\ IsSeq(c)
  BY ConditionalsSeq
<1>2. CASE c = <<>> \/ mm.held = t
  <2>1. r = [m |-> mm, old |-> <<>>]
    BY <1>1, <1>2 DEF set_locals
  <2>2. ASSUME NEW y, Like(y, mm) PROVE reset_locals(y, t, <<>>) = y
    BY <1>1, <1>2, <2>2 DEF reset_locals, Like, Same
  <2>. QED  BY <2>1, <2>2
<1>3. CASE ~(c = <<>> \/ mm.held = t)
  <2>1. PICK after, reading : reading = FALSE /\ after = AfterEach(mm, c, reading)
    OBVIOUS
  <2>2. PICK old : old = Before(after, c)
    OBVIOUS
  <2>3. PICK n \in Nat : n = Len(c)
    BY <1>1, SeqShape
  <2>4. r = [m |-> [after[n] EXCEPT !.conditional_targets = Append(@, t)], old |-> old]
    BY <1>1, <1>3, <2>1, <2>2, <2>3 DEF set_locals, Before
  <2>5. /\ Shaped(after[n]) /\ after[n].held = mm.held
        /\ after[n].conditional_targets = mm.conditional_targets
    <3>1. n \in 0 .. Len(c)
      BY <2>3
    <3>. QED  BY <1>1, <2>1, <3>1, AfterShaped
  <2>6. PICK list : list = mm.conditional_targets /\ IsSeq(list)
    BY DEF Shaped
  <2>7. IsSeq(Append(list, t)) /\ Front(Append(list, t)) = list
    BY <2>6, AppendSeq, FrontOfAppend
  <2>8. /\ Shaped(r.m) /\ r.m.held = mm.held /\ r.m.body = after[n].body
        /\ r.m.conditional_targets = Append(list, t)
    <3>1. PICK x : x = after[n]
      OBVIOUS
    <3>2. PICK u : u = [x EXCEPT !.conditional_targets = Append(list, t)]
      OBVIOUS
    <3>3. r.m = u
      BY <2>4, <2>5, <2>6, <3>1, <3>2
    <3>4. u = [body |-> x.body, appendix |-> x.appendix, env |-> x.env,
               conditional_targets |-> Append(list, t), held |-> x.held]
      BY <2>5, <3>1, <3>2 DEF Shaped
    <3>. QED  BY <2>5, <2>7, <3>1, <3>3, <3>4 DEF Shaped
  <2>9. ASSUME NEW y, Shaped(y), Like(y, r.m)
        PROVE  Shaped(reset_locals(y, t, r.old)) /\ Like(reset_locals(y, t, r.old), mm)
    <3>1. PICK z : z = Backwards(y, c, old)
      OBVIOUS
    <3>2. Same(y, after[Len(c)]) /\ y.conditional_targets = Append(list, t)
      BY <2>3, <2>5, <2>8, <2>9 DEF Like, Same
    <3>3. Shaped(z) /\ Same(z, mm) /\ z.conditional_targets = Append(list, t)
      <4>1. Shaped(z) /\ Same(z, mm) /\ z.conditional_targets = y.conditional_targets
        BY <1>1, <2>1, <2>2, <2>9, <3>1, <3>2, BackwardsRestores
      <4>. QED  BY <3>2, <4>1
    <3>4. y.held /= t
      BY <1>3, <2>8, <2>9 DEF Like, Same
    <3>5. reset_locals(y, t, r.old) = [z EXCEPT !.conditional_targets = Front(@)]
      BY <1>1, <1>3, <2>4, <3>1, <3>4 DEF reset_locals
    <3>. QED  BY <2>6, <2>7, <3>3, <3>5 DEF Shaped, Like, Same
  <2>. QED  BY <2>8, <2>9
<1>. QED  BY <1>2, <1>3

LEMMA ActivatedShaped ==
  ASSUME NEW mm, Shaped(mm), NEW targets, IsSeq(targets),
         NEW after, after = Activated(mm, targets)
  PROVE  \A i \in 0 .. Len(targets) : Shaped(after[i]) /\ after[i].held = mm.held
<1>. DEFINE Fine(i) == Shaped(after[i]) /\ after[i].held = mm.held
            T == {i \in 0 .. Len(targets) : Fine(i)}
<1>1. Len(targets) \in Nat
  BY SeqShape
<1>2. /\ after[0] = mm
      /\ \A i \in 1 .. Len(targets) : after[i] = set_locals(after[i - 1], targets[i]).m
  BY ActivatedIs
<1>3. Fine(0)
  BY <1>2
<1>4. ASSUME NEW i \in 0 .. Len(targets) - 1, Fine(i) PROVE Fine(i + 1)
  <2>1. i + 1 \in 1 .. Len(targets) /\ i + 1 - 1 = i
    BY <1>1
  <2>2. after[i + 1] = set_locals(after[i], targets[i + 1]).m
    BY <1>2, <2>1
  <2>3. Shaped(after[i + 1]) /\ after[i + 1].held = after[i].held
    BY <1>4, <2>2, LocalsRestored
  <2>. QED  BY <1>4, <2>3
<1>5. 0 .. Len(targets) \subseteq T
  <2>. HIDE DEF Fine
  <2>1. 0 \in T /\ \A i \in 0 .. Len(targets) - 1 : i \in T => i + 1 \in T
    BY <1>1, <1>3, <1>4
  <2>. HIDE DEF T
  <2>. QED  BY <1>1, <2>1, Upwards
<1>. QED  BY <1>5 DEF T, Fine

LEMMA ConditionalsRestored ==
  ASSUME NEW mm, Shaped(mm), NEW targets, IsSeq(targets),
         NEW r, r = set_conditionals(mm, targets)
  PROVE  /\ Shaped(r.m) /\ r.m.held = mm.held
         /\ \A y : Shaped(y) /\ Like(y, r.m) =>
              /\ Shaped(reset_conditionals(y, targets, r.old))
              /\ Like(reset_conditionals(y, targets, r.old), mm)
<1>1. PICK n \in Nat : n = Len(targets) /\ DOMAIN targets = 1 .. n
  BY SeqShape
<1>2. PICK after : after = Activated(mm, targets)
  OBVIOUS
<1>3. /\ after[0] = mm
      /\ \A i \in 1 .. n : after[i] = set_locals(after[i - 1], targets[i]).m
  BY <1>1, <1>2, ActivatedIs
<1>4. \A i \in 0 .. n : Shaped(after[i]) /\ after[i].held = mm.held
  BY <1>1, <1>2, ActivatedShaped
<1>5. PICK old : old = [i \in 1 .. n |-> set_locals(after[i - 1], targets[i]).old]
  OBVIOUS
<1>6. r = [m |-> after[n], old |-> old]
  BY <1>1, <1>2, <1>5 DEF set_conditionals
<1>7. ASSUME NEW y, Shaped(y), Like(y, after[n])
      PROVE  /\ Shaped(reset_conditionals(y, targets, old))
             /\ Like(reset_conditionals(y, targets, old), mm)
  <2>1. PICK f : ResetEach(f, y, targets, old)
    BY ResetIs
  <2>2. /\ f[0] = y
        /\ \A i \in 1 .. n : f[i] = reset_locals(f[i - 1], targets[n + 1 - i], old[n + 1 - i])
        /\ reset_conditionals(y, targets, old) = f[n]
    BY <1>1, <2>1 DEF ResetEach
  <2>. DEFINE Fine(i) == Shaped(f[i]) /\ Like(f[i], after[n - i])
              T == {i \in 0 .. n : Fine(i)}
  <2>3. Fine(0)
    <3>1. n - 0 = n
      OBVIOUS
    <3>. QED  BY <1>7, <2>2, <3>1
  <2>4. ASSUME NEW i \in 0 .. n - 1, Fine(i) PROVE Fine(i + 1)
    <3>1. PICK j \in 1 .. n : j = n - i
      OBVIOUS
    <3>2. i + 1 \in 1 .. n /\ i + 1 - 1 = i /\ j - 1 \in 0 .. n
      OBVIOUS
    <3>3. n + 1 - (i + 1) = j /\ n - (i + 1) = j - 1
      BY <3>1
    <3>4. f[i + 1] = reset_locals(f[i], targets[j], old[j])
      BY <2>2, <3>2, <3>3
    <3>5. PICK s : s = set_locals(after[j - 1], targets[j])
      OBVIOUS
    <3>6. old[j] = s.old /\ after[j] = s.m
      BY <1>3, <1>5, <3>5
    <3>7. Shaped(after[j - 1])
      BY <1>4, <3>2
    <3>8. Shaped(f[i]) /\ Like(f[i], s.m)
      BY <2>4, <3>1, <3>6
    <3>9. Shaped(f[i + 1]) /\ Like(f[i + 1], after[j - 1])
      BY <3>4, <3>5, <3>6, <3>7, <3>8, LocalsRestored
    <3>. QED  BY <3>3, <3>9
  <2>5. Fine(n)
    <3>. HIDE DEF Fine
    <3>1. 0 \in T /\ \A i \in 0 .. n - 1 : i \in T => i + 1 \in T
      BY <2>3, <2>4
    <3>. HIDE DEF T
    <3>2. 0 .. n \subseteq T
      BY <3>1, Upwards
    <3>. QED  BY <3>2 DEF T
  <2>6. n - n = 0
    OBVIOUS
  <2>. QED  BY <1>3, <2>2, <2>5, <2>6
<1>8. n \in 0 .. n
  OBVIOUS
<1>. QED  BY <1>4, <1>6, <1>7, <1>8
-----------------------------------------------------------------------------
(* Calls of doname() *)

\* What the return of the call f makes of the macros y.
Undone(y, f, last) ==
    reset_conditionals([reset_locals(y, f.target, f.old) EXCEPT
                            !.held = IF last THEN NoTarget ELSE @],
                       f.again, f.old_again)

\* The return of f takes macros like y to macros like x.
Opens(f, x, y, last) == \A z : Shaped(z) /\ Like(z, y) =>
    Shaped(Undone(z, f, last)) /\ Like(Undone(z, f, last), x)

LEMMA Holding ==
  ASSUME NEW x, Shaped(x), NEW h, NEW u, u = [x EXCEPT !.held = h]
  PROVE  /\ Shaped(u) /\ u.held = h /\ u.body = x.body
         /\ u.conditional_targets = x.conditional_targets
<1>1. u = [body |-> x.body, appendix |-> x.appendix, env |-> x.env,
           conditional_targets |-> x.conditional_targets, held |-> h]
  BY DEF Shaped
<1>. QED  BY <1>1 DEF Shaped

LEMMA CallOpens ==
  ASSUME NEW mm, Shaped(mm), NEW t, NEW again, IsSeq(again),
         NEW held \in BOOLEAN, NEW last \in BOOLEAN,
         last => mm.held = NoTarget, ~last => ~held,
         NEW context, context = set_conditionals(mm, again),
         NEW own, own = set_locals([context.m EXCEPT !.held = IF held THEN t ELSE @], t),
         NEW f, f.target = t, f.old = own.old, f.again = again, f.old_again = context.old
  PROVE  Shaped(own.m) /\ Opens(f, mm, own.m, last)
<1>1. Shaped(context.m) /\ context.m.held = mm.held
  BY ConditionalsRestored
<1>2. PICK x, h : /\ h = IF held THEN t ELSE context.m.held
                  /\ x = [context.m EXCEPT !.held = h]
  OBVIOUS
<1>3. own = set_locals(x, t)
  BY <1>2
<1>4. /\ Shaped(x) /\ x.held = h /\ x.body = context.m.body
      /\ x.conditional_targets = context.m.conditional_targets
  BY <1>1, <1>2, Holding
<1>5. Shaped(own.m)
  BY <1>3, <1>4, LocalsRestored
<1>6. ASSUME NEW z, Shaped(z), Like(z, own.m)
      PROVE  Shaped(Undone(z, f, last)) /\ Like(Undone(z, f, last), mm)
  <2>1. PICK v : v = reset_locals(z, t, own.old) /\ Shaped(v) /\ Like(v, x)
    BY <1>3, <1>4, <1>6, LocalsRestored
  <2>2. PICK u, k : /\ k = IF last THEN NoTarget ELSE v.held
                    /\ u = [v EXCEPT !.held = k]
    OBVIOUS
  <2>3. /\ Shaped(u) /\ u.held = k /\ u.body = v.body
        /\ u.conditional_targets = v.conditional_targets
    BY <2>1, <2>2, Holding
  <2>4. k = context.m.held
    BY <1>1, <1>2, <1>4, <2>1, <2>2 DEF Like, Same
  <2>5. Like(u, context.m)
    BY <1>4, <2>1, <2>3, <2>4 DEF Like, Same
  <2>6. Undone(z, f, last) = reset_conditionals(u, again, context.old)
    BY <2>1, <2>2 DEF Undone
  <2>. QED  BY <2>3, <2>5, <2>6, ConditionalsRestored
<1>. QED  BY <1>5, <1>6 DEF Opens

-----------------------------------------------------------------------------
(* While make starts *)

\* y is macros with the same conditional targets as x.
Keeps(x, y) == /\ Shaped(y) /\ y.held = x.held
               /\ y.conditional_targets = x.conditional_targets

LEMMA DaemonKeepsAll ==
  ASSUME NEW mm, Shaped(mm), NEW a, NEW reading
  PROVE  Keeps(mm, setvar_daemon(mm, a, reading))
BY DaemonKeeps DEF Except, Keeps

LEMMA BodyKeeps ==
  ASSUME NEW mm, Shaped(mm), NEW u, NEW b, b = [n \in DOMAIN b |-> b[n]],
         u = [mm EXCEPT !.body = b]
  PROVE  Keeps(mm, u)
<1>1. u = [body |-> b, appendix |-> mm.appendix, env |-> mm.env,
           conditional_targets |-> mm.conditional_targets, held |-> mm.held]
  BY DEF Shaped
<1>. QED  BY <1>1 DEF Shaped, Keeps

LEMMA AppendixKeeps ==
  ASSUME NEW mm, Shaped(mm), NEW u, NEW p, u = [mm EXCEPT !.appendix = p]
  PROVE  Keeps(mm, u)
<1>1. u = [body |-> mm.body, appendix |-> p, env |-> mm.env,
           conditional_targets |-> mm.conditional_targets, held |-> mm.held]
  BY DEF Shaped
<1>. QED  BY <1>1 DEF Shaped, Keeps

LEMMA KeepsOn ==
  ASSUME NEW x, NEW y, NEW z, Keeps(x, y), Keeps(y, z)
  PROVE  Keeps(x, z)
BY DEF Keeps

LEMMA ArgumentKeeps ==
  ASSUME NEW mm, Shaped(mm), NEW a
  PROVE  Keeps(mm, enter_argv_value(mm, a))
<1>1. CASE a.append
  <2>1. PICK p, u : /\ u = [mm EXCEPT !.appendix = p]
                    /\ enter_argv_value(mm, a) = setvar_daemon(u, Assign(a.name, <<>>, TRUE), FALSE)
    <3>1. PICK v : v = [on |-> TRUE, to_append |-> mm.appendix[a.name].to_append \o a.value,
                        value |-> IF mm.appendix[a.name].on THEN mm.appendix[a.name].value
                                  ELSE mm.body[a.name].value]
      OBVIOUS
    <3>2. PICK p : p = [mm.appendix EXCEPT ![a.name] = v]
      OBVIOUS
    <3>3. PICK u : u = [mm EXCEPT !.appendix = p]
      OBVIOUS
    <3>4. u = [mm EXCEPT !.appendix[a.name] = v]
      BY <3>2, <3>3
    <3>5. enter_argv_value(mm, a) = setvar_daemon(u, Assign(a.name, <<>>, TRUE), FALSE)
      BY <1>1, <3>1, <3>4 DEF enter_argv_value, setvar_append
    <3>. QED  BY <3>3, <3>5
  <2>2. Keeps(mm, u)
    BY <2>1, AppendixKeeps
  <2>3. Keeps(u, enter_argv_value(mm, a))
    <3>1. PICK v, reading : reading = FALSE /\ v = Assign(a.name, <<>>, TRUE)
      OBVIOUS
    <3>2. Shaped(u)
      BY <2>2 DEF Keeps
    <3>3. Keeps(u, setvar_daemon(u, v, reading))
      BY <3>2, DaemonKeepsAll
    <3>. QED  BY <2>1, <3>1, <3>3
  <2>. QED  BY <2>2, <2>3, KeepsOn
<1>2. CASE ~a.append
  <2>1. PICK b, u : /\ b = [mm.body EXCEPT ![a.name].exported = TRUE]
                    /\ u = [mm EXCEPT !.body = b]
    OBVIOUS
  <2>2. PICK set : set = setvar_daemon(u, a, FALSE)
    OBVIOUS
  <2>3. PICK d, w : /\ d = [set.body EXCEPT ![a.name].read_only = TRUE]
                    /\ w = [set EXCEPT !.body = d]
    OBVIOUS
  <2>4. Keeps(mm, u)
    <3>1. b = [n \in DOMAIN b |-> b[n]]
      BY <2>1 DEF Shaped
    <3>. QED  BY <2>1, <3>1, BodyKeeps
  <2>5. Keeps(u, set)
    BY <2>2, <2>4, DaemonKeepsAll DEF Keeps
  <2>6. Keeps(set, w)
    <3>1. d = [n \in DOMAIN d |-> d[n]]
      BY <2>3, <2>5 DEF Keeps, Shaped
    <3>. QED  BY <2>3, <2>5, <3>1, BodyKeeps DEF Keeps
  <2>7. enter_argv_value(mm, a) = w
    <3>1. u = [mm EXCEPT !.body[a.name].exported = TRUE]
      BY <2>1
    <3>2. w = [set EXCEPT !.body[a.name].read_only = TRUE]
      BY <2>3
    <3>. QED  BY <1>2, <2>2, <3>1, <3>2 DEF enter_argv_value
  <2>. QED  BY <2>4, <2>5, <2>6, <2>7, KeepsOn
<1>. QED  BY <1>1, <1>2

LEMMA ArgumentsKeep ==
  ASSUME NEW mm, Shaped(mm), NEW args, IsSeq(args)
  PROVE  Keeps(mm, enter_argv_values(mm, args))
<1>1. PICK f : /\ f[0] = mm
               /\ \A i \in 1 .. Len(args) : f[i] = enter_argv_value(f[i - 1], args[i])
               /\ enter_argv_values(mm, args) = f[Len(args)]
  BY ArgumentsAre
<1>. DEFINE Fine(i) == Keeps(mm, f[i])
            T == {i \in 0 .. Len(args) : Fine(i)}
<1>2. Len(args) \in Nat
  BY SeqShape
<1>3. Fine(0)
  BY <1>1 DEF Keeps
<1>4. ASSUME NEW i \in 0 .. Len(args) - 1, Fine(i) PROVE Fine(i + 1)
  <2>1. i + 1 \in 1 .. Len(args) /\ i + 1 - 1 = i
    BY <1>2
  <2>2. f[i + 1] = enter_argv_value(f[i], args[i + 1])
    BY <1>1, <2>1
  <2>3. Shaped(f[i])
    BY <1>4 DEF Keeps
  <2>4. Keeps(f[i], f[i + 1])
    BY <2>2, <2>3, ArgumentKeeps
  <2>. QED  BY <1>4, <2>4, KeepsOn
<1>5. Fine(Len(args))
  <2>. HIDE DEF Fine
  <2>1. 0 \in T /\ \A i \in 0 .. Len(args) - 1 : i \in T => i + 1 \in T
    BY <1>2, <1>3, <1>4
  <2>. HIDE DEF T
  <2>2. 0 .. Len(args) \subseteq T
    BY <1>2, <2>1, Upwards
  <2>3. Len(args) \in T
    BY <1>2, <2>2
  <2>. QED  BY <2>3 DEF T
<1>. QED  BY <1>1, <1>5

LEMMA EachKeeps ==
  ASSUME NEW mm, Shaped(mm), NEW list, IsSeq(list), NEW reading
  PROVE  Keeps(mm, AfterEach(mm, list, reading)[Len(list)])
<1>1. PICK after : after = AfterEach(mm, list, reading)
  OBVIOUS
<1>2. PICK n : n = Len(list) /\ n \in 0 .. Len(list)
  BY SeqShape
<1>3. /\ Shaped(after[n]) /\ after[n].held = mm.held
      /\ after[n].conditional_targets = mm.conditional_targets
  BY <1>1, <1>2, AfterShaped
<1>. QED  BY <1>1, <1>2, <1>3 DEF Keeps

LEMMA ReadFileKeeps ==
  ASSUME NEW mm, Shaped(mm), NEW statements, IsSeq(statements)
  PROVE  Keeps(mm, ReadFile(mm, statements))
<1>1. PICK list, reading : list = AtOnce(statements) /\ reading = TRUE
  OBVIOUS
<1>2. IsSeq(list)
  BY <1>1, ChosenSeq DEF AtOnce
<1>3. Keeps(mm, AfterEach(mm, list, reading)[Len(list)])
  BY <1>2, EachKeeps
<1>. QED  BY <1>1, <1>3 DEF ReadFile

LEMMA StartupKeeps ==
  ASSUME NEW mm, Shaped(mm), NEW env, NEW flags, IsSeq(flags), NEW args, IsSeq(args),
         NEW wins
  PROVE  Keeps(mm, Startup(mm, env, flags, args, wins))
<1>1. PICK b, u : /\ b = [n \in Macro |-> IF n \in DOMAIN env
                            THEN [value |-> env[n], read_only |-> wins, exported |-> TRUE]
                            ELSE mm.body[n]]
                  /\ u = [mm EXCEPT !.body = b]
  OBVIOUS
<1>2. read_environment(mm, env, wins) = u
  BY <1>1 DEF read_environment
<1>3. Keeps(mm, u)
  <2>1. b = [n \in DOMAIN b |-> b[n]]
    BY <1>1
  <2>. QED  BY <1>1, <2>1, BodyKeeps
<1>4. PICK v : v = enter_argv_values(u, flags) /\ Keeps(u, v)
  BY <1>3, ArgumentsKeep DEF Keeps
<1>5. Keeps(v, enter_argv_values(v, args))
  BY <1>4, ArgumentsKeep DEF Keeps
<1>6. Startup(mm, env, flags, args, wins) = enter_argv_values(v, args)
  BY <1>2, <1>4 DEF Startup
<1>. QED  BY <1>3, <1>4, <1>5, <1>6, KeepsOn

-----------------------------------------------------------------------------
(* Restoring: the invariant *)

FrameShaped(f) ==
    f = [target |-> f.target, path |-> f.path, next |-> f.next, waits |-> f.waits,
         old |-> f.old, again |-> f.again, old_again |-> f.old_again]

EntryShaped(e) ==
    /\ e = [kind |-> e.kind, target |-> e.target, path |-> e.path,
            conditional_targets |-> e.conditional_targets]
    /\ IsSeq(e.conditional_targets)

Entries(q) == IsSeq(q) /\ \A i \in DOMAIN q : EntryShaped(q[i])

\* The macros when the build began, as reset_locals() leaves them.
AtFirst == [body |-> base.body, conditional_targets |-> <<>>, held |-> NoTarget]

\* chain[k] is what the macros were when the first k calls had been made: the
\* returns take the macros back along it.
Chain(chain) ==
    /\ chain[0] = AtFirst
    /\ \A k \in 1 .. Len(stack) : Opens(stack[k], chain[k - 1], chain[k], k = 1)
    /\ Like(m, chain[Len(stack)])

ShapeInv ==
    /\ Shaped(m) /\ Entries(queue)
    /\ IsSeq(stack) /\ \A k \in DOMAIN stack : FrameShaped(stack[k])
    /\ IsSeq(given.flags) /\ IsSeq(given.args)

RestoredInv ==
    /\ ShapeInv
    /\ phase /= "build" =>
         /\ phase \in {"defaults", "environment", "makefile"}
         /\ stack = <<>> /\ queue = <<>>
         /\ m.conditional_targets = <<>> /\ m.held = NoTarget
    /\ phase = "build" => \E chain : Chain(chain)

LEMMA RestoredSound ==
  ASSUME RestoredInv
  PROVE  Restored
<1>. SUFFICES ASSUME phase = "build", stack = <<>>
              PROVE  m.body = base.body /\ m.conditional_targets = <<>>
  BY DEF Restored
<1>1. PICK chain : Chain(chain)
  BY DEF RestoredInv
<1>2. Len(stack) = 0
  BY SeqShape, NoneIsSeq
<1>. QED  BY <1>1, <1>2 DEF Chain, AtFirst, Like, Same

LEMMA RestoredInit ==
  ASSUME Init
  PROVE  RestoredInv
<1>1. m = [body |-> m.body, appendix |-> m.appendix, env |-> m.env,
           conditional_targets |-> <<>>, held |-> NoTarget]
      /\ m.body = [n \in DOMAIN m.body |-> m.body[n]]
  BY DEF Init, NoMacros
<1>2. Shaped(m) /\ m.conditional_targets = <<>> /\ m.held = NoTarget
  BY <1>1, NoneIsSeq DEF Shaped
<1>3. IsSeq(given.flags) /\ IsSeq(given.args)
  <2>1. given.flags \in Flags /\ given.args \in CommandLines
    BY DEF Init
  <2>2. given.flags \in Seq(Assignment) /\ given.args \in Seq(Assignment)
    BY <2>1, StatementAssumption
  <2>. QED  BY <2>2, SeqIs
<1>4. stack = <<>> /\ queue = <<>> /\ phase = "defaults"
  BY DEF Init
<1>5. Entries(queue) /\ IsSeq(stack) /\ \A k \in DOMAIN stack : FrameShaped(stack[k])
  <2>1. IsSeq(<<>>) /\ DOMAIN <<>> = {}
    BY NoneIsSeq
  <2>. QED  BY <1>4, <2>1 DEF Entries
<1>. QED  BY <1>2, <1>3, <1>4, <1>5 DEF RestoredInv, ShapeInv

LEMMA QueueAppend ==
  ASSUME NEW q, Entries(q), NEW e, EntryShaped(e)
  PROVE  Entries(Append(q, e))
<1>1. PICK p : p = Append(q, e)
  OBVIOUS
<1>2. /\ IsSeq(p) /\ Len(p) = Len(q) + 1 /\ \A i \in 1 .. Len(q) : p[i] = q[i]
      /\ p[Len(q) + 1] = e
  BY <1>1, AppendSeq DEF Entries
<1>3. Len(q) \in Nat /\ DOMAIN q = 1 .. Len(q) /\ DOMAIN p = 1 .. Len(q) + 1
  BY <1>2, SeqShape DEF Entries
<1>4. \A i \in DOMAIN p : i \in DOMAIN q \/ i = Len(q) + 1
  BY <1>3
<1>. QED  BY <1>1, <1>2, <1>3, <1>4 DEF Entries

LEMMA RemovedFrom ==
  ASSUME NEW q, IsSeq(q), NEW i \in DOMAIN q, NEW r, r = RemoveAt(q, i)
  PROVE  IsSeq(r) /\ \A j \in DOMAIN r : \E k \in DOMAIN q : r[j] = q[k]
<1>. DEFINE S == {q[j] : j \in DOMAIN q}
<1>1. Len(q) \in Nat /\ DOMAIN q = 1 .. Len(q) /\ q \in Seq(S)
  BY SeqShape DEF IsSeq
<1>2. \A e \in S : \E k \in DOMAIN q : e = q[k]
  OBVIOUS
<1>. HIDE DEF S
<1>3. \A j \in 1 .. Len(q) : q[j] \in S
  BY <1>1, ElementOfSeq
<1>4. SubSeq(q, 1, i - 1) \in Seq(S)
  <2>1. 1 \in Int /\ i - 1 \in Int /\ \A j \in 1 .. i - 1 : q[j] \in S
    BY <1>1, <1>3
  <2>. QED  BY <2>1, SubSeqProperties
<1>5. SubSeq(q, i + 1, Len(q)) \in Seq(S)
  <2>1. i + 1 \in Int /\ Len(q) \in Int /\ \A j \in i + 1 .. Len(q) : q[j] \in S
    BY <1>1, <1>3
  <2>. QED  BY <2>1, SubSeqProperties
<1>6. PICK p : p = RemoveAt(q, i) /\ p \in Seq(S)
  BY <1>4, <1>5, ConcatProperties DEF RemoveAt
<1>7. IsSeq(p) /\ \A j \in DOMAIN p : p[j] \in S
  BY <1>6, SeqIs, LenProperties, ElementOfSeq
<1>. QED  BY <1>2, <1>6, <1>7

LEMMA QueueRemove ==
  ASSUME NEW q, Entries(q), NEW i \in DOMAIN q
  PROVE  Entries(RemoveAt(q, i))
<1>1. PICK r : r = RemoveAt(q, i)
  OBVIOUS
<1>2. IsSeq(r) /\ \A j \in DOMAIN r : \E k \in DOMAIN q : r[j] = q[k]
  BY <1>1, RemovedFrom DEF Entries
<1>. QED  BY <1>1, <1>2 DEF Entries

\* A call of doname() makes the chain longer.
LEMMA CallRestored ==
  ASSUME RestoredInv, phase = "build", NEW t, NEW path, NEW again, IsSeq(again),
         NEW held \in BOOLEAN, stack /= <<>> => ~held,
         Call(t, path, again, held), UNCHANGED base, NEW chain, Chain(chain)
  PROVE  /\ Shaped(m') /\ IsSeq(stack') /\ \A k \in DOMAIN stack' : FrameShaped(stack'[k])
         /\ \E new : Chain(new)' /\ \A k \in 0 .. Len(stack) : new[k] = chain[k]
<1>1. Chain(chain)
  OBVIOUS
<1>2. Shaped(m) /\ IsSeq(stack) /\ \A k \in DOMAIN stack : FrameShaped(stack[k])
  BY DEF RestoredInv, ShapeInv
<1>3. PICK n \in Nat : n = Len(stack) /\ DOMAIN stack = 1 .. n /\ (stack = <<>> <=> n = 0)
  BY <1>2, SeqShape
<1>4. PICK context, own :
        /\ context = set_conditionals(m, again)
        /\ own = set_locals([context.m EXCEPT !.held = IF held THEN t ELSE @], t)
  OBVIOUS
<1>5. PICK f : f = [target |-> t, path |-> path, next |-> 1, waits |-> FALSE,
                    old |-> own.old, again |-> again, old_again |-> context.old]
  OBVIOUS
<1>6. m' = own.m /\ stack' = Append(stack, f)
  BY <1>4, <1>5 DEF Call
<1>7. /\ IsSeq(stack') /\ Len(stack') = n + 1 /\ stack'[n + 1] = f
      /\ \A k \in 1 .. n : stack'[k] = stack[k]
  BY <1>2, <1>3, <1>6, AppendSeq
<1>8. DOMAIN stack' = 1 .. n + 1
  BY <1>7, SeqShape
<1>9. \A k \in DOMAIN stack' : FrameShaped(stack'[k])
  <2>1. FrameShaped(f)
    BY <1>5 DEF FrameShaped
  <2>2. \A k \in 1 .. n + 1 : k \in 1 .. n \/ k = n + 1
    OBVIOUS
  <2>. QED  BY <1>2, <1>3, <1>7, <1>8, <2>1, <2>2
<1>10. PICK last \in BOOLEAN : last = (n = 0)
  OBVIOUS
<1>11. last => m.held = NoTarget
  BY <1>1, <1>3, <1>10 DEF Chain, Like, Same, AtFirst
<1>12. Shaped(own.m) /\ Opens(f, m, own.m, last)
  <2>1. ~last => ~held
    BY <1>3, <1>10
  <2>2. f.target = t /\ f.old = own.old /\ f.again = again /\ f.old_again = context.old
    BY <1>5
  <2>. QED  BY <1>2, <1>4, <1>11, <2>1, <2>2, CallOpens
<1>13. Like(m, chain[n])
  BY <1>1, <1>3 DEF Chain
<1>14. Opens(f, chain[n], own.m, last)
  BY <1>12, <1>13 DEF Opens, Like, Same
<1>15. PICK new : new = [k \in 0 .. n + 1 |-> IF k = n + 1 THEN own.m ELSE chain[k]]
  OBVIOUS
<1>16. /\ \A k \in 0 .. n : new[k] = chain[k]
       /\ new[n + 1] = own.m
  BY <1>15
<1>17. Chain(new)'
  <2>1. new[0] = AtFirst'
    BY <1>1, <1>16 DEF Chain, AtFirst
  <2>2. ASSUME NEW k \in 1 .. n PROVE Opens(stack'[k], new[k - 1], new[k], k = 1)
    <3>1. k \in 0 .. n /\ k - 1 \in 0 .. n
      OBVIOUS
    <3>. QED  BY <1>1, <1>3, <1>7, <1>16, <3>1 DEF Chain
  <2>3. Opens(stack'[n + 1], new[n + 1 - 1], new[n + 1], n + 1 = 1)
    <3>1. n + 1 - 1 = n /\ n \in 0 .. n /\ last = (n + 1 = 1)
      BY <1>10
    <3>. QED  BY <1>7, <1>14, <1>16, <3>1
  <2>4. \A k \in 1 .. Len(stack') : Opens(stack'[k], new[k - 1], new[k], k = 1)
    <3>1. \A k \in 1 .. n + 1 : k \in 1 .. n \/ k = n + 1
      OBVIOUS
    <3>. QED  BY <1>7, <2>2, <2>3, <3>1
  <2>5. Like(m', new[Len(stack')])
    BY <1>6, <1>7, <1>16 DEF Like, Same
  <2>. QED  BY <2>1, <2>4, <2>5 DEF Chain
<1>. QED  BY <1>3, <1>6, <1>7, <1>9, <1>12, <1>16, <1>17

-----------------------------------------------------------------------------
(* The steps *)

\* Nothing the chain depends on is changed, but for the environment.
LEMMA ChainStays ==
  ASSUME NEW chain, Chain(chain), Like(m', m), base' = base, Len(stack') = Len(stack),
         \A k \in 1 .. Len(stack) : /\ stack'[k].target = stack[k].target
                                    /\ stack'[k].old = stack[k].old
                                    /\ stack'[k].again = stack[k].again
                                    /\ stack'[k].old_again = stack[k].old_again
  PROVE  Chain(chain)'
<1>1. chain[0] = AtFirst' /\ Like(m', chain[Len(stack')])
  BY DEF Chain, AtFirst, Like, Same
<1>2. ASSUME NEW k \in 1 .. Len(stack')
      PROVE  Opens(stack'[k], chain[k - 1], chain[k], k = 1)
  <2>1. Opens(stack[k], chain[k - 1], chain[k], k = 1)
    BY <1>2 DEF Chain
  <2>2. \A z : Undone(z, stack'[k], k = 1) = Undone(z, stack[k], k = 1)
    BY <1>2 DEF Undone
  <2>. QED  BY <2>1, <2>2 DEF Opens
<1>. QED  BY <1>1, <1>2 DEF Chain

LEMMA ConsiderRestored ==
  ASSUME RestoredInv, NEW t \in Target, Consider(t)
  PROVE  RestoredInv'
<1>1. PICK path : Call(t, path, <<>>, FALSE)
  BY DEF Consider
<1>2. phase = "build" /\ UNCHANGED <<phase, given, queue, base>>
  BY DEF Consider
<1>3. IsSeq(<<>>)
  BY NoneIsSeq
<1>4. PICK again, held : again = <<>> /\ held = FALSE
  OBVIOUS
<1>5. /\ Shaped(m') /\ IsSeq(stack') /\ \A k \in DOMAIN stack' : FrameShaped(stack'[k])
      /\ \E new : Chain(new)'
  <2>1. Call(t, path, again, held) /\ held \in BOOLEAN /\ ~held /\ IsSeq(again)
    BY <1>1, <1>3, <1>4
  <2>2. PICK chain : Chain(chain)
    BY <1>2 DEF RestoredInv
  <2>. QED  BY <1>2, <2>1, <2>2, CallRestored
<1>. QED  BY <1>2, <1>5 DEF RestoredInv, ShapeInv

LEMMA ConsideredRestored ==
  ASSUME RestoredInv, Considered
  PROVE  RestoredInv' /\ \A chain : Chain(chain) => Chain(chain)'
<1>1. IsSeq(stack) /\ \A k \in DOMAIN stack : FrameShaped(stack[k])
  BY DEF RestoredInv, ShapeInv
<1>2. stack /= <<>> /\ UNCHANGED <<phase, given, m, queue, base>>
  BY DEF Considered
<1>3. PICK n \in Nat : n = Len(stack) /\ DOMAIN stack = 1 .. n /\ n /= 0
  BY <1>1, <1>2, SeqShape
<1>4. PICK next, waits : stack' = [stack EXCEPT ![n].next = next, ![n].waits = waits]
  BY <1>3 DEF Considered
<1>5. PICK f : f = [stack[n] EXCEPT !.next = next, !.waits = waits]
  OBVIOUS
<1>6. stack' = [stack EXCEPT ![n] = f]
  BY <1>3, <1>4, <1>5
<1>7. f = [target |-> stack[n].target, path |-> stack[n].path, next |-> next, waits |-> waits,
           old |-> stack[n].old, again |-> stack[n].again, old_again |-> stack[n].old_again]
  <2>1. FrameShaped(stack[n])
    BY <1>1, <1>3
  <2>. QED  BY <1>5, <2>1 DEF FrameShaped
<1>8. /\ stack' = [k \in 1 .. n |-> stack'[k]]
      /\ \A k \in 1 .. n : stack'[k] = IF k = n THEN f ELSE stack[k]
  BY <1>3, <1>6
<1>9. IsSeq(stack') /\ Len(stack') = n
  BY <1>8, OfLength
<1>10. \A k \in DOMAIN stack' : FrameShaped(stack'[k])
  <2>1. FrameShaped(f)
    BY <1>7 DEF FrameShaped
  <2>. QED  BY <1>1, <1>3, <1>8, <2>1
<1>11. \A k \in 1 .. n : /\ stack'[k].target = stack[k].target
                         /\ stack'[k].old = stack[k].old
                         /\ stack'[k].again = stack[k].again
                         /\ stack'[k].old_again = stack[k].old_again
  BY <1>7, <1>8
<1>12. ASSUME NEW chain, Chain(chain) PROVE Chain(chain)'
  <2>1. Like(m', m)
    BY <1>2 DEF Like, Same
  <2>. QED  BY <1>2, <1>3, <1>9, <1>11, <1>12, <2>1, ChainStays
<1>. QED  BY <1>2, <1>9, <1>10, <1>12 DEF RestoredInv, ShapeInv

\* A return takes the macros one link back.
LEMMA ReturnRestored ==
  ASSUME RestoredInv, stack /= <<>>, NEW s, Return(s), UNCHANGED <<phase, given, base>>,
         Entries(queue')
  PROVE  RestoredInv' /\ \A chain : Chain(chain) => Chain(chain)'
<1>1. /\ phase = "build" /\ IsSeq(stack) /\ Shaped(m)
      /\ \A k \in DOMAIN stack : FrameShaped(stack[k])
  BY DEF RestoredInv, ShapeInv
<1>2. PICK chain : Chain(chain)
  BY <1>1 DEF RestoredInv
<1>3. PICK n \in Nat : n = Len(stack) /\ DOMAIN stack = 1 .. n /\ n /= 0
  BY <1>1, SeqShape
<1>4. PICK f : f = stack[n] /\ f = Top
  BY <1>3 DEF Last, Top
<1>5. m' = Undone(m, f, n = 1) /\ stack' = Front(stack)
  BY <1>3, <1>4 DEF Return, Undone
<1>6. ASSUME NEW link, Chain(link)
      PROVE  Shaped(m') /\ Like(m', link[n - 1])
  <2>1. n \in 1 .. Len(stack)
    BY <1>3
  <2>2. Opens(f, link[n - 1], link[n], n = 1) /\ Like(m, link[n])
    BY <1>3, <1>4, <1>6, <2>1 DEF Chain
  <2>. QED  BY <1>1, <1>5, <2>2 DEF Opens
<1>7. Shaped(m')
  BY <1>2, <1>6
<1>8. /\ IsSeq(stack') /\ Len(stack') = n - 1 /\ \A k \in 1 .. n - 1 : stack'[k] = stack[k]
  BY <1>1, <1>3, <1>5, FrontSeq
<1>9. DOMAIN stack' = 1 .. n - 1
  BY <1>8, SeqShape
<1>10. \A k \in DOMAIN stack' : FrameShaped(stack'[k])
  BY <1>1, <1>3, <1>8, <1>9
<1>11. ASSUME NEW link, Chain(link) PROVE Chain(link)'
  <2>1. link[0] = AtFirst' /\ Like(m', link[Len(stack')])
    BY <1>6, <1>8, <1>11 DEF Chain, AtFirst
  <2>2. \A k \in 1 .. Len(stack') : Opens(stack'[k], link[k - 1], link[k], k = 1)
    BY <1>3, <1>8, <1>11 DEF Chain
  <2>. QED  BY <2>1, <2>2 DEF Chain
<1>. QED  BY <1>1, <1>2, <1>7, <1>8, <1>10, <1>11 DEF RestoredInv, ShapeInv

\* The queue when the top call puts its target on it.
LEMMA PutRestored ==
  ASSUME RestoredInv, NEW kind
  PROVE  Entries(Append(queue, Entry(kind, m.conditional_targets)))
<1>1. EntryShaped(Entry(kind, m.conditional_targets))
  BY DEF RestoredInv, ShapeInv, Shaped, Entry, EntryShaped
<1>. QED  BY <1>1, QueueAppend DEF RestoredInv, ShapeInv

LEMMA FinishRestored ==
  ASSUME RestoredInv, phase = "build", NEW i \in DOMAIN queue, Finish(i)
  PROVE  RestoredInv' /\ \A chain : Chain(chain) => Chain(chain)'
<1>1. UNCHANGED <<phase, given, stack, base>> /\ Shaped(m) /\ Entries(queue) /\ IsSeq(stack)
  BY DEF Finish, RestoredInv, ShapeInv
<1>2. PICK e : e = queue[i] /\ EntryShaped(e) /\ IsSeq(e.conditional_targets)
  BY <1>1 DEF Entries, EntryShaped
<1>3. PICK context : context = set_conditionals(m, e.conditional_targets)
  OBVIOUS
<1>4. Entries(RemoveAt(queue, i))
  BY <1>1, QueueRemove
<1>5. Shaped(context.m) /\ context.m.held = m.held
  BY <1>1, <1>2, <1>3, ConditionalsRestored
<1>6. Shaped(m') /\ Like(m', m) /\ Entries(queue')
  <2>1. CASE queue' = RemoveAt(queue, i) /\ m' = m
    BY <1>1, <1>4, <2>1 DEF Like, Same
  <2>2. CASE /\ queue' = Append(RemoveAt(queue, i),
                            [e EXCEPT !.kind = "pending",
                                      !.conditional_targets = context.m.conditional_targets])
             /\ m' = reset_conditionals(context.m, e.conditional_targets, context.old)
    <3>1. Like(context.m, context.m)
      BY DEF Like, Same
    <3>2. Shaped(m') /\ Like(m', m)
      BY <1>1, <1>2, <1>3, <1>5, <2>2, <3>1, ConditionalsRestored
    <3>3. PICK d : d = [e EXCEPT !.kind = "pending",
                                 !.conditional_targets = context.m.conditional_targets]
      OBVIOUS
    <3>4. d = [kind |-> "pending", target |-> e.target, path |-> e.path,
               conditional_targets |-> context.m.conditional_targets]
      BY <1>2, <3>3 DEF EntryShaped
    <3>5. EntryShaped(d)
      BY <1>5, <3>4 DEF EntryShaped, Shaped
    <3>6. Entries(Append(RemoveAt(queue, i), d))
      BY <1>4, <3>5, QueueAppend
    <3>. QED  BY <2>2, <3>2, <3>3, <3>6
  <2>. QED  BY <1>2, <1>3, <2>1, <2>2 DEF Finish
<1>7. PICK chain : Chain(chain)
  BY DEF RestoredInv
<1>8. ASSUME NEW link, Chain(link) PROVE Chain(link)'
  BY <1>1, <1>6, <1>8, ChainStays
<1>. QED  BY <1>1, <1>6, <1>7, <1>8 DEF RestoredInv, ShapeInv

LEMMA ResumeRestored ==
  ASSUME RestoredInv, phase = "build", NEW i \in DOMAIN queue, Resume(i)
  PROVE  RestoredInv'
<1>1. UNCHANGED <<phase, given, base>> /\ stack = <<>> /\ Entries(queue)
  BY DEF Resume, RestoredInv, ShapeInv
<1>2. Entries(queue')
  BY <1>1, QueueRemove DEF Resume
<1>3. PICK e : e = queue[i] /\ IsSeq(e.conditional_targets)
  BY <1>1 DEF Entries, EntryShaped
<1>4. PICK again, held : /\ held \in BOOLEAN /\ IsSeq(again)
                         /\ Call(e.target, e.path, again, held)
  <2>1. CASE Call(e.target, e.path, e.conditional_targets, TRUE)
    BY <1>3, <2>1
  <2>2. CASE Call(e.target, e.path, <<>>, FALSE)
    BY <2>2, NoneIsSeq
  <2>. QED  BY <1>3, <2>1, <2>2 DEF Resume
<1>5. /\ Shaped(m') /\ IsSeq(stack') /\ \A k \in DOMAIN stack' : FrameShaped(stack'[k])
      /\ \E new : Chain(new)'
  <2>1. PICK chain : Chain(chain)
    BY DEF RestoredInv
  <2>. QED  BY <1>1, <1>4, <2>1, CallRestored
<1>. QED  BY <1>1, <1>2, <1>5 DEF RestoredInv, ShapeInv

LEMMA StartRestored ==
  ASSUME RestoredInv, ReadDefaults \/ ReadArguments
  PROVE  RestoredInv'
<1>1. /\ Shaped(m) /\ m.conditional_targets = <<>> /\ m.held = NoTarget /\ phase' /= "build"
      /\ phase' \in {"defaults", "environment", "makefile"}
      /\ UNCHANGED <<given, stack, queue>> /\ stack = <<>> /\ queue = <<>>
  BY DEF ReadDefaults, ReadArguments, RestoredInv, ShapeInv, build
<1>2. Keeps(m, m')
  <2>1. CASE ReadDefaults
    <3>1. IsSeq(Defaults)
      BY StatementAssumption, SeqIs
    <3>. QED  BY <1>1, <2>1, <3>1, ReadFileKeeps DEF ReadDefaults
  <2>2. CASE ReadArguments
    <3>1. IsSeq(given.flags) /\ IsSeq(given.args)
      BY DEF RestoredInv, ShapeInv
    <3>. QED  BY <1>1, <2>2, <3>1, StartupKeeps DEF ReadArguments
  <2>. QED  BY <2>1, <2>2
<1>3. ShapeInv'
  BY <1>1, <1>2 DEF Keeps, RestoredInv, ShapeInv
<1>4. queue' = <<>> /\ m'.conditional_targets = <<>> /\ m'.held = NoTarget
  BY <1>1, <1>2 DEF Keeps
<1>. QED  BY <1>1, <1>3, <1>4 DEF RestoredInv

LEMMA MakefileRestored ==
  ASSUME RestoredInv, ReadMakefile
  PROVE  RestoredInv'
<1>1. /\ Shaped(m) /\ m.conditional_targets = <<>> /\ m.held = NoTarget /\ phase' = "build"
      /\ UNCHANGED <<given, stack, queue>> /\ stack = <<>> /\ base' = m'
  BY DEF ReadMakefile, RestoredInv, ShapeInv
<1>2. Keeps(m, m')
  BY <1>1, MakefileSeq, ReadFileKeeps DEF ReadMakefile
<1>3. PICK chain : chain = [k \in {0} |-> AtFirst']
  OBVIOUS
<1>4. Len(stack') = 0 /\ chain[0] = AtFirst'
  BY <1>1, <1>3, EmptySeq
<1>5. Like(m', chain[0])
  BY <1>1, <1>2, <1>4 DEF Keeps, AtFirst, Like, Same
<1>6. Chain(chain)'
  BY <1>4, <1>5 DEF Chain
<1>7. ShapeInv'
  BY <1>1, <1>2 DEF Keeps, RestoredInv, ShapeInv
<1>. QED  BY <1>1, <1>6, <1>7 DEF RestoredInv

LEMMA RestoredStep ==
  ASSUME RestoredInv, [Next]_vars
  PROVE  RestoredInv'
<1>1. ASSUME NEW t \in Target, Consider(t) PROVE RestoredInv'
  BY <1>1, ConsiderRestored
<1>2. CASE NextGoal \/ Done \/ UNCHANGED vars
  <2>1. UNCHANGED <<phase, given, m, stack, queue, base>>
    BY <1>2 DEF NextGoal, Done, vars
  <2>. QED  BY <2>1 DEF RestoredInv, ShapeInv, Chain, AtFirst, Entries, EntryShaped,
                        FrameShaped, Shaped
<1>3. CASE AddPending \/ AddSerial
  <2>1. PICK kind \in {"pending", "serial"} :
          /\ queue' = Append(queue, Entry(kind, m.conditional_targets)) /\ Return(kind)
    BY <1>3 DEF AddPending, AddSerial
  <2>2. stack /= <<>> /\ UNCHANGED <<phase, given, base>>
    BY <1>3 DEF AddPending, AddSerial, DepsDone
  <2>3. Entries(queue')
    BY <2>1, PutRestored
  <2>. QED  BY <2>1, <2>2, <2>3, ReturnRestored
<1>4. CASE RunCommand
  <2>1. PICK s : Return(s)
    BY <1>4 DEF RunCommand
  <2>2. stack /= <<>> /\ UNCHANGED <<phase, given, base>>
    BY <1>4 DEF RunCommand, DepsDone
  <2>3. Entries(queue')
    <3>1. queue' = queue \/ queue' = Append(queue, Entry("running", m.conditional_targets))
      BY <1>4 DEF RunCommand
    <3>2. Entries(queue)
      BY DEF RestoredInv, ShapeInv
    <3>. QED  BY <3>1, <3>2, PutRestored
  <2>. QED  BY <2>1, <2>2, <2>3, ReturnRestored
<1>5. CASE Considered
  BY <1>5, ConsideredRestored
<1>6. CASE ReadDefaults \/ ReadArguments
  BY <1>6, StartRestored
<1>7. CASE ReadMakefile
  BY <1>7, MakefileRestored
<1>8. ASSUME NEW i \in DOMAIN queue, Finish(i) \/ Resume(i) PROVE RestoredInv'
  <2>1. phase = "build"
    <3>1. queue /= <<>>
      OBVIOUS
    <3>. QED  BY <3>1 DEF RestoredInv
  <2>. QED  BY <1>8, <2>1, FinishRestored, ResumeRestored
<1>. QED  BY <1>1, <1>2, <1>3, <1>4, <1>5, <1>6, <1>7, <1>8 DEF Next

\* When no call of doname() is active, the macros have the values they had when
\* the build began and no conditional target is active: however calls nested,
\* whatever chain of targets was put aside with its values and resumed with
\* them, and whichever recipes ended meanwhile.
\* (doname.cc 3348-3457 set_locals and reset_locals; parallel.cc 1010-1080
\* process_next, 1229-1285 set_conditionals and reset_conditionals)
THEOREM ValuesAreRestored == Spec => []Restored
<1>1. Init => RestoredInv
  BY RestoredInit
<1>2. RestoredInv /\ [Next]_vars => RestoredInv'
  BY RestoredStep
<1>3. RestoredInv => Restored
  BY RestoredSound
<1>. QED  BY <1>1, <1>2, <1>3, PTL DEF Spec

-----------------------------------------------------------------------------
(* What lists of assignments make of a value *)

Words == Seq(STRING)

\* f begins with first and goes on by step.
Stepwise(f, n, S, first, step) ==
    /\ f \in [0 .. n -> S]
    /\ f[0] = first /\ \A i \in 1 .. n : f[i] = step[<<f[i - 1], i>>]

LEMMA Steps ==
  ASSUME NEW n \in Nat, NEW S, NEW first \in S, NEW step, step \in [S \X (1 .. n) -> S]
  PROVE  \E f : Stepwise(f, n, S, first, step)
<1>. DEFINE Can(k) == \E f \in [0 .. k -> S] :
                 f[0] = first /\ \A i \in 1 .. k : f[i] = step[<<f[i - 1], i>>]
            T == {k \in 0 .. n : Can(k)}
<1>1. Can(0)
  <2>1. PICK f : f = [i \in 0 .. 0 |-> first]
    OBVIOUS
  <2>. QED  BY <2>1
<1>2. ASSUME NEW k \in 0 .. n - 1, Can(k) PROVE Can(k + 1)
  <2>1. PICK f \in [0 .. k -> S] :
          f[0] = first /\ \A i \in 1 .. k : f[i] = step[<<f[i - 1], i>>]
    BY <1>2
  <2>2. PICK x : x = step[<<f[k], k + 1>>]
    OBVIOUS
  <2>3. x \in S
    <3>1. <<f[k], k + 1>> \in S \X (1 .. n)
      BY <2>1
    <3>. QED  BY <2>2, <3>1
  <2>4. PICK g : g = [i \in 0 .. k + 1 |-> IF i = k + 1 THEN x ELSE f[i]]
    OBVIOUS
  <2>5. g \in [0 .. k + 1 -> S] /\ g[0] = first /\ g[k + 1] = x
        /\ \A i \in 0 .. k : g[i] = f[i]
    BY <2>1, <2>3, <2>4
  <2>6. ASSUME NEW i \in 1 .. k + 1 PROVE g[i] = step[<<g[i - 1], i>>]
    <3>1. CASE i = k + 1
      <4>1. g[i - 1] = f[k]
        BY <2>5, <3>1
      <4>. QED  BY <2>2, <2>5, <3>1, <4>1
    <3>2. CASE i \in 1 .. k
      <4>1. i - 1 \in 0 .. k /\ i \in 0 .. k
        BY <3>2
      <4>2. g[i] = f[i] /\ g[i - 1] = f[i - 1]
        BY <2>5, <4>1
      <4>. QED  BY <2>1, <3>2, <4>2
    <3>. QED  BY <3>1, <3>2
  <2>. QED  BY <2>5, <2>6
<1>3. 0 .. n \subseteq T
  <2>. HIDE DEF Can
  <2>1. 0 \in T /\ \A k \in 0 .. n - 1 : k \in T => k + 1 \in T
    BY <1>1, <1>2
  <2>. HIDE DEF T
  <2>. QED  BY <2>1, Upwards
<1>4. Can(n)
  <2>. HIDE DEF Can
  <2>. QED  BY <1>3
<1>. QED  BY <1>4 DEF Stepwise

\* Assignments of words to macros.
Settings(list) ==
    /\ IsSeq(list)
    /\ \A i \in DOMAIN list : /\ list[i].name \in Macro /\ list[i].value \in Words
                              /\ list[i].append \in BOOLEAN

OneAssigned(v, n, a) ==
    IF a.name /= n THEN v ELSE IF a.append THEN v \o a.value ELSE a.value
OneAppended(v, n, a) == IF a.name = n /\ a.append THEN v \o a.value ELSE v

LEMMA OneWords ==
  ASSUME NEW v \in Words, NEW n, NEW a, a.value \in Words
  PROVE  OneAssigned(v, n, a) \in Words /\ OneAppended(v, n, a) \in Words
<1>1. v \o a.value \in Words
  BY ConcatProperties DEF Words
<1>. QED  BY <1>1 DEF OneAssigned, OneAppended

AssignedBy(f, v, n, list) ==
    /\ f[0] = v
    /\ \A i \in 1 .. Len(list) : f[i] = OneAssigned(f[i - 1], n, list[i])
    /\ \A i \in 0 .. Len(list) : f[i] \in Words
    /\ Assigned(v, n, list) = f[Len(list)]

AppendedBy(f, v, n, list) ==
    /\ f[0] = v
    /\ \A i \in 1 .. Len(list) : f[i] = OneAppended(f[i - 1], n, list[i])
    /\ \A i \in 0 .. Len(list) : f[i] \in Words
    /\ Appended(v, n, list) = f[Len(list)]

LEMMA AssignedIs ==
  ASSUME NEW v \in Words, NEW n, NEW list, Settings(list)
  PROVE  \E f : AssignedBy(f, v, n, list)
<1>1. PICK k \in Nat : k = Len(list) /\ DOMAIN list = 1 .. k
  BY SeqShape DEF Settings
<1>2. \A i \in 1 .. k : list[i].value \in Words
  BY <1>1 DEF Settings
<1>. DEFINE step == [p \in Words \X (1 .. k) |-> OneAssigned(p[1], n, list[p[2]])]
            Made(g) == g = [i \in 0 .. k |->
                              IF i = 0 THEN v ELSE OneAssigned(g[i - 1], n, list[i])]
<1>3. step \in [Words \X (1 .. k) -> Words]
  BY <1>2, OneWords
<1>4. PICK f \in [0 .. k -> Words] :
        f[0] = v /\ \A i \in 1 .. k : f[i] = step[<<f[i - 1], i>>]
  <2>1. PICK W, st : W = Words /\ st = step
    OBVIOUS
  <2>2. st \in [W \X (1 .. k) -> W] /\ v \in W
    BY <1>3, <2>1
  <2>3. \E f : Stepwise(f, k, W, v, st)
    BY <2>2, Steps
  <2>. QED  BY <2>1, <2>3 DEF Stepwise
<1>5. \A i \in 1 .. k : f[i] = OneAssigned(f[i - 1], n, list[i])
  <2>. TAKE i \in 1 .. k
  <2>1. <<f[i - 1], i>> \in Words \X (1 .. k)
    BY <1>4
  <2>. QED  BY <1>4, <2>1
<1>6. Made(f)
  <2>1. f = [i \in 0 .. k |-> f[i]]
    BY <1>4
  <2>2. \A i \in 0 .. k : f[i] = IF i = 0 THEN v ELSE OneAssigned(f[i - 1], n, list[i])
    BY <1>4, <1>5
  <2>. QED  BY <2>1, <2>2
<1>7. PICK g : g = CHOOSE h : Made(h)
  OBVIOUS
<1>8. Made(g)
  BY <1>6, <1>7
<1>9. Assigned(v, n, list) = g[k]
  BY <1>1, <1>7 DEF Assigned, OneAssigned
<1>10. g[0] = v /\ \A i \in 1 .. k : g[i] = OneAssigned(g[i - 1], n, list[i])
  <2>. HIDE DEF OneAssigned
  <2>. QED  BY <1>8
<1>11. \A i \in 0 .. k : g[i] \in Words
  <2>. DEFINE T == {i \in 0 .. k : g[i] \in Words}
  <2>1. 0 \in T
    BY <1>10
  <2>2. ASSUME NEW i \in 0 .. k - 1, i \in T PROVE i + 1 \in T
    <3>1. i + 1 \in 1 .. k /\ i + 1 - 1 = i
      OBVIOUS
    <3>2. g[i + 1] = OneAssigned(g[i], n, list[i + 1])
      BY <1>10, <3>1
    <3>. QED  BY <1>2, <2>2, <3>1, <3>2, OneWords
  <2>3. 0 .. k \subseteq T
    <3>. HIDE DEF T
    <3>. QED  BY <2>1, <2>2, Upwards
  <2>. QED  BY <2>3
<1>. QED  BY <1>1, <1>9, <1>10, <1>11 DEF AssignedBy

LEMMA AppendedIs ==
  ASSUME NEW v \in Words, NEW n, NEW list, Settings(list)
  PROVE  \E f : AppendedBy(f, v, n, list)
<1>1. PICK k \in Nat : k = Len(list) /\ DOMAIN list = 1 .. k
  BY SeqShape DEF Settings
<1>2. \A i \in 1 .. k : list[i].value \in Words
  BY <1>1 DEF Settings
<1>. DEFINE step == [p \in Words \X (1 .. k) |-> OneAppended(p[1], n, list[p[2]])]
            Made(g) == g = [i \in 0 .. k |->
                              IF i = 0 THEN v ELSE OneAppended(g[i - 1], n, list[i])]
<1>3. step \in [Words \X (1 .. k) -> Words]
  BY <1>2, OneWords
<1>4. PICK f \in [0 .. k -> Words] :
        f[0] = v /\ \A i \in 1 .. k : f[i] = step[<<f[i - 1], i>>]
  <2>1. PICK W, st : W = Words /\ st = step
    OBVIOUS
  <2>2. st \in [W \X (1 .. k) -> W] /\ v \in W
    BY <1>3, <2>1
  <2>3. \E f : Stepwise(f, k, W, v, st)
    BY <2>2, Steps
  <2>. QED  BY <2>1, <2>3 DEF Stepwise
<1>5. \A i \in 1 .. k : f[i] = OneAppended(f[i - 1], n, list[i])
  <2>. TAKE i \in 1 .. k
  <2>1. <<f[i - 1], i>> \in Words \X (1 .. k)
    BY <1>4
  <2>. QED  BY <1>4, <2>1
<1>6. Made(f)
  <2>1. f = [i \in 0 .. k |-> f[i]]
    BY <1>4
  <2>2. \A i \in 0 .. k : f[i] = IF i = 0 THEN v ELSE OneAppended(f[i - 1], n, list[i])
    BY <1>4, <1>5
  <2>. QED  BY <2>1, <2>2
<1>7. PICK g : g = CHOOSE h : Made(h)
  OBVIOUS
<1>8. Made(g)
  BY <1>6, <1>7
<1>9. Appended(v, n, list) = g[k]
  BY <1>1, <1>7 DEF Appended, OneAppended
<1>10. g[0] = v /\ \A i \in 1 .. k : g[i] = OneAppended(g[i - 1], n, list[i])
  <2>. HIDE DEF OneAppended
  <2>. QED  BY <1>8
<1>11. \A i \in 0 .. k : g[i] \in Words
  <2>. DEFINE T == {i \in 0 .. k : g[i] \in Words}
  <2>1. 0 \in T
    BY <1>10
  <2>2. ASSUME NEW i \in 0 .. k - 1, i \in T PROVE i + 1 \in T
    <3>1. i + 1 \in 1 .. k /\ i + 1 - 1 = i
      OBVIOUS
    <3>2. g[i + 1] = OneAppended(g[i], n, list[i + 1])
      BY <1>10, <3>1
    <3>. QED  BY <1>2, <2>2, <3>1, <3>2, OneWords
  <2>3. 0 .. k \subseteq T
    <3>. HIDE DEF T
    <3>. QED  BY <2>1, <2>2, Upwards
  <2>. QED  BY <2>3
<1>. QED  BY <1>1, <1>9, <1>10, <1>11 DEF AppendedBy

(* What an assignment makes of the macros *)

\* The value of n without what the command line appends to it.
Plainly(x, n) == IF x.appendix[n].on THEN x.appendix[n].value ELSE x.body[n].value

Typed(x) ==
    /\ Shaped(x)
    /\ x.body \in [Macro -> [value : Words, read_only : BOOLEAN, exported : BOOLEAN]]
    /\ x.appendix \in [Macro -> [on : BOOLEAN, value : Words, to_append : Words]]
    /\ \A k \in DOMAIN x.env : x.env[k] \in Words
    /\ \A k \in Macro : ~x.appendix[k].on => x.appendix[k].to_append = <<>>

\* The value of k is complete, and in the environment if it is to be there.
Complete(x, k) ==
    /\ x.body[k].value = Plainly(x, k) \o x.appendix[k].to_append
    /\ x.body[k].exported => k \in DOMAIN x.env /\ x.env[k] = x.body[k].value

Valued(x) == Typed(x) /\ \A k \in Macro : Complete(x, k)

\* y has the values of x at other places.
Steady(x, y) == \A k \in Macro :
    /\ y.body[k].read_only = x.body[k].read_only
    /\ y.body[k].exported = x.body[k].exported
    /\ y.appendix[k].on = x.appendix[k].on
    /\ y.appendix[k].to_append = x.appendix[k].to_append

Setting(a) == a.name \in Macro /\ a.value \in Words /\ a.append \in BOOLEAN

LEMMA NoneAppended ==
  ASSUME NEW v \in Words
  PROVE  v \o <<>> = v /\ <<>> \in Words
BY ConcatEmptySeq, EmptySeq DEF Words

LEMMA PlainWords ==
  ASSUME NEW x, Typed(x), NEW n \in Macro
  PROVE  Plainly(x, n) \in Words /\ x.appendix[n].to_append \in Words /\ x.body[n].value \in Words
BY DEF Typed, Plainly

LEMMA DaemonSets ==
  ASSUME NEW mm, Typed(mm), NEW a, Setting(a), NEW reading \in BOOLEAN,
         NEW d, d = setvar_daemon(mm, a, reading)
  PROVE  /\ Typed(d) /\ Steady(mm, d)
         /\ (\A k \in Macro : k /= a.name \/ reading => Complete(mm, k)) => Valued(d)
         /\ \A n \in Macro : Plainly(d, n) =
              IF reading /\ mm.body[n].read_only THEN Plainly(mm, n)
              ELSE OneAssigned(Plainly(mm, n), n, a)
         /\ \A n \in Macro : ~mm.appendix[n].on => d.appendix[n] = mm.appendix[n]
         /\ ~mm.body[a.name].exported => d.env = mm.env
<1>1. PICK c : c = a.name /\ c \in Macro
  BY DEF Setting
<1>2. Shaped(d)
  BY DaemonKeeps DEF Typed
<1>3. CASE reading /\ mm.body[c].read_only
  <2>1. d = mm
    BY <1>1, <1>3 DEF setvar_daemon
  <2>2. \A n \in Macro : ~mm.body[n].read_only =>
                           OneAssigned(Plainly(mm, n), n, a) = Plainly(mm, n)
    BY <1>1, <1>3 DEF OneAssigned
  <2>3. (\A k \in Macro : k /= a.name \/ reading => Complete(mm, k)) => Valued(d)
    BY <1>3, <2>1 DEF Valued
  <2>. QED  BY <1>3, <2>1, <2>2, <2>3 DEF Steady
<1>4. CASE ~(reading /\ mm.body[c].read_only)
  <2>1. PICK x, old : x = mm.appendix[c] /\ old = Plainly(mm, c)
    OBVIOUS
  <2>2. PICK new : new = OneAssigned(old, c, a)
    OBVIOUS
  <2>3. PICK v : v = IF x.on THEN new \o x.to_append ELSE new
    OBVIOUS
  <2>4. PICK w : w = IF x.on THEN new ELSE x.value
    OBVIOUS
  <2>5. PICK e : e = IF mm.body[c].exported
                       THEN [k \in DOMAIN mm.env \cup {c} |-> IF k = c THEN v ELSE mm.env[k]]
                       ELSE mm.env
    OBVIOUS
  <2>6. x \in [on : BOOLEAN, value : Words, to_append : Words]
    BY <1>1, <2>1 DEF Typed
  <2>7. old \in Words /\ new \in Words
    BY <1>1, <2>1, <2>2, PlainWords, OneWords DEF Setting
  <2>8. v \in Words /\ w \in Words /\ v = new \o x.to_append
    <3>1. new \o x.to_append \in Words
      BY <2>6, <2>7, ConcatProperties DEF Words
    <3>2. ~x.on => x.to_append = <<>>
      BY <1>1, <2>1 DEF Typed
    <3>3. new \o <<>> = new
      BY <2>7, NoneAppended
    <3>. QED  BY <2>3, <2>4, <2>6, <2>7, <3>1, <3>2, <3>3
  <2>9. d = [mm EXCEPT !.body[c].value = v, !.appendix[c].value = w, !.env = e]
    <3>1. new = IF a.append THEN old \o a.value ELSE a.value
      BY <1>1, <2>2 DEF OneAssigned
    <3>. QED  BY <1>1, <1>4, <2>1, <2>3, <2>4, <2>5, <3>1 DEF setvar_daemon, Plainly
  <2>10. PICK b, p : b = [mm.body EXCEPT ![c].value = v]
                     /\ p = [mm.appendix EXCEPT ![c].value = w]
    OBVIOUS
  <2>11. d.body = b /\ d.appendix = p /\ d.env = e
    <3>1. d = [body |-> b, appendix |-> p, env |-> e,
               conditional_targets |-> mm.conditional_targets, held |-> mm.held]
      BY <2>9, <2>10 DEF Typed, Shaped
    <3>. QED  BY <3>1
  <2>12. /\ b \in [Macro -> [value : Words, read_only : BOOLEAN, exported : BOOLEAN]]
         /\ b[c].value = v /\ \A k \in Macro : k /= c => b[k] = mm.body[k]
         /\ b[c].read_only = mm.body[c].read_only /\ b[c].exported = mm.body[c].exported
    <3>1. mm.body \in [Macro -> [value : Words, read_only : BOOLEAN, exported : BOOLEAN]]
      BY DEF Typed
    <3>2. /\ mm.body[c].read_only \in BOOLEAN /\ mm.body[c].exported \in BOOLEAN
          /\ [mm.body[c] EXCEPT !.value = v] =
               [value |-> v, read_only |-> mm.body[c].read_only,
                exported |-> mm.body[c].exported]
      BY <1>1, <3>1
    <3>3. b = [k \in Macro |-> IF k = c THEN [value |-> v, read_only |-> mm.body[c].read_only,
                                              exported |-> mm.body[c].exported]
                               ELSE mm.body[k]]
      BY <2>10, <3>1, <3>2
    <3>4. b \in [Macro -> [value : Words, read_only : BOOLEAN, exported : BOOLEAN]]
      BY <2>8, <3>1, <3>2, <3>3
    <3>. QED  BY <1>1, <3>3, <3>4
  <2>13. /\ p \in [Macro -> [on : BOOLEAN, value : Words, to_append : Words]]
         /\ p[c] = [x EXCEPT !.value = w] /\ \A k \in Macro : k /= c => p[k] = mm.appendix[k]
         /\ p[c].value = w /\ p[c].on = x.on /\ p[c].to_append = x.to_append
    BY <1>1, <2>1, <2>6, <2>8, <2>10 DEF Typed
  <2>14. /\ \A k \in DOMAIN e : e[k] \in Words
         /\ mm.body[c].exported => c \in DOMAIN e /\ e[c] = v
         /\ \A k : k /= c /\ k \in DOMAIN mm.env => k \in DOMAIN e /\ e[k] = mm.env[k]
    <3>1. CASE mm.body[c].exported
      <4>1. e = [k \in DOMAIN mm.env \cup {c} |-> IF k = c THEN v ELSE mm.env[k]]
        BY <2>5, <3>1
      <4>2. \A k \in DOMAIN mm.env : mm.env[k] \in Words
        BY DEF Typed
      <4>. QED  BY <2>8, <4>1, <4>2
    <3>2. CASE ~mm.body[c].exported
      BY <2>5, <3>2 DEF Typed
    <3>. QED  BY <3>1, <3>2
  <2>15. Plainly(d, c) = new /\ \A k \in Macro : k /= c => Plainly(d, k) = Plainly(mm, k)
    <3>1. Plainly(d, c) = IF p[c].on THEN p[c].value ELSE b[c].value
      BY <2>11 DEF Plainly
    <3>2. Plainly(d, c) = new
      BY <2>3, <2>4, <2>12, <2>13, <3>1
    <3>3. \A k \in Macro : k /= c => Plainly(d, k) = Plainly(mm, k)
      BY <2>11, <2>12, <2>13 DEF Plainly
    <3>. QED  BY <3>2, <3>3
  <2>16. Steady(mm, d)
    BY <1>1, <2>1, <2>11, <2>12, <2>13 DEF Steady
  <2>17. ASSUME NEW k \in Macro, k = c \/ Complete(mm, k)
         PROVE  /\ b[k].value = Plainly(d, k) \o p[k].to_append
                /\ b[k].exported => k \in DOMAIN e /\ e[k] = b[k].value
    <3>1. CASE k = c
      BY <2>8, <2>12, <2>13, <2>14, <2>15, <3>1
    <3>2. CASE k /= c
      <4>1. Complete(mm, k)
        BY <2>17, <3>2
      <4>2. b[k] = mm.body[k] /\ p[k] = mm.appendix[k] /\ Plainly(d, k) = Plainly(mm, k)
        BY <2>12, <2>13, <2>15, <3>2
      <4>. QED  BY <2>14, <3>2, <4>1, <4>2 DEF Complete
    <3>. QED  BY <3>1, <3>2
  <2>18. Typed(d)
    <3>1. \A k \in Macro : ~p[k].on => p[k].to_append = <<>>
      BY <2>1, <2>13 DEF Typed
    <3>. QED  BY <1>2, <2>11, <2>12, <2>13, <2>14, <3>1 DEF Typed
  <2>22. (\A k \in Macro : k /= a.name \/ reading => Complete(mm, k)) => Valued(d)
    <3>. SUFFICES ASSUME \A k \in Macro : k /= a.name \/ reading => Complete(mm, k)
                  PROVE  \A k \in Macro : Complete(d, k)
      BY <2>18 DEF Valued
    <3>1. \A k \in Macro : k = c \/ Complete(mm, k)
      BY <1>1
    <3>. QED  BY <2>11, <2>17, <3>1 DEF Complete
  <2>19. ASSUME NEW n \in Macro
         PROVE  Plainly(d, n) = IF reading /\ mm.body[n].read_only THEN Plainly(mm, n)
                                ELSE OneAssigned(Plainly(mm, n), n, a)
    <3>1. CASE n = c
      BY <1>4, <2>1, <2>2, <2>15, <3>1
    <3>2. CASE n /= c
      BY <1>1, <2>15, <3>2 DEF OneAssigned
    <3>. QED  BY <3>1, <3>2
  <2>20. \A n \in Macro : ~mm.appendix[n].on => d.appendix[n] = mm.appendix[n]
    <3>1. ~x.on => p[c] = x
      BY <2>4, <2>6, <2>13
    <3>. QED  BY <2>1, <2>11, <2>13, <3>1
  <2>21. ~mm.body[a.name].exported => d.env = mm.env
    BY <1>1, <2>5, <2>11
  <2>. QED  BY <2>16, <2>18, <2>19, <2>20, <2>21, <2>22
<1>. QED  BY <1>3, <1>4

LEMMA SteadyOn ==
  ASSUME NEW x, NEW y, NEW z, Steady(x, y), Steady(y, z)
  PROVE  Steady(x, z)
BY DEF Steady

\* A list of assignments sets each macro that may be set.
LEMMA EachSets ==
  ASSUME NEW mm, Typed(mm), NEW list, Settings(list), NEW reading \in BOOLEAN,
         NEW d, d = AfterEach(mm, list, reading)[Len(list)]
  PROVE  /\ Typed(d) /\ Steady(mm, d)
         /\ Valued(mm) => Valued(d)
         /\ \A n \in Macro : Plainly(d, n) =
              IF reading /\ mm.body[n].read_only THEN Plainly(mm, n)
              ELSE Assigned(Plainly(mm, n), n, list)
         /\ \A n \in Macro : ~mm.appendix[n].on => d.appendix[n] = mm.appendix[n]
         /\ (\A n \in Macro : ~mm.body[n].exported) => d.env = mm.env
<1>1. PICK l \in Nat : l = Len(list) /\ DOMAIN list = 1 .. l
  BY SeqShape DEF Settings
<1>2. PICK after : after = AfterEach(mm, list, reading)
  OBVIOUS
<1>3. after[0] = mm /\ \A i \in 1 .. l : after[i] = setvar_daemon(after[i - 1], list[i], reading)
  <2>1. IsSeq(list)
    BY DEF Settings
  <2>2. /\ after[0] = mm
        /\ \A i \in 1 .. Len(list) : after[i] = setvar_daemon(after[i - 1], list[i], reading)
    BY <1>2, <2>1, AfterEachIs
  <2>. QED  BY <1>1, <2>2
<1>. DEFINE Fine(i) ==
       /\ Typed(after[i]) /\ Steady(mm, after[i])
       /\ Valued(mm) => Valued(after[i])
       /\ \A n \in Macro : ~mm.appendix[n].on => after[i].appendix[n] = mm.appendix[n]
       /\ (\A n \in Macro : ~mm.body[n].exported) => after[i].env = mm.env
            T == {i \in 0 .. l : Fine(i)}
<1>4. Fine(0)
  BY <1>3 DEF Steady
<1>5. ASSUME NEW i \in 0 .. l - 1, Typed(after[i])
      PROVE  /\ Typed(after[i + 1]) /\ Steady(after[i], after[i + 1])
             /\ Valued(after[i]) => Valued(after[i + 1])
             /\ \A n \in Macro : Plainly(after[i + 1], n) =
                  IF reading /\ after[i].body[n].read_only THEN Plainly(after[i], n)
                  ELSE OneAssigned(Plainly(after[i], n), n, list[i + 1])
             /\ \A n \in Macro : ~after[i].appendix[n].on =>
                  after[i + 1].appendix[n] = after[i].appendix[n]
             /\ (\A n \in Macro : ~after[i].body[n].exported) => after[i + 1].env = after[i].env
  <2>1. i + 1 \in 1 .. l /\ i + 1 - 1 = i
    OBVIOUS
  <2>2. Setting(list[i + 1])
    BY <1>1, <2>1 DEF Settings, Setting
  <2>3. after[i + 1] = setvar_daemon(after[i], list[i + 1], reading)
    BY <1>3, <2>1
  <2>4. PICK x, a, d1 : x = after[i] /\ a = list[i + 1] /\ d1 = after[i + 1] /\ Typed(x)
    BY <1>5
  <2>5. Setting(a) /\ d1 = setvar_daemon(x, a, reading) /\ a.name \in Macro
    BY <2>2, <2>3, <2>4 DEF Setting
  <2>6. Valued(x) => Valued(d1)
    BY <2>4, <2>5, DaemonSets DEF Valued
  <2>7. /\ Typed(d1) /\ Steady(x, d1)
        /\ \A n \in Macro : Plainly(d1, n) =
             IF reading /\ x.body[n].read_only THEN Plainly(x, n)
             ELSE OneAssigned(Plainly(x, n), n, a)
        /\ \A n \in Macro : ~x.appendix[n].on => d1.appendix[n] = x.appendix[n]
        /\ ~x.body[a.name].exported => d1.env = x.env
    BY <2>4, <2>5, DaemonSets
  <2>. QED  BY <2>4, <2>5, <2>6, <2>7
<1>6. ASSUME NEW i \in 0 .. l - 1, Fine(i) PROVE Fine(i + 1)
  BY <1>5, <1>6, SteadyOn DEF Steady
<1>7. \A i \in 0 .. l : Fine(i)
  <2>. HIDE DEF Fine
  <2>1. 0 \in T /\ \A i \in 0 .. l - 1 : i \in T => i + 1 \in T
    BY <1>4, <1>6
  <2>. HIDE DEF T
  <2>2. 0 .. l \subseteq T
    BY <2>1, Upwards
  <2>. QED  BY <2>2 DEF T
<1>8. ASSUME NEW n \in Macro
      PROVE  Plainly(after[l], n) = IF reading /\ mm.body[n].read_only THEN Plainly(mm, n)
                                    ELSE Assigned(Plainly(mm, n), n, list)
  <2>1. PICK v \in Words : v = Plainly(mm, n)
    BY PlainWords DEF Valued
  <2>2. PICK f : AssignedBy(f, v, n, list)
    BY <2>1, AssignedIs
  <2>3. /\ f[0] = v /\ Assigned(v, n, list) = f[l]
        /\ \A i \in 1 .. l : f[i] = OneAssigned(f[i - 1], n, list[i])
    BY <1>1, <2>2 DEF AssignedBy
  <2>. DEFINE Good(i) == Plainly(after[i], n) = IF reading /\ mm.body[n].read_only THEN v ELSE f[i]
              U == {i \in 0 .. l : Good(i)}
  <2>4. Good(0)
    BY <1>3, <2>1, <2>3
  <2>5. ASSUME NEW i \in 0 .. l - 1, Good(i) PROVE Good(i + 1)
    <3>1. i + 1 \in 1 .. l /\ i + 1 - 1 = i /\ i \in 0 .. l
      OBVIOUS
    <3>2. after[i].body[n].read_only = mm.body[n].read_only /\ Typed(after[i])
      BY <1>7, <3>1 DEF Steady
    <3>3. f[i + 1] = OneAssigned(f[i], n, list[i + 1])
      BY <2>3, <3>1
    <3>. QED  BY <1>5, <2>5, <3>2, <3>3
  <2>6. Good(l)
    <3>. HIDE DEF Good
    <3>1. 0 \in U /\ \A i \in 0 .. l - 1 : i \in U => i + 1 \in U
      BY <2>4, <2>5
    <3>. HIDE DEF U
    <3>2. 0 .. l \subseteq U
      BY <3>1, Upwards
    <3>. QED  BY <3>2 DEF U
  <2>. QED  BY <2>1, <2>3, <2>6
<1>. QED  BY <1>1, <1>2, <1>7, <1>8

-----------------------------------------------------------------------------
(* The elements that are chosen *)

LEMMA ChosenFrom ==
  ASSUME NEW list, IsSeq(list), NEW S
  PROVE  \A k \in DOMAIN Chosen(list, S) :
           \E i \in DOMAIN list : i \in S /\ Chosen(list, S)[k] = list[i]
<1>1. PICK f :
        /\ f[0] = <<>>
        /\ \A i \in 1 .. Len(list) :
             f[i] = (IF i \in S THEN Append(f[i - 1], list[i]) ELSE f[i - 1])
        /\ Chosen(list, S) = f[Len(list)]
  BY ChosenIs
<1>2. PICK l \in Nat : l = Len(list) /\ DOMAIN list = 1 .. l
  BY SeqShape
<1>. DEFINE Fine(j) == /\ IsSeq(f[j])
                       /\ \A k \in 1 .. Len(f[j]) :
                            \E i \in 1 .. l : i \in S /\ f[j][k] = list[i]
            T == {j \in 0 .. l : Fine(j)}
<1>3. Fine(0)
  BY <1>1, NoneIsSeq, EmptySeq
<1>4. ASSUME NEW j \in 0 .. l - 1, Fine(j) PROVE Fine(j + 1)
  <2>1. j + 1 \in 1 .. l /\ j + 1 - 1 = j
    OBVIOUS
  <2>2. PICK s : s = f[j] /\ IsSeq(s) /\ Len(s) \in Nat
    BY <1>4, SeqShape
  <2>3. f[j + 1] = (IF j + 1 \in S THEN Append(s, list[j + 1]) ELSE s)
    BY <1>1, <1>2, <2>1, <2>2
  <2>4. CASE j + 1 \in S
    <3>1. PICK u : u = Append(s, list[j + 1])
      OBVIOUS
    <3>2. /\ IsSeq(u) /\ Len(u) = Len(s) + 1 /\ \A i \in 1 .. Len(s) : u[i] = s[i]
          /\ u[Len(s) + 1] = list[j + 1]
      BY <2>2, <3>1, AppendSeq
    <3>3. ASSUME NEW k \in 1 .. Len(u)
          PROVE  \E i \in 1 .. l : i \in S /\ u[k] = list[i]
      <4>1. CASE k = Len(s) + 1
        BY <2>1, <2>4, <3>2, <4>1
      <4>2. CASE k \in 1 .. Len(s)
        BY <1>4, <2>2, <3>2, <4>2
      <4>. QED  BY <2>2, <3>2, <4>1, <4>2
    <3>. QED  BY <2>3, <2>4, <3>1, <3>2, <3>3
  <2>5. CASE j + 1 \notin S
    BY <1>4, <2>2, <2>3, <2>5
  <2>. QED  BY <2>4, <2>5
<1>5. Fine(l)
  <2>. HIDE DEF Fine
  <2>1. 0 \in T /\ \A i \in 0 .. l - 1 : i \in T => i + 1 \in T
    BY <1>3, <1>4
  <2>. HIDE DEF T
  <2>2. 0 .. l \subseteq T
    BY <2>1, Upwards
  <2>. QED  BY <2>2 DEF T
<1>6. PICK c : c = Chosen(list, S) /\ c = f[l]
  BY <1>1, <1>2
<1>7. IsSeq(c) /\ \A k \in 1 .. Len(c) : \E i \in 1 .. l : i \in S /\ c[k] = list[i]
  BY <1>5, <1>6
<1>8. DOMAIN c = 1 .. Len(c)
  BY <1>7, SeqShape
<1>. QED  BY <1>2, <1>6, <1>7, <1>8

LEMMA AtOnceSettings ==
  ASSUME NEW list, list \in Seq(Statement)
  PROVE  IsSeq(list) /\ Settings(AtOnce(list))
<1>1. IsSeq(list) /\ \A i \in DOMAIN list : list[i] \in Statement
  BY SeqIs, ElementOfSeq, LenProperties
<1>2. PICK S : AtOnce(list) = Chosen(list, S)
  BY DEF AtOnce
<1>3. IsSeq(Chosen(list, S)) /\ \A k \in DOMAIN Chosen(list, S) : Chosen(list, S)[k] \in Statement
  BY <1>1, ChosenSeq, ChosenFrom
<1>. QED  BY <1>1, <1>2, <1>3 DEF Settings, Statement, Words
-----------------------------------------------------------------------------
(* The command line *)

\* What x becomes when args are entered.
Entering(x, d, args) ==
    /\ Valued(d)
    /\ \A n \in Macro :
         /\ Plainly(d, n) = IF Plain(args, n) = {} THEN Plainly(x, n)
                            ELSE args[Max(Plain(args, n))].value
         /\ d.body[n].read_only <=> (x.body[n].read_only \/ Plain(args, n) /= {})
         /\ x.body[n].exported => d.body[n].exported
         /\ d.appendix[n].on <=>
              (x.appendix[n].on \/ \E i \in DOMAIN args : args[i].name = n /\ args[i].append)
         /\ d.appendix[n].to_append = Appended(x.appendix[n].to_append, n, args)

LEMMA AppendSets ==
  ASSUME NEW mm, Valued(mm), NEW a, Setting(a), a.append,
         NEW d, d = enter_argv_value(mm, a)
  PROVE  /\ Valued(d)
         /\ \A n \in Macro :
              /\ Plainly(d, n) = Plainly(mm, n)
              /\ d.body[n].read_only = mm.body[n].read_only
              /\ mm.body[n].exported => d.body[n].exported
              /\ d.appendix[n].on <=> (mm.appendix[n].on \/ a.name = n)
              /\ d.appendix[n].to_append = OneAppended(mm.appendix[n].to_append, n, a)
<1>1. PICK c : c = a.name /\ c \in Macro /\ a.value \in Words
  BY DEF Setting
<1>2. PICK x : x = mm.appendix[c] /\ x \in [on : BOOLEAN, value : Words, to_append : Words]
  BY <1>1 DEF Valued, Typed
<1>3. PICK v : v = [on |-> TRUE, to_append |-> x.to_append \o a.value,
                    value |-> Plainly(mm, c)]
  OBVIOUS
<1>4. v \in [on : BOOLEAN, value : Words, to_append : Words]
  <2>1. x.to_append \o a.value \in Words
    BY <1>1, <1>2, ConcatProperties DEF Words
  <2>2. Plainly(mm, c) \in Words
    BY <1>1, PlainWords DEF Valued
  <2>. QED  BY <1>3, <2>1, <2>2
<1>5. PICK p, u : p = [mm.appendix EXCEPT ![c] = v] /\ u = [mm EXCEPT !.appendix = p]
  OBVIOUS
<1>6. PICK b : b = Assign(c, <<>>, TRUE)
  OBVIOUS
<1>7. d = setvar_daemon(u, b, FALSE)
  <2>1. [mm EXCEPT !.appendix[c] =
            [on |-> TRUE, to_append |-> x.to_append \o a.value,
             value |-> IF x.on THEN x.value ELSE mm.body[c].value]] = u
    BY <1>2, <1>3, <1>5 DEF Plainly
  <2>. QED  BY <1>1, <1>2, <1>6, <2>1 DEF enter_argv_value, setvar_append
<1>8. u.body = mm.body /\ u.env = mm.env /\ u.appendix = p /\ Shaped(u)
  <2>1. u = [body |-> mm.body, appendix |-> p, env |-> mm.env,
             conditional_targets |-> mm.conditional_targets, held |-> mm.held]
    BY <1>5 DEF Valued, Typed, Shaped
  <2>. QED  BY <2>1 DEF Valued, Typed, Shaped
<1>9. /\ p \in [Macro -> [on : BOOLEAN, value : Words, to_append : Words]] /\ p[c] = v
      /\ \A k \in Macro : k /= c => p[k] = mm.appendix[k]
  BY <1>1, <1>4, <1>5 DEF Valued, Typed
<1>10. \A k \in Macro : Plainly(u, k) = Plainly(mm, k)
  BY <1>3, <1>8, <1>9 DEF Plainly
<1>11. Typed(u)
  BY <1>3, <1>8, <1>9 DEF Valued, Typed
<1>12. \A k \in Macro : k /= c => Complete(u, k)
  BY <1>8, <1>9, <1>10 DEF Valued, Complete
<1>13. Setting(b) /\ b.name = c /\ b.value = <<>> /\ b.append = TRUE
  BY <1>1, <1>6, EmptySeq DEF Assign, Setting, Words
<1>14. PICK reading : reading = FALSE
  OBVIOUS
<1>15. /\ Valued(d) /\ Steady(u, d)
       /\ \A n \in Macro : Plainly(d, n) = OneAssigned(Plainly(u, n), n, b)
  <2>1. reading \in BOOLEAN /\ d = setvar_daemon(u, b, reading)
    BY <1>7, <1>14
  <2>2. \A k \in Macro : k /= b.name \/ reading => Complete(u, k)
    BY <1>12, <1>13, <1>14
  <2>3. \A n \in Macro : Plainly(d, n) =
              IF reading /\ u.body[n].read_only THEN Plainly(u, n)
              ELSE OneAssigned(Plainly(u, n), n, b)
    BY <1>11, <1>13, <2>1, <2>2, DaemonSets
  <2>4. Valued(d) /\ Steady(u, d)
    BY <1>11, <1>13, <2>1, <2>2, DaemonSets
  <2>. QED  BY <1>14, <2>3, <2>4
<1>16. ASSUME NEW n \in Macro PROVE OneAssigned(Plainly(u, n), n, b) = Plainly(mm, n)
  <2>1. Plainly(mm, n) \o <<>> = Plainly(mm, n)
    BY PlainWords, NoneAppended DEF Valued
  <2>. QED  BY <1>10, <1>13, <2>1 DEF OneAssigned
<1>17. ASSUME NEW n \in Macro
       PROVE  /\ d.appendix[n].on <=> (mm.appendix[n].on \/ a.name = n)
              /\ d.appendix[n].to_append = OneAppended(mm.appendix[n].to_append, n, a)
              /\ d.body[n].read_only = mm.body[n].read_only
              /\ mm.body[n].exported => d.body[n].exported
  <2>1. /\ d.appendix[n].on = p[n].on /\ d.appendix[n].to_append = p[n].to_append
        /\ d.body[n].read_only = mm.body[n].read_only
        /\ mm.body[n].exported => d.body[n].exported
    BY <1>8, <1>15 DEF Steady
  <2>2. CASE n = c
    <3>1. d.appendix[n].on /\ d.appendix[n].to_append = x.to_append \o a.value
      <4>1. v.on /\ v.to_append = x.to_append \o a.value
        BY <1>3
      <4>2. p[n] = v
        BY <1>9, <2>2
      <4>. QED  BY <2>1, <4>1, <4>2
    <3>2. a.name = n /\ x = mm.appendix[n]
      BY <1>1, <1>2, <2>2
    <3>. QED  BY <2>1, <3>1, <3>2 DEF OneAppended
  <2>3. CASE n /= c
    <3>1. p[n] = mm.appendix[n] /\ a.name /= n
      BY <1>1, <1>9, <2>3
    <3>. QED  BY <2>1, <3>1 DEF OneAppended
  <2>. QED  BY <2>2, <2>3
<1>. QED  BY <1>15, <1>16, <1>17

LEMMA ExportedBody ==
  ASSUME NEW r \in [value : Words, read_only : BOOLEAN, exported : BOOLEAN],
         NEW q, q = [r EXCEPT !.exported = TRUE]
  PROVE  /\ q \in [value : Words, read_only : BOOLEAN, exported : BOOLEAN]
         /\ q.value = r.value /\ q.read_only = r.read_only
OBVIOUS

LEMMA PlainSets ==
  ASSUME NEW mm, Valued(mm), NEW a, Setting(a), ~a.append,
         NEW d, d = enter_argv_value(mm, a)
  PROVE  /\ Valued(d)
         /\ \A n \in Macro :
              /\ Plainly(d, n) = (IF a.name = n THEN a.value ELSE Plainly(mm, n))
              /\ d.body[n].read_only <=> (mm.body[n].read_only \/ a.name = n)
              /\ mm.body[n].exported => d.body[n].exported
              /\ d.appendix[n].on = mm.appendix[n].on
              /\ d.appendix[n].to_append = mm.appendix[n].to_append
<1>1. PICK c : c = a.name /\ c \in Macro /\ a.value \in Words
  BY DEF Setting
<1>2. PICK b, u : b = [mm.body EXCEPT ![c].exported = TRUE] /\ u = [mm EXCEPT !.body = b]
  OBVIOUS
<1>3. PICK reading : reading = FALSE
  OBVIOUS
<1>4. PICK set : set = setvar_daemon(u, a, reading)
  OBVIOUS
<1>5. PICK e : e = [set.body EXCEPT ![c].read_only = TRUE]
  OBVIOUS
<1>6. d = [set EXCEPT !.body = e]
  <2>1. u = [mm EXCEPT !.body[a.name].exported = TRUE]
    BY <1>1, <1>2
  <2>2. [set EXCEPT !.body = e] = [set EXCEPT !.body[a.name].read_only = TRUE]
    BY <1>1, <1>5
  <2>3. d = [setvar_daemon([mm EXCEPT !.body[a.name].exported = TRUE], a, FALSE)
               EXCEPT !.body[a.name].read_only = TRUE]
    BY Zenon DEF enter_argv_value
  <2>4. set = setvar_daemon([mm EXCEPT !.body[a.name].exported = TRUE], a, FALSE)
    BY <1>3, <1>4, <2>1, Zenon
  <2>. QED  BY <2>2, <2>3, <2>4, Zenon
<1>7. u.body = b /\ u.env = mm.env /\ u.appendix = mm.appendix /\ Shaped(u)
  <2>1. u = [body |-> b, appendix |-> mm.appendix, env |-> mm.env,
             conditional_targets |-> mm.conditional_targets, held |-> mm.held]
    BY <1>2 DEF Valued, Typed, Shaped
  <2>2. b = [n \in DOMAIN b |-> b[n]]
    BY <1>2 DEF Valued, Typed, Shaped
  <2>. QED  BY <2>1, <2>2 DEF Valued, Typed, Shaped
<1>8. /\ b \in [Macro -> [value : Words, read_only : BOOLEAN, exported : BOOLEAN]]
      /\ b[c].value = mm.body[c].value /\ b[c].read_only = mm.body[c].read_only
      /\ \A k \in Macro : k /= c => b[k] = mm.body[k]
  <2>1. mm.body \in [Macro -> [value : Words, read_only : BOOLEAN, exported : BOOLEAN]]
    BY DEF Valued, Typed
  <2>2. PICK r, q : r = mm.body[c] /\ q = [r EXCEPT !.exported = TRUE]
    OBVIOUS
  <2>3. /\ q \in [value : Words, read_only : BOOLEAN, exported : BOOLEAN]
        /\ q.value = r.value /\ q.read_only = r.read_only
    <3>1. r \in [value : Words, read_only : BOOLEAN, exported : BOOLEAN]
      BY <1>1, <2>1, <2>2
    <3>. QED  BY <2>2, <3>1, ExportedBody
  <2>4. b = [k \in Macro |-> IF k = c THEN q ELSE mm.body[k]]
    BY <1>2, <2>1, <2>2
  <2>5. b \in [Macro -> [value : Words, read_only : BOOLEAN, exported : BOOLEAN]]
    BY <2>1, <2>3, <2>4
  <2>6. b[c] = q /\ \A k \in Macro : k /= c => b[k] = mm.body[k]
    BY <1>1, <2>4
  <2>. QED  BY <2>2, <2>3, <2>5, <2>6
<1>9. Typed(u)
  BY <1>7, <1>8 DEF Valued, Typed
<1>10. \A k \in Macro : Plainly(u, k) = Plainly(mm, k)
  BY <1>7, <1>8 DEF Plainly
<1>11. ASSUME NEW k \in Macro, k /= c PROVE Complete(u, k)
  <2>1. u.body[k] = mm.body[k] /\ Plainly(u, k) = Plainly(mm, k)
    BY <1>7, <1>8, <1>10, <1>11
  <2>2. Complete(mm, k)
    BY DEF Valued
  <2>. QED  BY <1>7, <2>1, <2>2 DEF Complete
<1>12. /\ Valued(set) /\ Steady(u, set)
       /\ \A n \in Macro : Plainly(set, n) = OneAssigned(Plainly(u, n), n, a)
  <2>1. reading \in BOOLEAN
    BY <1>3
  <2>2. \A k \in Macro : k /= a.name \/ reading => Complete(u, k)
    BY <1>1, <1>3, <1>11
  <2>3. \A n \in Macro : Plainly(set, n) =
              IF reading /\ u.body[n].read_only THEN Plainly(u, n)
              ELSE OneAssigned(Plainly(u, n), n, a)
    BY <1>4, <1>9, <2>1, <2>2, DaemonSets
  <2>4. Valued(set) /\ Steady(u, set)
    BY <1>4, <1>9, <2>1, <2>2, DaemonSets
  <2>. QED  BY <1>3, <2>3, <2>4
<1>13. d.body = e /\ d.env = set.env /\ d.appendix = set.appendix /\ Shaped(d)
  <2>1. d = [body |-> e, appendix |-> set.appendix, env |-> set.env,
             conditional_targets |-> set.conditional_targets, held |-> set.held]
    BY <1>6, <1>12 DEF Valued, Typed, Shaped
  <2>2. e = [n \in DOMAIN e |-> e[n]]
    BY <1>5, <1>12 DEF Valued, Typed, Shaped
  <2>. QED  BY <1>12, <2>1, <2>2 DEF Valued, Typed, Shaped
<1>14. /\ e \in [Macro -> [value : Words, read_only : BOOLEAN, exported : BOOLEAN]]
       /\ e[c].value = set.body[c].value /\ e[c].read_only = TRUE
       /\ e[c].exported = set.body[c].exported
       /\ \A k \in Macro : k /= c => e[k] = set.body[k]
  <2>1. PICK r \in [value : Words, read_only : BOOLEAN, exported : BOOLEAN] : r = set.body[c]
    BY <1>1, <1>12 DEF Valued, Typed
  <2>2. PICK q : q = [r EXCEPT !.read_only = TRUE]
    OBVIOUS
  <2>3. q = [value |-> r.value, read_only |-> TRUE, exported |-> r.exported]
    BY <2>1, <2>2
  <2>4. set.body \in [Macro -> [value : Words, read_only : BOOLEAN, exported : BOOLEAN]]
    BY <1>12 DEF Valued, Typed
  <2>5. e = [set.body EXCEPT ![c] = q]
    BY <1>5, <2>1, <2>2
  <2>6. e[c] = q /\ \A k \in Macro : k /= c => e[k] = set.body[k]
    BY <1>1, <2>4, <2>5
  <2>7. e \in [Macro -> [value : Words, read_only : BOOLEAN, exported : BOOLEAN]]
    BY <2>3, <2>4, <2>5
  <2>. QED  BY <2>1, <2>3, <2>6, <2>7
<1>15. \A k \in Macro : Plainly(d, k) = Plainly(set, k)
  BY <1>13, <1>14 DEF Plainly
<1>16. Valued(d)
  <2>1. Typed(d)
    BY <1>12, <1>13, <1>14 DEF Valued, Typed
  <2>2. \A k \in Macro : Complete(d, k)
    <3>1. ASSUME NEW k \in Macro
          PROVE  e[k].value = set.body[k].value /\ e[k].exported = set.body[k].exported
      BY <1>14
    <3>. QED  BY <1>12, <1>13, <1>15, <3>1 DEF Valued, Complete
  <2>. QED  BY <2>1, <2>2 DEF Valued
<1>17. ASSUME NEW n \in Macro
       PROVE  /\ Plainly(d, n) = (IF a.name = n THEN a.value ELSE Plainly(mm, n))
              /\ d.body[n].read_only <=> (mm.body[n].read_only \/ a.name = n)
              /\ mm.body[n].exported => d.body[n].exported
              /\ d.appendix[n].on = mm.appendix[n].on
              /\ d.appendix[n].to_append = mm.appendix[n].to_append
  <2>1. Plainly(d, n) = (IF a.name = n THEN a.value ELSE Plainly(mm, n))
    BY <1>10, <1>12, <1>15 DEF OneAssigned
  <2>2. /\ d.appendix[n].on = mm.appendix[n].on
        /\ d.appendix[n].to_append = mm.appendix[n].to_append
    BY <1>7, <1>12, <1>13 DEF Steady
  <2>3. set.body[n].read_only = b[n].read_only
    BY <1>7, <1>12 DEF Steady
  <2>4. d.body[n].read_only <=> (mm.body[n].read_only \/ a.name = n)
    BY <1>1, <1>8, <1>13, <1>14, <2>3
  <2>5. mm.body[n].exported => d.body[n].exported
    <3>1. e[n].exported = set.body[n].exported
      BY <1>14
    <3>2. set.body[n].exported = b[n].exported
      BY <1>7, <1>12 DEF Steady
    <3>3. mm.body[n].exported => b[n].exported
      BY <1>2 DEF Valued, Typed
    <3>. QED  BY <1>13, <3>1, <3>2, <3>3
  <2>. QED  BY <2>1, <2>2, <2>4, <2>5
<1>. QED  BY <1>16, <1>17

LEMMA MaxIs ==
  ASSUME NEW S \in SUBSET Nat, NEW j \in S, \A k \in S : k <= j
  PROVE  Max(S) = j
<1>1. \A k \in S : j >= k
  OBVIOUS
<1>2. PICK h : h = Max(S)
  OBVIOUS
<1>3. h \in S /\ \A k \in S : h >= k
  BY <1>1, <1>2, Zenon DEF Max
<1>4. h >= j /\ j >= h
  BY <1>1, <1>3
<1>. QED  BY <1>2, <1>3, <1>4

\* y is x after the argument a was entered.
EnteredBy(x, y, a) ==
    /\ Valued(y) /\ a.append \in BOOLEAN
    /\ \A n \in Macro : a.append =>
         /\ Plainly(y, n) = Plainly(x, n)
         /\ y.body[n].read_only = x.body[n].read_only
         /\ x.body[n].exported => y.body[n].exported
         /\ y.appendix[n].on <=> (x.appendix[n].on \/ a.name = n)
         /\ y.appendix[n].to_append = OneAppended(x.appendix[n].to_append, n, a)
    /\ \A n \in Macro : ~a.append =>
         /\ Plainly(y, n) = (IF a.name = n THEN a.value ELSE Plainly(x, n))
         /\ y.body[n].read_only <=> (x.body[n].read_only \/ a.name = n)
         /\ x.body[n].exported => y.body[n].exported
         /\ y.appendix[n].on = x.appendix[n].on
         /\ y.appendix[n].to_append = x.appendix[n].to_append

\* Every argument that is not appended replaces the value; the last one stays.
LEMMA ArgumentsSet ==
  ASSUME NEW mm, Valued(mm), NEW args, Settings(args),
         NEW d, d = enter_argv_values(mm, args)
  PROVE  Entering(mm, d, args)
<1>1. PICK l \in Nat : l = Len(args) /\ DOMAIN args = 1 .. l
  BY SeqShape DEF Settings
<1>2. PICK f : /\ f[0] = mm
               /\ \A i \in 1 .. Len(args) : f[i] = enter_argv_value(f[i - 1], args[i])
               /\ enter_argv_values(mm, args) = f[Len(args)]
  BY ArgumentsAre DEF Settings
<1>3. f[0] = mm /\ d = f[l] /\ \A i \in 1 .. l : f[i] = enter_argv_value(f[i - 1], args[i])
  BY <1>1, <1>2
<1>4. ASSUME NEW i \in 0 .. l - 1, Valued(f[i])
      PROVE  EnteredBy(f[i], f[i + 1], args[i + 1])
  <2>1. i + 1 \in 1 .. l /\ i + 1 - 1 = i
    OBVIOUS
  <2>2. f[i + 1] = enter_argv_value(f[i], args[i + 1]) /\ Setting(args[i + 1])
    BY <1>1, <1>3, <2>1 DEF Settings, Setting
  <2>3. PICK a, x, y : a = args[i + 1] /\ x = f[i] /\ y = f[i + 1]
    OBVIOUS
  <2>4. Setting(a) /\ Valued(x) /\ y = enter_argv_value(x, a) /\ a.append \in BOOLEAN
    BY <1>4, <2>2, <2>3 DEF Setting
  <2>5. ASSUME a.append PROVE EnteredBy(x, y, a)
    <3>1. /\ Valued(y)
          /\ \A n \in Macro :
               /\ Plainly(y, n) = Plainly(x, n)
               /\ y.body[n].read_only = x.body[n].read_only
               /\ x.body[n].exported => y.body[n].exported
               /\ y.appendix[n].on <=> (x.appendix[n].on \/ a.name = n)
               /\ y.appendix[n].to_append = OneAppended(x.appendix[n].to_append, n, a)
      BY <2>4, <2>5, AppendSets
    <3>. QED  BY <2>4, <2>5, <3>1 DEF EnteredBy
  <2>6. ASSUME ~a.append PROVE EnteredBy(x, y, a)
    <3>1. /\ Valued(y)
          /\ \A n \in Macro :
               /\ Plainly(y, n) = (IF a.name = n THEN a.value ELSE Plainly(x, n))
               /\ y.body[n].read_only <=> (x.body[n].read_only \/ a.name = n)
               /\ x.body[n].exported => y.body[n].exported
               /\ y.appendix[n].on = x.appendix[n].on
               /\ y.appendix[n].to_append = x.appendix[n].to_append
      BY <2>4, <2>6, PlainSets
    <3>. QED  BY <2>4, <2>6, <3>1 DEF EnteredBy
  <2>. QED  BY <2>3, <2>4, <2>5, <2>6
<1>5. \A i \in 0 .. l : Valued(f[i])
  <2>. DEFINE T == {i \in 0 .. l : Valued(f[i])}
  <2>1. 0 \in T /\ \A i \in 0 .. l - 1 : i \in T => i + 1 \in T
    BY <1>3, <1>4 DEF EnteredBy
  <2>. HIDE DEF T
  <2>2. 0 .. l \subseteq T
    BY <2>1, Upwards
  <2>. QED  BY <2>2 DEF T
<1>6. ASSUME NEW n \in Macro
      PROVE  /\ Plainly(d, n) = IF Plain(args, n) = {} THEN Plainly(mm, n)
                                ELSE args[Max(Plain(args, n))].value
             /\ d.body[n].read_only <=> (mm.body[n].read_only \/ Plain(args, n) /= {})
             /\ mm.body[n].exported => d.body[n].exported
             /\ d.appendix[n].on <=>
                  (mm.appendix[n].on \/ \E i \in DOMAIN args : args[i].name = n /\ args[i].append)
             /\ d.appendix[n].to_append = Appended(mm.appendix[n].to_append, n, args)
  <2>. DEFINE P(i) == {j \in 1 .. i : args[j].name = n /\ ~args[j].append}
              Value(i) == \/ P(i) = {} /\ Plainly(f[i], n) = Plainly(mm, n)
                          \/ \E j \in P(i) : /\ \A k \in P(i) : k <= j
                                             /\ Plainly(f[i], n) = args[j].value
              Kept(i) == f[i].body[n].read_only <=> (mm.body[n].read_only \/ P(i) /= {})
              On(i) == f[i].appendix[n].on <=>
                  (mm.appendix[n].on \/ \E j \in 1 .. i : args[j].name = n /\ args[j].append)
  <2>1. PICK v \in Words : v = mm.appendix[n].to_append
    BY PlainWords DEF Valued
  <2>2. PICK g : AppendedBy(g, v, n, args)
    BY <2>1, AppendedIs
  <2>3. /\ g[0] = v /\ Appended(v, n, args) = g[l]
        /\ \A i \in 1 .. l : g[i] = OneAppended(g[i - 1], n, args[i])
    BY <1>1, <2>2 DEF AppendedBy
  <2>. DEFINE Good(i) == Value(i) /\ Kept(i) /\ On(i)
                         /\ (mm.body[n].exported => f[i].body[n].exported)
                         /\ f[i].appendix[n].to_append = g[i]
              T == {i \in 0 .. l : Good(i)}
  <2>4. Good(0)
    BY <1>3, <2>1, <2>3
  <2>5. ASSUME NEW i \in 0 .. l - 1, Good(i) PROVE Good(i + 1)
    <3>1. i + 1 \in 1 .. l /\ i + 1 - 1 = i /\ i \in 0 .. l
      OBVIOUS
    <3>2. PICK a, x, y : a = args[i + 1] /\ x = f[i] /\ y = f[i + 1]
      OBVIOUS
    <3>3. g[i + 1] = OneAppended(g[i], n, a)
      BY <2>3, <3>1, <3>2
    <3>4. CASE a.append
      <4>1. /\ Plainly(y, n) = Plainly(x, n) /\ y.body[n].read_only = x.body[n].read_only
            /\ x.body[n].exported => y.body[n].exported
            /\ y.appendix[n].on <=> (x.appendix[n].on \/ a.name = n)
            /\ y.appendix[n].to_append = OneAppended(x.appendix[n].to_append, n, a)
        BY <1>4, <1>5, <3>1, <3>2, <3>4 DEF EnteredBy
      <4>2. P(i + 1) = P(i)
        BY <3>2, <3>4
      <4>3. (\E j \in 1 .. i + 1 : args[j].name = n /\ args[j].append)
            <=> (a.name = n \/ \E j \in 1 .. i : args[j].name = n /\ args[j].append)
        BY <3>2, <3>4
      <4>4. Value(i + 1) /\ Kept(i + 1)
        <5>. HIDE DEF P
        <5>. QED  BY <2>5, <3>2, <4>1, <4>2
      <4>5. On(i + 1)
        BY <2>5, <3>2, <4>1, <4>3
      <4>. QED  BY <2>5, <3>2, <3>3, <4>1, <4>4, <4>5
    <3>5. CASE ~a.append
      <4>1. /\ Plainly(y, n) = (IF a.name = n THEN a.value ELSE Plainly(x, n))
            /\ y.body[n].read_only <=> (x.body[n].read_only \/ a.name = n)
            /\ x.body[n].exported => y.body[n].exported
            /\ y.appendix[n].on = x.appendix[n].on
            /\ y.appendix[n].to_append = x.appendix[n].to_append
        BY <1>4, <1>5, <3>1, <3>2, <3>5 DEF EnteredBy
      <4>2. g[i + 1] = g[i]
        BY <3>3, <3>5 DEF OneAppended
      <4>3. On(i + 1)
        <5>1. (\E j \in 1 .. i + 1 : args[j].name = n /\ args[j].append)
              <=> (\E j \in 1 .. i : args[j].name = n /\ args[j].append)
          BY <3>2, <3>5
        <5>. QED  BY <2>5, <3>2, <4>1, <5>1
      <4>4. Value(i + 1) /\ Kept(i + 1)
        <5>1. CASE a.name = n
          <6>1. i + 1 \in P(i + 1) /\ \A k \in P(i + 1) : k <= i + 1
            BY <3>2, <3>5, <5>1
          <6>2. Plainly(y, n) = a.value /\ y.body[n].read_only
            BY <4>1, <5>1
          <6>. HIDE DEF P
          <6>. QED  BY <3>2, <6>1, <6>2
        <5>2. CASE a.name /= n
          <6>1. P(i + 1) = P(i)
            BY <3>2, <5>2
          <6>. HIDE DEF P
          <6>. QED  BY <2>5, <3>2, <4>1, <5>2, <6>1
        <5>. QED  BY <5>1, <5>2
      <4>. QED  BY <2>5, <3>2, <4>1, <4>2, <4>3, <4>4
    <3>. QED  BY <1>4, <1>5, <3>1, <3>2, <3>4, <3>5 DEF EnteredBy
  <2>6. Good(l)
    <3>. HIDE DEF Good
    <3>1. 0 \in T /\ \A i \in 0 .. l - 1 : i \in T => i + 1 \in T
      BY <2>4, <2>5
    <3>. HIDE DEF T
    <3>2. 0 .. l \subseteq T
      BY <3>1, Upwards
    <3>. QED  BY <3>2 DEF T
  <2>7. P(l) = Plain(args, n)
    BY <1>1 DEF Plain
  <2>8. P(l) \in SUBSET Nat
    OBVIOUS
  <2>9. Plainly(d, n) = IF Plain(args, n) = {} THEN Plainly(mm, n)
                        ELSE args[Max(Plain(args, n))].value
    <3>. HIDE DEF P
    <3>. QED  BY <1>3, <2>6, <2>7, <2>8, MaxIs
  <2>10. d.body[n].read_only <=> (mm.body[n].read_only \/ Plain(args, n) /= {})
    <3>. HIDE DEF P
    <3>. QED  BY <1>3, <2>6, <2>7
  <2>11. d.appendix[n].on <=>
           (mm.appendix[n].on \/ \E i \in DOMAIN args : args[i].name = n /\ args[i].append)
    BY <1>1, <1>3, <2>6
  <2>. QED  BY <1>3, <2>1, <2>3, <2>6, <2>9, <2>10, <2>11
<1>7. Valued(d)
  BY <1>3, <1>5
<1>. QED  BY <1>6, <1>7 DEF Entering
-----------------------------------------------------------------------------
(* The start *)

\* An environment of words.
Known(environment) == \A n \in DOMAIN environment : environment[n] \in Words

\* Nobody has entered an argument yet.
Untouched(x) == \A n \in Macro : ~x.appendix[n].on /\ x.appendix[n].to_append = <<>>
                                 /\ ~x.body[n].read_only /\ ~x.body[n].exported

LEMMA NothingSet ==
  ASSUME NEW e, Known(e), NEW x, x = NoMacros(e)
  PROVE  /\ Valued(x) /\ Untouched(x) /\ x.env = e
         /\ \A n \in Macro : Plainly(x, n) = <<>>
<1>1. <<>> \in Words
  BY EmptySeq DEF Words
<1>2. x = [body |-> [n \in Macro |-> NoBody], appendix |-> [n \in Macro |-> NoAppendix],
           env |-> e, conditional_targets |-> <<>>, held |-> NoTarget]
  BY DEF NoMacros
<1>3. Shaped(x)
  BY <1>2, NoneIsSeq DEF Shaped
<1>4. \A n \in Macro : x.body[n] = NoBody /\ x.appendix[n] = NoAppendix
  BY <1>2
<1>5. Typed(x)
  BY <1>1, <1>2, <1>3 DEF Typed, NoBody, NoAppendix, Known
<1>6. \A n \in Macro : Plainly(x, n) = <<>>
  BY <1>4 DEF Plainly, NoBody, NoAppendix
<1>7. \A n \in Macro : Complete(x, n)
  <2>1. <<>> \o <<>> = <<>>
    BY NoneAppended, <1>1
  <2>2. \A n \in Macro : /\ x.body[n].value = <<>> /\ ~x.body[n].exported
                         /\ x.appendix[n].to_append = <<>>
    BY <1>4 DEF NoBody, NoAppendix
  <2>. QED  BY <1>6, <2>1, <2>2 DEF Complete
<1>8. Untouched(x) /\ x.env = e
  BY <1>2, <1>4 DEF Untouched, NoBody, NoAppendix
<1>. QED  BY <1>5, <1>6, <1>7, <1>8 DEF Valued

LEMMA EnvironmentSets ==
  ASSUME NEW x, Valued(x), Untouched(x), NEW e, Known(e), x.env = e, NEW wins \in BOOLEAN,
         NEW d, d = read_environment(x, e, wins)
  PROVE  /\ Valued(d) /\ d.env = e
         /\ \A n \in Macro :
              /\ Plainly(d, n) = IF n \in DOMAIN e THEN e[n] ELSE Plainly(x, n)
              /\ d.body[n].read_only <=> (wins /\ n \in DOMAIN e)
              /\ n \in DOMAIN e => d.body[n].exported
              /\ ~d.appendix[n].on /\ d.appendix[n].to_append = <<>>
<1>1. PICK b : b = [n \in Macro |-> IF n \in DOMAIN e
                      THEN [value |-> e[n], read_only |-> wins, exported |-> TRUE]
                      ELSE x.body[n]]
  OBVIOUS
<1>2. d = [x EXCEPT !.body = b]
  BY <1>1 DEF read_environment
<1>3. d.body = b /\ d.env = x.env /\ d.appendix = x.appendix /\ Shaped(d)
  <2>1. d = [body |-> b, appendix |-> x.appendix, env |-> x.env,
             conditional_targets |-> x.conditional_targets, held |-> x.held]
    BY <1>2 DEF Valued, Typed, Shaped
  <2>2. b = [n \in DOMAIN b |-> b[n]]
    BY <1>1
  <2>. QED  BY <2>1, <2>2 DEF Valued, Typed, Shaped
<1>4. /\ b \in [Macro -> [value : Words, read_only : BOOLEAN, exported : BOOLEAN]]
      /\ \A n \in Macro : n \in DOMAIN e =>
           b[n] = [value |-> e[n], read_only |-> wins, exported |-> TRUE]
      /\ \A n \in Macro : n \notin DOMAIN e => b[n] = x.body[n]
  BY <1>1 DEF Valued, Typed, Known
<1>5. Typed(d)
  BY <1>3, <1>4 DEF Valued, Typed
<1>6. \A n \in Macro : /\ Plainly(d, n) = b[n].value /\ Plainly(x, n) = x.body[n].value
                       /\ ~d.appendix[n].on /\ d.appendix[n].to_append = <<>>
  BY <1>3 DEF Plainly, Untouched
<1>7. ASSUME NEW n \in Macro PROVE Complete(d, n)
  <2>1. b[n].value \in Words /\ b[n].value \o <<>> = b[n].value
    BY <1>4, NoneAppended
  <2>2. b[n].exported => n \in DOMAIN e /\ e[n] = b[n].value
    BY <1>4 DEF Untouched
  <2>. QED  BY <1>3, <1>6, <2>1, <2>2 DEF Complete
<1>8. ASSUME NEW n \in Macro
      PROVE  /\ Plainly(d, n) = IF n \in DOMAIN e THEN e[n] ELSE Plainly(x, n)
             /\ d.body[n].read_only <=> (wins /\ n \in DOMAIN e)
             /\ n \in DOMAIN e => d.body[n].exported
  <2>1. CASE n \in DOMAIN e
    BY <1>3, <1>4, <1>6, <2>1
  <2>2. CASE n \notin DOMAIN e
    BY <1>3, <1>4, <1>6, <2>2 DEF Untouched
  <2>. QED  BY <2>1, <2>2
<1>. QED  BY <1>3, <1>5, <1>6, <1>7, <1>8 DEF Valued

\* Is something appended to n?
AppendsTo(args, n) == \E i \in DOMAIN args : args[i].name = n /\ args[i].append

\* What d is after the environment e, the flags and the arguments, when
\* default is what n was before.
Started(d, n, default, e, flags, args, wins) ==
    /\ Plainly(d, n) = IF Plain(args, n) /= {} THEN args[Max(Plain(args, n))].value
                       ELSE IF Plain(flags, n) /= {} THEN flags[Max(Plain(flags, n))].value
                       ELSE IF n \in DOMAIN e THEN e[n] ELSE default
    /\ d.body[n].read_only <=>
         (Plain(args, n) /= {} \/ Plain(flags, n) /= {} \/ (wins /\ n \in DOMAIN e))
    /\ n \in DOMAIN e => d.body[n].exported
    /\ d.appendix[n].on <=> (AppendsTo(flags, n) \/ AppendsTo(args, n))
    /\ d.appendix[n].to_append = Appended(Appended(<<>>, n, flags), n, args)

LEMMA StartupSets ==
  ASSUME NEW x, Valued(x), Untouched(x), NEW e, Known(e), x.env = e,
         NEW flags, Settings(flags), NEW args, Settings(args), NEW wins \in BOOLEAN,
         NEW d, d = Startup(x, e, flags, args, wins)
  PROVE  Valued(d) /\ \A n \in Macro : Started(d, n, Plainly(x, n), e, flags, args, wins)
<1>1. PICK y, z : y = read_environment(x, e, wins) /\ z = enter_argv_values(y, flags)
  OBVIOUS
<1>2. d = enter_argv_values(z, args)
  BY <1>1 DEF Startup
<1>3. /\ Valued(y)
      /\ \A n \in Macro :
           /\ Plainly(y, n) = IF n \in DOMAIN e THEN e[n] ELSE Plainly(x, n)
           /\ y.body[n].read_only <=> (wins /\ n \in DOMAIN e)
           /\ n \in DOMAIN e => y.body[n].exported
           /\ ~y.appendix[n].on /\ y.appendix[n].to_append = <<>>
  BY <1>1, EnvironmentSets
<1>4. Entering(y, z, flags) /\ Valued(z)
  <2>1. Valued(y) /\ z = enter_argv_values(y, flags)
    BY <1>1, <1>3
  <2>2. Entering(y, z, flags)
    BY <2>1, ArgumentsSet
  <2>. QED  BY <2>2 DEF Entering
<1>5. Entering(z, d, args)
  BY <1>2, <1>4, ArgumentsSet
<1>6. ASSUME NEW n \in Macro
      PROVE  Started(d, n, Plainly(x, n), e, flags, args, wins)
  <2>1. Plainly(d, n) = IF Plain(args, n) /= {} THEN args[Max(Plain(args, n))].value
                       ELSE IF Plain(flags, n) /= {} THEN flags[Max(Plain(flags, n))].value
                       ELSE IF n \in DOMAIN e THEN e[n] ELSE Plainly(x, n)
    BY <1>3, <1>4, <1>5 DEF Entering
  <2>2. d.body[n].read_only <=>
         (Plain(args, n) /= {} \/ Plain(flags, n) /= {} \/ (wins /\ n \in DOMAIN e))
    BY <1>3, <1>4, <1>5 DEF Entering
  <2>3. n \in DOMAIN e => d.body[n].exported
    BY <1>3, <1>4, <1>5 DEF Entering
  <2>4. d.appendix[n].on <=> (AppendsTo(flags, n) \/ AppendsTo(args, n))
    BY <1>3, <1>4, <1>5 DEF Entering, AppendsTo
  <2>5. d.appendix[n].to_append = Appended(Appended(<<>>, n, flags), n, args)
    <3>1. z.appendix[n].to_append = Appended(<<>>, n, flags)
      BY <1>3, <1>4 DEF Entering
    <3>. QED  BY <1>5, <3>1 DEF Entering
  <2>. QED  BY <2>1, <2>2, <2>3, <2>4, <2>5 DEF Started
<1>. QED  BY <1>5, <1>6 DEF Entering

\* What make was started with.
GivenIs ==
    /\ Known(given.environment)
    /\ Settings(given.flags) /\ Settings(given.args) /\ given.env_wins \in BOOLEAN

Default(n) == Assigned(<<>>, n, AtOnce(Defaults))

\* The macros as far as make has started.
PrecedenceInv ==
    /\ GivenIs
    /\ phase \in {"defaults", "environment", "makefile", "build"}
    /\ phase = "defaults" => m = NoMacros(given.environment)
    /\ phase = "environment" =>
         /\ Valued(m) /\ Untouched(m) /\ m.env = given.environment
         /\ \A n \in Macro : Plainly(m, n) = Default(n)
    /\ phase \in {"makefile", "build"} =>
         makeflags = IF given.posix THEN makeflags_and_macro(given.flags \o given.args)
                     ELSE <<>>
    /\ phase = "makefile" =>
         /\ Valued(m)
         /\ \A n \in Macro : Started(m, n, Default(n), given.environment,
                                     given.flags, given.args, given.env_wins)
    /\ phase = "build" =>
         /\ Valued(base)
         /\ \A n \in Macro :
              /\ Plainly(base, n) = Wanted(n)
              /\ base.body[n].read_only <=>
                   \/ Plain(given.args, n) /= {} \/ Plain(given.flags, n) /= {}
                   \/ given.env_wins /\ n \in DOMAIN given.environment
              /\ n \in DOMAIN given.environment => base.body[n].exported
              /\ base.appendix[n].to_append =
                   Appended(Appended(<<>>, n, given.flags), n, given.args)

LEMMA ArgsSettings ==
  ASSUME NEW args \in Seq(Assignment)
  PROVE  Settings(args)
<1>1. IsSeq(args) /\ \A i \in DOMAIN args : args[i] \in Assignment
  BY SeqIs, LenProperties, ElementOfSeq
<1>. QED  BY <1>1 DEF Settings, Assignment, Words

LEMMA PrecedenceInit ==
  ASSUME Init
  PROVE  PrecedenceInv
<1>1. /\ given.environment \in Environments /\ given.flags \in Flags
      /\ given.args \in CommandLines /\ given.env_wins \in EnvWins
  BY DEF Init
<1>2. GivenIs
  <2>1. given.flags \in Seq(Assignment) /\ given.args \in Seq(Assignment)
        /\ given.env_wins \in BOOLEAN
    BY <1>1, StatementAssumption
  <2>2. Known(given.environment)
    BY <1>1, StatementAssumption DEF Known, Words
  <2>. QED  BY <2>1, <2>2, ArgsSettings DEF GivenIs
<1>3. phase = "defaults" /\ m = NoMacros(given.environment)
  BY DEF Init
<1>. QED  BY <1>2, <1>3 DEF PrecedenceInv

LEMMA DefaultsRead ==
  ASSUME PrecedenceInv, ReadDefaults
  PROVE  PrecedenceInv'
<1>1. m = NoMacros(given.environment) /\ GivenIs /\ phase' = "environment" /\ given' = given
  BY DEF PrecedenceInv, ReadDefaults
<1>2. /\ Valued(m) /\ Untouched(m) /\ m.env = given.environment
      /\ \A n \in Macro : Plainly(m, n) = <<>>
  BY <1>1, NothingSet DEF GivenIs
<1>3. PICK list, reading : list = AtOnce(Defaults) /\ reading = TRUE /\ Settings(list)
  BY AtOnceSettings, StatementAssumption
<1>4. m' = AfterEach(m, list, reading)[Len(list)]
  BY <1>3 DEF ReadDefaults, ReadFile
<1>5. /\ Valued(m') /\ Steady(m, m') /\ m'.env = m.env
      /\ \A n \in Macro : Plainly(m', n) = Assigned(Plainly(m, n), n, list)
  <2>1. PICK x, d : x = m /\ d = m'
    OBVIOUS
  <2>2. /\ Valued(d) /\ Steady(x, d)
        /\ \A n \in Macro : Plainly(d, n) =
              IF reading /\ x.body[n].read_only THEN Plainly(x, n)
              ELSE Assigned(Plainly(x, n), n, list)
        /\ (\A n \in Macro : ~x.body[n].exported) => d.env = x.env
    <3>1. Valued(x) /\ Settings(list) /\ reading \in BOOLEAN
          /\ d = AfterEach(x, list, reading)[Len(list)]
      BY <1>2, <1>3, <1>4, <2>1
    <3>2. Typed(x)
      BY <3>1 DEF Valued
    <3>. QED  BY <3>1, <3>2, EachSets
  <2>3. \A n \in Macro : ~x.body[n].exported /\ ~x.body[n].read_only
    BY <1>2, <2>1 DEF Untouched
  <2>4. \A n \in Macro : Plainly(d, n) = Assigned(Plainly(x, n), n, list)
    BY <2>2, <2>3
  <2>5. d.env = x.env
    BY <2>2, <2>3
  <2>. QED  BY <2>1, <2>2, <2>4, <2>5
<1>6. Untouched(m')
  BY <1>2, <1>5 DEF Untouched, Steady
<1>7. \A n \in Macro : Plainly(m', n) = Default(n)
  BY <1>2, <1>3, <1>5 DEF Default
<1>. QED  BY <1>1, <1>2, <1>5, <1>6, <1>7 DEF PrecedenceInv, GivenIs, Default

LEMMA ArgumentsRead ==
  ASSUME PrecedenceInv, ReadArguments
  PROVE  PrecedenceInv'
<1>1. /\ Valued(m) /\ Untouched(m) /\ m.env = given.environment
      /\ \A n \in Macro : Plainly(m, n) = Default(n)
      /\ GivenIs /\ phase' = "makefile" /\ given' = given
  BY DEF PrecedenceInv, ReadArguments
<1>2. PICK e, flags, args, wins, x, d :
        /\ e = given.environment /\ flags = given.flags /\ args = given.args
        /\ wins = given.env_wins /\ x = m /\ d = m'
  OBVIOUS
<1>3. d = Startup(x, e, flags, args, wins)
  BY <1>2 DEF ReadArguments
<1>4. Known(e) /\ Settings(flags) /\ Settings(args) /\ wins \in BOOLEAN
  BY <1>1, <1>2 DEF GivenIs
<1>5. Valued(d) /\ \A n \in Macro : Started(d, n, Plainly(x, n), e, flags, args, wins)
  BY <1>1, <1>2, <1>3, <1>4, StartupSets
<1>6. \A n \in Macro : Started(m', n, Default(n), given.environment, given.flags,
                               given.args, given.env_wins)
  BY <1>1, <1>2, <1>5
<1>7. makeflags' = IF given.posix THEN makeflags_and_macro(given.flags \o given.args)
                   ELSE <<>>
  BY DEF ReadArguments
<1>. QED  BY <1>1, <1>2, <1>5, <1>6, <1>7 DEF PrecedenceInv, GivenIs, Default

LEMMA MakefileRead ==
  ASSUME PrecedenceInv, ReadMakefile
  PROVE  PrecedenceInv'
<1>1. /\ Valued(m) /\ GivenIs /\ phase' = "build" /\ UNCHANGED <<given, makeflags>>
      /\ base' = m' /\ phase = "makefile"
      /\ \A n \in Macro : Started(m, n, Default(n), given.environment,
                                  given.flags, given.args, given.env_wins)
  BY DEF PrecedenceInv, ReadMakefile
<1>2. PICK list, reading : list = AtOnce(Makefile) /\ reading = TRUE /\ Settings(list)
  BY AtOnceSettings, StatementAssumption
<1>3. PICK x, d : x = m /\ d = m' /\ d = AfterEach(x, list, reading)[Len(list)]
  BY <1>2 DEF ReadMakefile, ReadFile
<1>4. /\ Valued(d) /\ Steady(x, d)
      /\ \A n \in Macro : Plainly(d, n) =
              IF reading /\ x.body[n].read_only THEN Plainly(x, n)
              ELSE Assigned(Plainly(x, n), n, list)
  <2>1. Valued(x) /\ Settings(list) /\ reading \in BOOLEAN
    BY <1>1, <1>2, <1>3
  <2>2. Typed(x)
    BY <2>1 DEF Valued
  <2>. QED  BY <1>3, <2>1, <2>2, EachSets
<1>5. ASSUME NEW n \in Macro
      PROVE  /\ Plainly(base', n) = Wanted(n)
             /\ base'.body[n].read_only <=>
                   \/ Plain(given.args, n) /= {} \/ Plain(given.flags, n) /= {}
                   \/ given.env_wins /\ n \in DOMAIN given.environment
             /\ n \in DOMAIN given.environment => base'.body[n].exported
             /\ base'.appendix[n].to_append =
                   Appended(Appended(<<>>, n, given.flags), n, given.args)
  <2>1. /\ x.body[n].read_only <=>
             (\/ Plain(given.args, n) /= {} \/ Plain(given.flags, n) /= {}
              \/ given.env_wins /\ n \in DOMAIN given.environment)
        /\ n \in DOMAIN given.environment => x.body[n].exported
        /\ x.appendix[n].to_append = Appended(Appended(<<>>, n, given.flags), n, given.args)
    BY <1>1, <1>3 DEF Started
  <2>2. /\ d.body[n].read_only = x.body[n].read_only
        /\ d.body[n].exported = x.body[n].exported
        /\ d.appendix[n].to_append = x.appendix[n].to_append
    BY <1>4 DEF Steady
  <2>3. PICK outside : outside = IF n \in DOMAIN given.environment
                                 THEN given.environment[n] ELSE Default(n)
    OBVIOUS
  <2>4. Plainly(x, n) = IF Plain(given.args, n) /= {}
                        THEN given.args[Max(Plain(given.args, n))].value
                        ELSE IF Plain(given.flags, n) /= {}
                        THEN given.flags[Max(Plain(given.flags, n))].value
                        ELSE outside
    BY <1>1, <1>3, <2>3 DEF Started
  <2>5. Plainly(d, n) = IF x.body[n].read_only THEN Plainly(x, n)
                        ELSE Assigned(Plainly(x, n), n, AtOnce(Makefile))
    BY <1>2, <1>4
  <2>6. Wanted(n) = IF Plain(given.args, n) /= {}
                    THEN given.args[Max(Plain(given.args, n))].value
                    ELSE IF Plain(given.flags, n) /= {}
                    THEN given.flags[Max(Plain(given.flags, n))].value
                    ELSE IF given.env_wins /\ n \in DOMAIN given.environment THEN outside
                    ELSE Assigned(outside, n, AtOnce(Makefile))
    BY <2>3 DEF Wanted, Default
  <2>7. Plainly(d, n) = Wanted(n)
    BY <2>1, <2>4, <2>5, <2>6
  <2>. QED  BY <1>1, <1>3, <2>1, <2>2, <2>7
<1>6. \A n : Wanted(n)' = Wanted(n)
  BY <1>1 DEF Wanted
<1>. QED  BY <1>1, <1>3, <1>4, <1>5, <1>6 DEF PrecedenceInv, GivenIs

LEMMA PrecedenceSound ==
  ASSUME PrecedenceInv
  PROVE  Precedence
BY DEF PrecedenceInv, Precedence, Valued, Complete

LEMMA PrecedenceStep ==
  ASSUME PrecedenceInv, RestoredInv, [Next]_vars
  PROVE  PrecedenceInv'
<1>1. CASE ReadDefaults \/ ReadArguments \/ ReadMakefile
  BY <1>1, DefaultsRead, ArgumentsRead, MakefileRead
<1>2. ASSUME UNCHANGED <<phase, given, makeflags, base>>, phase = "build" \/ m' = m
      PROVE  PrecedenceInv'
  BY <1>2 DEF PrecedenceInv, GivenIs, Wanted, Default
<1>3. ASSUME NEW t \in Target, Consider(t) PROVE PrecedenceInv'
  BY <1>2, <1>3 DEF Consider
<1>4. CASE Considered \/ NextGoal \/ Done \/ UNCHANGED vars
  BY <1>2, <1>4 DEF Considered, NextGoal, Done, vars
<1>5. CASE AddPending \/ AddSerial \/ RunCommand
  <2>1. phase = "build"
    BY <1>5 DEF AddPending, AddSerial, RunCommand, DepsDone, RestoredInv
  <2>. QED  BY <1>2, <1>5, <2>1 DEF AddPending, AddSerial, RunCommand
<1>6. ASSUME NEW i \in DOMAIN queue, Finish(i) \/ Resume(i) PROVE PrecedenceInv'
  <2>1. phase = "build"
    <3>1. queue /= <<>>
      OBVIOUS
    <3>. QED  BY <3>1 DEF RestoredInv
  <2>. QED  BY <1>2, <1>6, <2>1 DEF Finish, Resume
<1>. QED  BY <1>1, <1>3, <1>4, <1>5, <1>6 DEF Next

\* When the makefile has been read, every macro has the value of whoever
\* comes first of the command line, MAKEFLAGS, the environment under -e, the
\* makefile, the environment and the default rules, followed by what MAKEFLAGS
\* and the command line append to it, and the build never changes that.
\* (macro.cc 65-107 setvar_append; lib/mksh/src/macro.c 1299-1575
\* setvar_daemon; main.cc 3010-3075 enter_argv_values, 3151-3240
\* read_environment)
THEOREM RuleOfPrecedence == Spec => []Precedence
<1>1. Init => PrecedenceInv /\ RestoredInv
  BY PrecedenceInit, RestoredInit
<1>2. PrecedenceInv /\ RestoredInv /\ [Next]_vars => PrecedenceInv' /\ RestoredInv'
  BY PrecedenceStep, RestoredStep
<1>3. PrecedenceInv => Precedence
  BY PrecedenceSound
<1>. QED  BY <1>1, <1>2, <1>3, PTL DEF Spec
-----------------------------------------------------------------------------
(* What is passed on *)

LEMMA MakeflagsAre ==
  ASSUME NEW args, IsSeq(args)
  PROVE  \E f : /\ f[0] = <<>>
                /\ \A i \in 1 .. Len(args) : f[i] = append_or_replace_macro(f[i - 1], args[i])
                /\ makeflags_and_macro(args) = f[Len(args)]
<1>. DEFINE Step(x, i) == append_or_replace_macro(x, args[i])
            Made(g, k) == g = [i \in 0 .. k |-> IF i = 0 THEN <<>> ELSE Step(g[i - 1], i)]
            Can(k) == \E g : Made(g, k)
            T == {k \in 0 .. Len(args) : Can(k)}
<1>1. Len(args) \in Nat
  BY SeqShape
<1>2. Can(0)
  <2>. HIDE DEF Step
  <2>1. Made([i \in 0 .. 0 |-> <<>>], 0)
    OBVIOUS
  <2>. QED  BY <2>1
<1>3. ASSUME NEW k \in 0 .. Len(args) - 1, Can(k) PROVE Can(k + 1)
  <2>. HIDE DEF Step
  <2>1. PICK g : Made(g, k)
    BY <1>3
  <2>. DEFINE h == [i \in 0 .. k + 1 |-> IF i = k + 1 THEN Step(g[k], k + 1) ELSE g[i]]
  <2>2. \A i \in 0 .. k : h[i] = g[i] /\ g[i] = IF i = 0 THEN <<>> ELSE Step(g[i - 1], i)
    BY <2>1
  <2>3. h[k + 1] = Step(h[k], k + 1)
    BY <2>2
  <2>4. ASSUME NEW i \in 1 .. k PROVE h[i] = Step(h[i - 1], i)
    <3>1. i - 1 \in 0 .. k /\ i \in 0 .. k /\ i /= 0
      OBVIOUS
    <3>2. g[i] = Step(g[i - 1], i)
      BY <2>2, <3>1
    <3>3. h[i] = g[i] /\ h[i - 1] = g[i - 1]
      BY <2>2, <3>1
    <3>. QED  BY <3>2, <3>3
  <2>5. h = [i \in 0 .. k + 1 |-> h[i]] /\ h[0] = <<>>
    <3>1. 0 \in 0 .. k /\ h[0] = g[0]
      BY <2>2
    <3>2. PICK none : none = <<>>
      OBVIOUS
    <3>3. \A i \in 0 .. k : g[i] = IF i = 0 THEN none ELSE Step(g[i - 1], i)
      BY <2>2, <3>2
    <3>4. g[0] = none
      BY <3>1, <3>3
    <3>. QED  BY <3>1, <3>2, <3>4
  <2>6. h = [i \in 0 .. k + 1 |-> IF i = 0 THEN <<>> ELSE Step(h[i - 1], i)]
    <3>. HIDE DEF h
    <3>1. \A i \in 0 .. k + 1 : h[i] = IF i = 0 THEN <<>> ELSE Step(h[i - 1], i)
      <4>. TAKE i \in 0 .. k + 1
      <4>1. i = 0 \/ i \in 1 .. k \/ (i = k + 1 /\ i - 1 = k /\ i /= 0)
        BY <1>1
      <4>. QED  BY <2>3, <2>4, <2>5, <4>1
    <3>. QED  BY <2>5, <3>1
  <2>. HIDE DEF h
  <2>. QED  BY <2>6
<1>4. Can(Len(args))
  <2>. HIDE DEF Can
  <2>1. 0 \in T /\ \A k \in 0 .. Len(args) - 1 : k \in T => k + 1 \in T
    BY <1>1, <1>2, <1>3
  <2>. HIDE DEF T
  <2>2. 0 .. Len(args) \subseteq T
    BY <1>1, <2>1, Upwards
  <2>3. Len(args) \in T
    BY <1>1, <2>2
  <2>. QED  BY <2>3 DEF T
<1>5. PICK f : f = CHOOSE g : Made(g, Len(args))
  OBVIOUS
<1>6. Made(f, Len(args))
  BY <1>4, <1>5
<1>7. makeflags_and_macro(args) = f[Len(args)]
  BY <1>5 DEF makeflags_and_macro
<1>8. f[0] = <<>> /\ \A i \in 1 .. Len(args) : f[i] = Step(f[i - 1], i)
  <2>. HIDE DEF Step
  <2>. QED  BY <1>1, <1>6
<1>. QED  BY <1>7, <1>8

LEMMA ConcatSeq ==
  ASSUME NEW s, IsSeq(s), NEW u, IsSeq(u)
  PROVE  /\ IsSeq(s \o u) /\ Len(s \o u) = Len(s) + Len(u)
         /\ \A i \in 1 .. Len(s) : (s \o u)[i] = s[i]
         /\ \A i \in 1 .. Len(u) : (s \o u)[Len(s) + i] = u[i]
<1>. DEFINE S == {s[i] : i \in DOMAIN s} \cup {u[i] : i \in DOMAIN u}
<1>1. s \in Seq(S) /\ u \in Seq(S)
  <2>1. /\ Len(s) \in Nat /\ DOMAIN s = 1 .. Len(s) /\ s = [i \in 1 .. Len(s) |-> s[i]]
        /\ Len(u) \in Nat /\ DOMAIN u = 1 .. Len(u) /\ u = [i \in 1 .. Len(u) |-> u[i]]
    BY SeqShape
  <2>2. s \in [1 .. Len(s) -> S] /\ u \in [1 .. Len(u) -> S]
    BY <2>1
  <2>. HIDE DEF S
  <2>. QED  BY <2>1, <2>2, SeqDef
<1>. HIDE DEF S
<1>2. /\ s \o u \in Seq(S) /\ Len(s \o u) = Len(s) + Len(u)
      /\ \A i \in 1 .. Len(s) + Len(u) :
           (s \o u)[i] = IF i <= Len(s) THEN s[i] ELSE u[i - Len(s)]
  BY <1>1, ConcatProperties
<1>3. Len(s) \in Nat /\ Len(u) \in Nat
  BY SeqShape
<1>4. ASSUME NEW i \in 1 .. Len(s) PROVE (s \o u)[i] = s[i]
  <2>1. i \in 1 .. Len(s) + Len(u) /\ i <= Len(s)
    BY <1>3
  <2>. QED  BY <1>2, <2>1
<1>5. ASSUME NEW i \in 1 .. Len(u) PROVE (s \o u)[Len(s) + i] = u[i]
  <2>1. Len(s) + i \in 1 .. Len(s) + Len(u) /\ ~(Len(s) + i <= Len(s))
        /\ Len(s) + i - Len(s) = i
    BY <1>3
  <2>. QED  BY <1>2, <2>1
<1>. QED  BY <1>2, <1>4, <1>5, SeqIs

LEMMA MaxIn ==
  ASSUME NEW l \in Nat, NEW P \in SUBSET (1 .. l), P /= {}
  PROVE  Max(P) \in P
<1>. DEFINE T == {l - k : k \in P}
<1>1. T \in SUBSET Nat /\ T /= {}
  <2>1. \A k \in P : l - k \in Nat
    OBVIOUS
  <2>2. PICK k : k \in P
    OBVIOUS
  <2>3. l - k \in T
    BY <2>2
  <2>. QED  BY <2>1, <2>3
<1>. HIDE DEF T
<1>2. PICK t \in T : \A k \in T : t <= k
  BY <1>1, LeastNumber
<1>3. PICK j \in P : t = l - j
  BY <1>2 DEF T
<1>4. ASSUME NEW k \in P PROVE k <= j
  <2>1. l - k \in T
    BY DEF T
  <2>2. l - j <= l - k /\ k \in Int /\ j \in Int
    BY <1>2, <1>3, <2>1
  <2>. QED  BY <2>2
<1>5. P \in SUBSET Nat
  OBVIOUS
<1>. QED  BY <1>3, <1>4, <1>5, MaxIs

\* MAKEFLAGS holds of each macro one assignment that does not append.
PassedOn(array, args) ==
    /\ Settings(array)
    /\ \A k \in DOMAIN array : \E j \in DOMAIN args : ~args[j].append /\ array[k] = args[j]
    /\ \A j \in DOMAIN args : ~args[j].append =>
         \E k \in DOMAIN array : array[k].name = args[j].name

LEMMA MakeflagsPass ==
  ASSUME NEW args, Settings(args)
  PROVE  PassedOn(makeflags_and_macro(args), args)
<1>1. PICK l \in Nat : l = Len(args) /\ DOMAIN args = 1 .. l
  BY SeqShape DEF Settings
<1>2. PICK f : /\ f[0] = <<>>
               /\ \A i \in 1 .. Len(args) : f[i] = append_or_replace_macro(f[i - 1], args[i])
               /\ makeflags_and_macro(args) = f[Len(args)]
  BY MakeflagsAre DEF Settings
<1>. DEFINE Fine(i) ==
       /\ IsSeq(f[i])
       /\ \A k \in 1 .. Len(f[i]) : \E j \in 1 .. i : ~args[j].append /\ f[i][k] = args[j]
       /\ \A j \in 1 .. i : ~args[j].append => \E k \in 1 .. Len(f[i]) : f[i][k].name = args[j].name
            T == {i \in 0 .. l : Fine(i)}
<1>3. Fine(0)
  BY <1>2, NoneIsSeq, EmptySeq
<1>4. ASSUME NEW i \in 0 .. l - 1, Fine(i) PROVE Fine(i + 1)
  <2>1. PICK s, a, u : s = f[i] /\ a = args[i + 1] /\ u = f[i + 1]
    OBVIOUS
  <2>2. IsSeq(s) /\ Len(s) \in Nat /\ DOMAIN s = 1 .. Len(s)
    BY <1>4, <2>1, SeqShape
  <2>3. u = append_or_replace_macro(s, a)
    <3>1. i + 1 \in 1 .. l /\ i + 1 - 1 = i
      OBVIOUS
    <3>. QED  BY <1>1, <1>2, <2>1, <3>1
  <2>4. CASE a.append \/ \E k \in DOMAIN s : s[k].name = a.name
    <3>1. u = s
      BY <2>3, <2>4 DEF append_or_replace_macro
    <3>2. \A j \in 1 .. i + 1 : j \in 1 .. i \/ j = i + 1
      OBVIOUS
    <3>3. \A k \in 1 .. Len(u) : \E j \in 1 .. i + 1 : ~args[j].append /\ u[k] = args[j]
      BY <1>4, <2>1, <3>1
    <3>4. \A j \in 1 .. i + 1 : ~args[j].append =>
            \E k \in 1 .. Len(u) : u[k].name = args[j].name
      BY <1>4, <2>1, <2>2, <2>4, <3>1, <3>2
    <3>. QED  BY <2>1, <2>2, <3>1, <3>3, <3>4
  <2>5. CASE ~(a.append \/ \E k \in DOMAIN s : s[k].name = a.name)
    <3>1. u = Append(s, a)
      BY <2>3, <2>5 DEF append_or_replace_macro
    <3>2. /\ IsSeq(u) /\ Len(u) = Len(s) + 1 /\ \A k \in 1 .. Len(s) : u[k] = s[k]
          /\ u[Len(s) + 1] = a
      BY <2>2, <3>1, AppendSeq
    <3>3. ASSUME NEW k \in 1 .. Len(u)
          PROVE  \E j \in 1 .. i + 1 : ~args[j].append /\ u[k] = args[j]
      <4>1. CASE k = Len(s) + 1
        BY <2>1, <2>5, <3>2, <4>1
      <4>2. CASE k \in 1 .. Len(s)
        <5>1. PICK j \in 1 .. i : ~args[j].append /\ s[k] = args[j]
          BY <1>4, <2>1, <4>2
        <5>. QED  BY <3>2, <4>2, <5>1
      <4>. QED  BY <2>2, <3>2, <4>1, <4>2
    <3>4. ASSUME NEW j \in 1 .. i + 1, ~args[j].append
          PROVE  \E k \in 1 .. Len(u) : u[k].name = args[j].name
      <4>1. CASE j = i + 1
        <5>1. Len(s) + 1 \in 1 .. Len(u)
          BY <2>2, <3>2
        <5>. QED  BY <2>1, <3>2, <4>1, <5>1
      <4>2. CASE j \in 1 .. i
        <5>1. PICK k \in 1 .. Len(s) : s[k].name = args[j].name
          BY <1>4, <2>1, <3>4, <4>2
        <5>. QED  BY <2>2, <3>2, <5>1
      <4>. QED  BY <4>1, <4>2
    <3>. QED  BY <2>1, <3>2, <3>3, <3>4
  <2>. QED  BY <2>4, <2>5
<1>5. Fine(l)
  <2>. HIDE DEF Fine
  <2>1. 0 \in T /\ \A i \in 0 .. l - 1 : i \in T => i + 1 \in T
    BY <1>3, <1>4
  <2>. HIDE DEF T
  <2>2. 0 .. l \subseteq T
    BY <2>1, Upwards
  <2>. QED  BY <2>2 DEF T
<1>6. PICK c : c = makeflags_and_macro(args) /\ c = f[l]
  BY <1>1, <1>2
<1>7. IsSeq(c) /\ DOMAIN c = 1 .. Len(c)
  BY <1>5, <1>6, SeqShape
<1>8. /\ \A k \in DOMAIN c : \E j \in DOMAIN args : ~args[j].append /\ c[k] = args[j]
      /\ \A j \in DOMAIN args : ~args[j].append => \E k \in DOMAIN c : c[k].name = args[j].name
  <2>1. \A k \in 1 .. Len(c) : \E j \in 1 .. l : ~args[j].append /\ c[k] = args[j]
    BY <1>5, <1>6
  <2>2. \A j \in 1 .. l : ~args[j].append => \E k \in 1 .. Len(c) : c[k].name = args[j].name
    BY <1>5, <1>6
  <2>. QED  BY <1>1, <1>7, <2>1, <2>2
<1>9. Settings(c)
  BY <1>7, <1>8 DEF Settings
<1>. QED  BY <1>6, <1>8, <1>9 DEF PassedOn

\* Of a macro that is set once, the value that is passed on is the one it was
\* set to.
LEMMA OnlyOne ==
  ASSUME NEW args, Settings(args), NEW array, PassedOn(array, args), NEW n,
         NEW j \in Plain(args, n), \A i \in Plain(args, n) : i = j
  PROVE  Plain(array, n) /= {} /\ array[Max(Plain(array, n))] = args[j]
<1>1. j \in DOMAIN args /\ args[j].name = n /\ ~args[j].append
  BY DEF Plain
<1>2. \A k \in DOMAIN array : array[k].name = n => k \in Plain(array, n) /\ array[k] = args[j]
  <2>. SUFFICES ASSUME NEW k \in DOMAIN array, array[k].name = n
                PROVE  k \in Plain(array, n) /\ array[k] = args[j]
    OBVIOUS
  <2>1. PICK i \in DOMAIN args : ~args[i].append /\ array[k] = args[i]
    BY DEF PassedOn
  <2>2. i \in Plain(args, n)
    BY <2>1 DEF Plain
  <2>. QED  BY <1>1, <2>1, <2>2 DEF Plain
<1>3. Plain(array, n) /= {}
  <2>1. PICK k \in DOMAIN array : array[k].name = n
    BY <1>1 DEF PassedOn
  <2>. QED  BY <1>2, <2>1
<1>4. Max(Plain(array, n)) \in Plain(array, n)
  <2>1. PICK l \in Nat : l = Len(array) /\ DOMAIN array = 1 .. l
    BY SeqShape DEF PassedOn, Settings
  <2>2. Plain(array, n) \in SUBSET (1 .. l)
    BY <2>1 DEF Plain
  <2>. QED  BY <1>3, <2>2, MaxIn
<1>5. \A k \in Plain(array, n) : k \in DOMAIN array /\ array[k].name = n
  BY DEF Plain
<1>. QED  BY <1>2, <1>3, <1>4, <1>5

\* The assignments of n in flags and args are those in all.
Joined(flags, args, all, n) ==
    /\ \A j \in Plain(flags, n) : j \in Plain(all, n) /\ all[j] = flags[j]
    /\ \A j \in Plain(args, n) : /\ Len(flags) + j \in Plain(all, n)
                                 /\ all[Len(flags) + j] = args[j]
    /\ Plain(all, n) /= {} => Plain(flags, n) /= {} \/ Plain(args, n) /= {}

LEMMA TwoLists ==
  ASSUME NEW flags, Settings(flags), NEW args, Settings(args),
         NEW all, all = flags \o args
  PROVE  Settings(all) /\ \A n \in Macro : Joined(flags, args, all, n)
<1>1. PICK a, b : a \in Nat /\ b \in Nat /\ a = Len(flags) /\ b = Len(args)
                  /\ DOMAIN flags = 1 .. a /\ DOMAIN args = 1 .. b
  BY SeqShape DEF Settings
<1>2. /\ IsSeq(all) /\ Len(all) = a + b /\ \A i \in 1 .. a : all[i] = flags[i]
      /\ \A i \in 1 .. b : all[a + i] = args[i]
  BY <1>1, ConcatSeq DEF Settings
<1>3. DOMAIN all = 1 .. a + b
  BY <1>2, SeqShape
<1>4. ASSUME NEW i \in 1 .. a + b
      PROVE  (i \in 1 .. a /\ all[i] = flags[i]) \/ (i - a \in 1 .. b /\ all[i] = args[i - a])
  <2>1. CASE i \in 1 .. a
    BY <1>2, <2>1
  <2>2. CASE i \notin 1 .. a
    <3>1. i - a \in 1 .. b /\ a + (i - a) = i
      BY <1>1, <2>2
    <3>. QED  BY <1>2, <3>1
  <2>. QED  BY <2>1, <2>2
<1>5. Settings(all)
  BY <1>1, <1>2, <1>3, <1>4 DEF Settings
<1>6. ASSUME NEW n \in Macro PROVE Joined(flags, args, all, n)
  <2>1. ASSUME NEW j \in Plain(flags, n) PROVE j \in Plain(all, n) /\ all[j] = flags[j]
    <3>1. j \in 1 .. a /\ j \in 1 .. a + b
      BY <1>1 DEF Plain
    <3>. QED  BY <1>2, <1>3, <3>1 DEF Plain
  <2>2. ASSUME NEW j \in Plain(args, n) PROVE a + j \in Plain(all, n) /\ all[a + j] = args[j]
    <3>1. j \in 1 .. b /\ a + j \in 1 .. a + b
      BY <1>1 DEF Plain
    <3>. QED  BY <1>2, <1>3, <3>1 DEF Plain
  <2>3. ASSUME NEW i \in Plain(all, n) PROVE Plain(flags, n) /= {} \/ Plain(args, n) /= {}
    <3>1. i \in 1 .. a + b /\ all[i].name = n /\ ~all[i].append
      BY <1>3 DEF Plain
    <3>. QED  BY <1>1, <1>4, <3>1 DEF Plain
  <2>. QED  BY <1>1, <2>1, <2>2, <2>3 DEF Joined
<1>. QED  BY <1>5, <1>6

\* A macro is set more than once.
Twice(n) == \E i, j \in Plain(given.flags \o given.args, n) : i /= j

LEMMA PassedValue ==
  ASSUME PrecedenceInv, phase = "build", NEW n \in Macro, ~Twice(n),
         Plain(given.args, n) /= {} \/ Plain(given.flags, n) /= {},
         NEW array, PassedOn(array, given.flags \o given.args)
  PROVE  Plain(array, n) /= {} /\ array[Max(Plain(array, n))].value = Wanted(n)
<1>1. PICK flags, args : flags = given.flags /\ args = given.args /\ Settings(flags)
                         /\ Settings(args)
  BY DEF PrecedenceInv, GivenIs
<1>2. PICK all : all = flags \o args /\ Settings(all) /\ Joined(flags, args, all, n)
  BY <1>1, TwoLists
<1>3. \A i, j \in Plain(all, n) : i = j
  BY <1>1, <1>2 DEF Twice
<1>4. \E j \in Plain(all, n) : all[j].value = Wanted(n)
  <2>1. CASE Plain(args, n) /= {}
    <3>1. PICK j : j = Max(Plain(args, n)) /\ j \in Plain(args, n)
      <4>1. PICK l \in Nat : l = Len(args) /\ DOMAIN args = 1 .. l
        BY <1>1, SeqShape DEF Settings
      <4>2. Plain(args, n) \in SUBSET (1 .. l)
        BY <4>1 DEF Plain
      <4>. QED  BY <2>1, <4>2, MaxIn
    <3>2. Wanted(n) = args[j].value
      BY <1>1, <2>1, <3>1 DEF Wanted
    <3>3. Len(flags) + j \in Plain(all, n) /\ all[Len(flags) + j] = args[j]
      BY <1>2, <3>1 DEF Joined
    <3>. QED  BY <3>2, <3>3
  <2>2. CASE Plain(args, n) = {}
    <3>1. PICK j : j = Max(Plain(flags, n)) /\ j \in Plain(flags, n)
      <4>1. PICK l \in Nat : l = Len(flags) /\ DOMAIN flags = 1 .. l
        BY <1>1, SeqShape DEF Settings
      <4>2. Plain(flags, n) \in SUBSET (1 .. l)
        BY <4>1 DEF Plain
      <4>. QED  BY <1>1, <2>2, <4>2, MaxIn
    <3>2. Wanted(n) = flags[j].value
      BY <1>1, <2>2, <3>1 DEF Wanted
    <3>3. j \in Plain(all, n) /\ all[j] = flags[j]
      BY <1>2, <3>1 DEF Joined
    <3>. QED  BY <3>2, <3>3
  <2>. QED  BY <2>1, <2>2
<1>5. PICK j \in Plain(all, n) : all[j].value = Wanted(n)
  BY <1>4
<1>6. PassedOn(array, all) /\ \A i \in Plain(all, n) : i = j
  BY <1>1, <1>2, <1>3
<1>7. Plain(array, n) /= {} /\ array[Max(Plain(array, n))] = all[j]
  <2>1. Settings(all) /\ Settings(array)
    BY <1>2, <1>6 DEF PassedOn
  <2>. QED  BY <1>6, <2>1, OnlyOne
<1>. QED  BY <1>5, <1>7

LEMMA SubMakeSound ==
  ASSUME PrecedenceInv
  PROVE  SubMakeSees
<1>. SUFFICES ASSUME phase = "build", given.posix, NEW n \in Macro,
                     base.body[n].read_only, ~base.appendix[n].on, ~Twice(n),
                     NEW sub, sub = Startup(NoMacros(base.env), base.env, makeflags, <<>>,
                                            given.env_wins)
              PROVE  sub.body[n].value = base.body[n].value /\ sub.body[n].read_only
  BY DEF SubMakeSees, Twice
<1>1. PICK flags, args : flags = given.flags /\ args = given.args /\ Settings(flags)
                         /\ Settings(args) /\ given.env_wins \in BOOLEAN
  BY DEF PrecedenceInv, GivenIs
<1>2. PICK array : array = makeflags /\ PassedOn(array, flags \o args) /\ Settings(array)
  <2>1. makeflags = makeflags_and_macro(flags \o args)
    BY <1>1 DEF PrecedenceInv
  <2>. QED  BY <1>1, <2>1, TwoLists, MakeflagsPass DEF PassedOn
<1>3. Valued(base) /\ Plainly(base, n) = Wanted(n) /\ base.body[n].value = Wanted(n)
  BY DEF PrecedenceInv, Plainly
<1>4. Known(base.env)
  BY <1>3 DEF Valued, Typed, Known
<1>5. PICK e, x, none, wins :
        /\ e = base.env /\ x = NoMacros(e) /\ none = <<>> /\ wins = given.env_wins
  OBVIOUS
<1>6. Settings(none) /\ Plain(none, n) = {} /\ ~AppendsTo(none, n)
  <2>1. IsSeq(none) /\ DOMAIN none = {}
    BY <1>5, NoneIsSeq
  <2>. QED  BY <2>1 DEF Settings, Plain, AppendsTo
<1>7. Valued(sub) /\ Started(sub, n, Plainly(x, n), e, array, none, wins)
  <2>1. Valued(x) /\ Untouched(x) /\ x.env = e /\ Known(e)
    BY <1>4, <1>5, NothingSet
  <2>2. sub = Startup(x, e, array, none, wins) /\ wins \in BOOLEAN
    BY <1>1, <1>2, <1>5
  <2>. QED  BY <1>2, <1>6, <2>1, <2>2, StartupSets
<1>8. ~sub.appendix[n].on
  <2>1. ~AppendsTo(array, n)
    BY <1>2 DEF AppendsTo, PassedOn
  <2>. QED  BY <1>6, <1>7, <2>1 DEF Started
<1>9. sub.body[n].value = Plainly(sub, n)
  BY <1>8 DEF Plainly
<1>10. CASE Plain(args, n) /= {} \/ Plain(flags, n) /= {}
  <2>1. Plain(array, n) /= {} /\ array[Max(Plain(array, n))].value = Wanted(n)
    BY <1>1, <1>2, <1>10, PassedValue
  <2>2. Plainly(sub, n) = Wanted(n) /\ sub.body[n].read_only
    BY <1>6, <1>7, <2>1 DEF Started
  <2>. QED  BY <1>3, <1>9, <2>2
<1>11. CASE Plain(args, n) = {} /\ Plain(flags, n) = {}
  <2>1. wins /\ n \in DOMAIN given.environment
    BY <1>1, <1>5, <1>11 DEF PrecedenceInv
  <2>2. n \in DOMAIN e /\ e[n] = base.body[n].value
    <3>1. base.body[n].exported
      BY <2>1 DEF PrecedenceInv
    <3>. QED  BY <1>3, <1>5, <3>1 DEF Valued, Complete
  <2>3. Plain(array, n) = {}
    <3>1. PICK all : all = flags \o args /\ Plain(all, n) = {}
      <4>1. PICK all : all = flags \o args /\ Joined(flags, args, all, n)
        BY <1>1, TwoLists
      <4>. QED  BY <1>11, <4>1 DEF Joined
    <3>2. \A k \in DOMAIN array : \E j \in DOMAIN all : ~all[j].append /\ array[k] = all[j]
      BY <1>2, <3>1 DEF PassedOn
    <3>. QED  BY <3>1, <3>2 DEF Plain
  <2>4. Plainly(sub, n) = e[n] /\ sub.body[n].read_only
    BY <1>6, <1>7, <2>1, <2>2, <2>3 DEF Started
  <2>. QED  BY <1>9, <2>2, <2>4
<1>. QED  BY <1>10, <1>11

\* A make that a recipe starts in posix or gnu mode gives every macro that the
\* command line, MAKEFLAGS or the environment under -e made read-only the value
\* it has here, and makes it read-only too: except those to which something is
\* appended, which is not passed on, and those set twice, of which the first
\* value is.
\* (main.cc 3566-3673 append_or_replace_macro_in_dyn_array, 2338-2344,
\* 3010-3075 enter_argv_values)
THEOREM SubMakesSee == Spec => []SubMakeSees
<1>1. Init => PrecedenceInv /\ RestoredInv
  BY PrecedenceInit, RestoredInit
<1>2. PrecedenceInv /\ RestoredInv /\ [Next]_vars => PrecedenceInv' /\ RestoredInv'
  BY PrecedenceStep, RestoredStep
<1>3. PrecedenceInv => SubMakeSees
  BY SubMakeSound
<1>. QED  BY <1>1, <1>2, <1>3, PTL DEF Spec
-----------------------------------------------------------------------------
(* The conditionals of a target, in the order of the makefile *)

\* s lists the numbers of S, the smallest first.
Lists(s, S) ==
    /\ IsSeq(s)
    /\ \A i \in 1 .. Len(s) : s[i] \in S
    /\ \A x \in S : \E i \in 1 .. Len(s) : s[i] = x
    /\ \A i, j \in 1 .. Len(s) : i < j => s[i] < s[j]

LEMMA ListsSame ==
  ASSUME NEW S \in SUBSET Nat, NEW s, Lists(s, S), NEW u, Lists(u, S)
  PROVE  s = u
<1>1. PICK a, b : a \in Nat /\ b \in Nat /\ a = Len(s) /\ b = Len(u) /\ IsSeq(s) /\ IsSeq(u)
  BY SeqShape DEF Lists
<1>2. /\ \A i \in 1 .. a : s[i] \in Nat /\ \E j \in 1 .. b : u[j] = s[i]
      /\ \A i \in 1 .. b : u[i] \in Nat /\ \E j \in 1 .. a : s[j] = u[i]
      /\ \A i, j \in 1 .. a : i < j => s[i] < s[j]
      /\ \A i, j \in 1 .. b : i < j => u[i] < u[j]
  BY <1>1 DEF Lists
<1>0. PICK l \in Nat : l = a + b
  BY <1>1
<1>. DEFINE Fine(k) == \A j \in 1 .. k : (j <= a <=> j <= b) /\ (j <= a => s[j] = u[j])
            T == {k \in 0 .. l : Fine(k)}
<1>3. ASSUME NEW k \in 0 .. l - 1, Fine(k) PROVE Fine(k + 1)
  <2>1. ASSUME k + 1 <= a PROVE k + 1 <= b /\ u[k + 1] <= s[k + 1]
    <3>1. k + 1 \in 1 .. a
      BY <2>1
    <3>2. PICK p \in 1 .. b : u[p] = s[k + 1]
      BY <1>2, <3>1
    <3>3. p >= k + 1
      <4>1. ASSUME p <= k PROVE FALSE
        <5>0. p \in 1 .. k /\ p <= b
          BY <3>2, <4>1
        <5>1. p \in 1 .. a /\ s[p] = u[p] /\ s[p] \in Nat
          BY <1>2, <1>3, <5>0
        <5>2. s[p] < s[k + 1]
          BY <1>2, <3>1, <4>1, <5>1
        <5>. QED  BY <3>2, <5>1, <5>2
      <4>. QED  BY <4>1
    <3>4. k + 1 \in 1 .. b /\ u[k + 1] \in Nat /\ u[p] \in Nat
      <4>1. k + 1 \in 1 .. b
        BY <1>1, <3>3
      <4>. QED  BY <1>2, <4>1
    <3>5. u[k + 1] <= u[p]
      BY <1>2, <3>3, <3>4
    <3>. QED  BY <3>2, <3>4, <3>5
  <2>2. ASSUME k + 1 <= b PROVE k + 1 <= a /\ s[k + 1] <= u[k + 1]
    <3>1. k + 1 \in 1 .. b
      BY <2>2
    <3>2. PICK p \in 1 .. a : s[p] = u[k + 1]
      BY <1>2, <3>1
    <3>3. p >= k + 1
      <4>1. ASSUME p <= k PROVE FALSE
        <5>0. p \in 1 .. k /\ p <= a
          BY <3>2, <4>1
        <5>1. p \in 1 .. b /\ s[p] = u[p] /\ u[p] \in Nat
          BY <1>2, <1>3, <5>0
        <5>2. u[p] < u[k + 1]
          BY <1>2, <3>1, <4>1, <5>1
        <5>. QED  BY <3>2, <5>1, <5>2
      <4>. QED  BY <4>1
    <3>4. k + 1 \in 1 .. a /\ s[k + 1] \in Nat /\ s[p] \in Nat
      <4>1. k + 1 \in 1 .. a
        BY <1>1, <3>3
      <4>. QED  BY <1>2, <4>1
    <3>5. s[k + 1] <= s[p]
      BY <1>2, <3>3, <3>4
    <3>. QED  BY <3>2, <3>4, <3>5
  <2>3. k + 1 <= a => s[k + 1] = u[k + 1]
    <3>. SUFFICES ASSUME k + 1 <= a PROVE s[k + 1] = u[k + 1]
      OBVIOUS
    <3>1. k + 1 \in 1 .. a /\ k + 1 \in 1 .. b
      BY <2>1
    <3>2. s[k + 1] \in Nat /\ u[k + 1] \in Nat
      BY <1>2, <3>1
    <3>. QED  BY <2>1, <2>2, <3>2
  <2>4. \A j \in 1 .. k + 1 : j \in 1 .. k \/ j = k + 1
    OBVIOUS
  <2>. QED  BY <1>3, <2>1, <2>2, <2>3, <2>4
<1>4. Fine(l)
  <2>1. Fine(0) /\ 0 \in 0 .. l
    BY <1>0
  <2>. HIDE DEF Fine
  <2>2. 0 \in T /\ \A k \in 0 .. l - 1 : k \in T => k + 1 \in T
    BY <1>0, <1>3, <2>1
  <2>. HIDE DEF T
  <2>3. 0 .. l \subseteq T
    BY <1>0, <2>2, Upwards
  <2>. QED  BY <1>0, <2>3 DEF T
<1>5. a = b
  <2>1. CASE a < b
    <3>1. a + 1 \in 1 .. l
      BY <1>0, <1>1, <2>1
    <3>. QED  BY <1>1, <1>4, <2>1, <3>1
  <2>2. CASE b < a
    <3>1. b + 1 \in 1 .. l
      BY <1>0, <1>1, <2>2
    <3>. QED  BY <1>1, <1>4, <2>2, <3>1
  <2>. QED  BY <1>1, <2>1, <2>2
<1>6. \A i \in 1 .. a : s[i] = u[i]
  BY <1>0, <1>1, <1>4
<1>. QED  BY <1>1, <1>5, <1>6, SameSeq

LEMMA ListsAtEnd ==
  ASSUME NEW S \in SUBSET Nat, NEW s, Lists(s, S), NEW x \in Nat, \A y \in S : y < x
  PROVE  Lists(Append(s, x), S \cup {x})
<1>0. PICK u, a : u = Append(s, x) /\ a = Len(s)
  OBVIOUS
<1>1. /\ IsSeq(u) /\ a \in Nat /\ Len(u) = a + 1
      /\ \A i \in 1 .. a : u[i] = s[i]
      /\ u[a + 1] = x
  <2>1. IsSeq(s) /\ Len(s) \in Nat
    BY SeqShape DEF Lists
  <2>. QED  BY <1>0, <2>1, AppendSeq
<1>2. \A i \in 1 .. a + 1 : i \in 1 .. a \/ i = a + 1
  BY <1>1
<1>3. \A i \in 1 .. a + 1 : u[i] \in S \cup {x}
  BY <1>0, <1>1, <1>2 DEF Lists
<1>4. ASSUME NEW y \in S \cup {x} PROVE \E i \in 1 .. a + 1 : u[i] = y
  <2>1. CASE y = x
    <3>1. a + 1 \in 1 .. a + 1
      BY <1>1
    <3>. QED  BY <1>1, <2>1, <3>1
  <2>2. CASE y \in S
    <3>1. PICK i \in 1 .. a : s[i] = y
      BY <1>0, <1>1, <2>2 DEF Lists
    <3>2. i \in 1 .. a + 1
      BY <1>1
    <3>. QED  BY <1>1, <3>1, <3>2
  <2>. QED  BY <2>1, <2>2
<1>5. ASSUME NEW i \in 1 .. a + 1, NEW j \in 1 .. a + 1, i < j PROVE u[i] < u[j]
  <2>1. i \in 1 .. a
    BY <1>1, <1>5
  <2>2. CASE j = a + 1
    BY <1>0, <1>1, <2>1, <2>2 DEF Lists
  <2>3. CASE j \in 1 .. a
    BY <1>0, <1>1, <1>5, <2>1, <2>3 DEF Lists
  <2>. QED  BY <1>2, <2>2, <2>3
<1>. QED  BY <1>0, <1>1, <1>3, <1>4, <1>5 DEF Lists

\* u is s with x at place j.
Inserted(u, s, j, x, S) ==
    /\ u \in Seq(S) /\ Len(u) = Len(s) + 1
    /\ \A i \in 1 .. j - 1 : u[i] = s[i]
    /\ u[j] = x
    /\ \A i \in j .. Len(s) : u[i + 1] = s[i]

LEMMA InsertIs ==
  ASSUME NEW S, NEW s \in Seq(S), NEW x \in S, NEW j \in 1 .. Len(s),
         NEW u, u = InsertAt(s, j, x)
  PROVE  Inserted(u, s, j, x, S)
<1>1. PICK a \in Nat : a = Len(s)
  BY LenProperties
<1>2. PICK front, back : front = SubSeq(s, 1, j - 1) /\ back = SubSeq(s, j, a)
  OBVIOUS
<1>3. \A i \in 1 .. a : s[i] \in S
  BY <1>1, ElementOfSeq
<1>4. /\ front \in Seq(S) /\ Len(front) = j - 1 /\ \A i \in 1 .. j - 1 : front[i] = s[i]
  <2>1. 1 \in Int /\ j - 1 \in Int /\ \A i \in 1 .. j - 1 : s[i] \in S
    BY <1>1, <1>3
  <2>2. /\ front \in Seq(S) /\ Len(front) = IF 1 <= j - 1 THEN j - 1 - 1 + 1 ELSE 0
        /\ \A i \in 1 .. j - 1 - 1 + 1 : front[i] = s[1 + i - 1]
    BY <1>2, <2>1, SubSeqProperties
  <2>. QED  BY <1>1, <2>2
<1>5. /\ back \in Seq(S) /\ Len(back) = a - j + 1
      /\ \A i \in 1 .. a - j + 1 : back[i] = s[j + i - 1]
  <2>1. j \in Int /\ a \in Int /\ \A i \in j .. a : s[i] \in S
    BY <1>1, <1>3
  <2>2. /\ back \in Seq(S) /\ Len(back) = IF j <= a THEN a - j + 1 ELSE 0
        /\ \A i \in 1 .. a - j + 1 : back[i] = s[j + i - 1]
    BY <1>2, <2>1, SubSeqProperties
  <2>. QED  BY <1>1, <2>2
<1>6. PICK one : one = <<x>> /\ one \in Seq(S) /\ Len(one) = 1 /\ one[1] = x
  <2>1. <<x>> \in Seq(S) /\ Len(<<x>>) = 1 /\ <<x>>[1] = x
    OBVIOUS
  <2>. QED  BY <2>1
<1>7. PICK begin : /\ begin = front \o one /\ begin \in Seq(S) /\ Len(begin) = j
                   /\ \A i \in 1 .. j : begin[i] = IF i <= j - 1 THEN s[i] ELSE x
  <2>1. PICK begin : begin = front \o one
    OBVIOUS
  <2>2. /\ begin \in Seq(S) /\ Len(begin) = j - 1 + 1
        /\ \A i \in 1 .. j - 1 + 1 : begin[i] = IF i <= j - 1 THEN front[i] ELSE one[i - (j - 1)]
    BY <1>4, <1>6, <2>1, ConcatProperties
  <2>3. j - 1 + 1 = j
    OBVIOUS
  <2>4. ASSUME NEW i \in 1 .. j PROVE begin[i] = IF i <= j - 1 THEN s[i] ELSE x
    <3>1. CASE i <= j - 1
      BY <1>4, <2>2, <2>3, <3>1
    <3>2. CASE ~(i <= j - 1)
      <4>1. i - (j - 1) = 1
        BY <3>2
      <4>. QED  BY <1>6, <2>2, <2>3, <3>2, <4>1
    <3>. QED  BY <3>1, <3>2
  <2>. QED  BY <2>1, <2>2, <2>3, <2>4
<1>8. u = begin \o back
  BY <1>1, <1>2, <1>6, <1>7 DEF InsertAt
<1>9. /\ u \in Seq(S) /\ Len(u) = j + (a - j + 1)
      /\ \A i \in 1 .. j + (a - j + 1) : u[i] = IF i <= j THEN begin[i] ELSE back[i - j]
  <2>1. /\ u \in Seq(S) /\ Len(u) = Len(begin) + Len(back)
        /\ \A i \in 1 .. Len(begin) + Len(back) :
             u[i] = IF i <= Len(begin) THEN begin[i] ELSE back[i - Len(begin)]
    <3>1. begin \in Seq(S) /\ back \in Seq(S)
      BY <1>5, <1>7
    <3>. QED  BY <1>8, <3>1, ConcatProperties
  <2>. QED  BY <1>5, <1>7, <2>1
<1>10. ASSUME NEW i \in j .. a PROVE u[i + 1] = s[i]
  <2>1. i + 1 \in 1 .. j + (a - j + 1) /\ ~(i + 1 <= j) /\ i + 1 - j \in 1 .. a - j + 1
        /\ j + (i + 1 - j) - 1 = i
    BY <1>1
  <2>2. u[i + 1] = back[i + 1 - j]
    BY <1>9, <2>1
  <2>3. back[i + 1 - j] = s[j + (i + 1 - j) - 1]
    BY <1>5, <2>1
  <2>. QED  BY <2>1, <2>2, <2>3
<1>11. ASSUME NEW i \in 1 .. j - 1 PROVE u[i] = s[i]
  <2>1. i \in 1 .. j + (a - j + 1) /\ i <= j /\ i \in 1 .. j /\ i <= j - 1
    BY <1>1
  <2>. QED  BY <1>7, <1>9, <2>1
<1>12. u[j] = x
  <2>1. j \in 1 .. j + (a - j + 1) /\ j <= j /\ j \in 1 .. j /\ ~(j <= j - 1)
    BY <1>1
  <2>. QED  BY <1>7, <1>9, <2>1
<1>. QED  BY <1>1, <1>9, <1>10, <1>11, <1>12 DEF Inserted

\* A number that is not there yet goes to its place.
LEMMA ListsInserted ==
  ASSUME NEW S \in SUBSET Nat, NEW s, Lists(s, S), NEW x \in Nat, x \notin S
  PROVE  Lists(InSequence(s, x), S \cup {x})
<1>1. PICK a \in Nat : a = Len(s) /\ DOMAIN s = 1 .. a /\ IsSeq(s)
  BY SeqShape DEF Lists
<1>2. /\ \A i \in 1 .. a : s[i] \in S /\ s[i] \in Nat
      /\ \A i, j \in 1 .. a : i < j => s[i] < s[j]
      /\ \A y \in S : \E i \in 1 .. a : s[i] = y
  BY <1>1 DEF Lists
<1>3. PICK later : later = {i \in DOMAIN s : s[i] > x}
  OBVIOUS
<1>4. CASE later = {}
  <2>1. InSequence(s, x) = Append(s, x)
    BY <1>3, <1>4 DEF InSequence
  <2>2. ASSUME NEW y \in S PROVE y < x
    <3>1. PICK i \in 1 .. a : s[i] = y
      BY <1>2
    <3>2. ~(y > x) /\ y /= x /\ y \in Nat
      BY <1>1, <1>3, <1>4, <3>1
    <3>. QED  BY <3>2
  <2>. QED  BY <2>1, <2>2, ListsAtEnd
<1>5. CASE later /= {}
  <2>1. PICK j : j = Min(later)
    OBVIOUS
  <2>2. j \in later /\ \A k \in later : j <= k
    <3>1. later \in SUBSET Nat
      BY <1>1, <1>3
    <3>2. \E i \in later : \A k \in later : i <= k
      BY <1>5, <3>1, LeastNumber
    <3>. QED  BY <2>1, <3>2 DEF Min
  <2>3. j \in 1 .. a /\ s[j] > x
    BY <1>1, <1>3, <2>2
  <2>4. ASSUME NEW k \in 1 .. j - 1 PROVE k \in 1 .. a /\ s[k] < x
    <3>1. k \in 1 .. a /\ k < j
      BY <1>1, <2>3
    <3>2. k \notin later
      <4>1. ASSUME k \in later PROVE FALSE
        BY <2>2, <2>3, <3>1, <4>1
      <4>. QED  BY <4>1
    <3>3. ~(s[k] > x) /\ s[k] /= x /\ s[k] \in Nat
      BY <1>1, <1>2, <1>3, <3>1, <3>2
    <3>. QED  BY <3>1, <3>3
  <2>5. PICK u : u = InSequence(s, x)
    OBVIOUS
  <2>6. u = InsertAt(s, j, x)
    BY <1>3, <1>5, <2>1, <2>5 DEF InSequence
  <2>7. /\ u \in Seq(Nat) /\ Len(u) = a + 1 /\ \A i \in 1 .. j - 1 : u[i] = s[i]
        /\ u[j] = x
        /\ \A i \in j .. a : u[i + 1] = s[i]
    <3>1. s \in Seq(Nat)
      <4>1. s = [i \in 1 .. a |-> s[i]]
        BY <1>1, SeqShape
      <4>2. s \in [1 .. a -> Nat]
        BY <1>2, <4>1
      <4>. QED  BY <1>1, <4>2, SeqDef
    <3>2. PICK N : N = Nat /\ s \in Seq(N) /\ x \in N
      BY <3>1
    <3>3. j \in 1 .. Len(s)
      BY <1>1, <2>3
    <3>4. Inserted(u, s, j, x, N)
      BY <2>6, <3>2, <3>3, InsertIs
    <3>. QED  BY <1>1, <3>2, <3>4 DEF Inserted
  <2>8. ASSUME NEW i \in 1 .. a + 1
        PROVE  \/ i \in 1 .. j - 1 /\ i \in 1 .. a /\ u[i] = s[i] /\ u[i] < x
               \/ i = j /\ u[i] = x
               \/ i - 1 \in j .. a /\ i - 1 \in 1 .. a /\ u[i] = s[i - 1] /\ u[i] > x
    <3>1. CASE i \in 1 .. j - 1
      BY <2>4, <2>7, <3>1
    <3>2. CASE i = j
      BY <2>7, <3>2
    <3>3. CASE i > j
      <4>1. i - 1 \in j .. a /\ i - 1 \in 1 .. a /\ i - 1 + 1 = i
        BY <1>1, <2>3, <3>3
      <4>2. u[i] = s[i - 1]
        BY <2>7, <4>1
      <4>3. s[i - 1] > x
        <5>1. CASE i - 1 = j
          BY <2>3, <5>1
        <5>2. CASE j < i - 1
          <6>1. s[j] < s[i - 1] /\ s[j] \in Nat /\ s[i - 1] \in Nat
            BY <1>2, <2>3, <4>1, <5>2
          <6>. QED  BY <2>3, <6>1
        <5>. QED  BY <2>3, <4>1, <5>1, <5>2
      <4>. QED  BY <4>1, <4>2, <4>3
    <3>. QED  BY <1>1, <2>3, <3>1, <3>2, <3>3
  <2>9. \A i \in 1 .. a + 1 : u[i] \in S \cup {x} /\ u[i] \in Nat
    BY <1>2, <2>8
  <2>10. ASSUME NEW y \in S \cup {x} PROVE \E i \in 1 .. a + 1 : u[i] = y
    <3>1. CASE y = x
      <4>1. j \in 1 .. a + 1
        BY <1>1, <2>3
      <4>. QED  BY <2>7, <3>1, <4>1
    <3>2. CASE y \in S
      <4>1. PICK i \in 1 .. a : s[i] = y
        BY <1>2, <3>2
      <4>2. CASE i \in 1 .. j - 1
        <5>1. i \in 1 .. a + 1
          BY <1>1
        <5>. QED  BY <2>7, <4>1, <4>2, <5>1
      <4>3. CASE i \in j .. a
        <5>1. i + 1 \in 1 .. a + 1
          BY <1>1
        <5>. QED  BY <2>7, <4>1, <4>3, <5>1
      <4>. QED  BY <1>1, <2>3, <4>1, <4>2, <4>3
    <3>. QED  BY <3>1, <3>2
  <2>11. ASSUME NEW i \in 1 .. a + 1, NEW k \in 1 .. a + 1, i < k PROVE u[i] < u[k]
    <3>1. u[i] \in Nat /\ u[k] \in Nat
      BY <2>9
    <3>2. CASE i \in 1 .. j - 1
      <4>1. CASE k \in 1 .. j - 1
        <5>1. i \in 1 .. a /\ k \in 1 .. a /\ u[i] = s[i] /\ u[k] = s[k]
          BY <2>4, <2>7, <3>2, <4>1
        <5>. QED  BY <1>2, <2>11, <5>1
      <4>2. CASE k \notin 1 .. j - 1
        <5>1. u[i] < x
          BY <2>4, <2>7, <3>2
        <5>2. u[k] = x \/ u[k] > x
          BY <2>8, <4>2
        <5>. QED  BY <3>1, <5>1, <5>2
      <4>. QED  BY <4>1, <4>2
    <3>3. CASE i \notin 1 .. j - 1
      <4>1. k - 1 \in j .. a /\ k - 1 \in 1 .. a /\ u[k] = s[k - 1] /\ u[k] > x
        <5>1. k \notin 1 .. j - 1 /\ k /= j
          BY <2>3, <2>11, <3>3
        <5>. QED  BY <2>8, <5>1
      <4>2. CASE i = j
        BY <2>7, <3>1, <4>1, <4>2
      <4>3. CASE i /= j
        <5>1. i - 1 \in 1 .. a /\ u[i] = s[i - 1] /\ i - 1 < k - 1
          BY <2>8, <2>11, <3>3, <4>3
        <5>. QED  BY <1>2, <4>1, <5>1
      <4>. QED  BY <4>2, <4>3
    <3>. QED  BY <3>2, <3>3
  <2>. QED  BY <2>5, <2>7, <2>9, <2>10, <2>11, SeqIs DEF Lists
<1>. QED  BY <1>4, <1>5

ChosenBy(f, list, S) ==
    /\ f[0] = <<>>
    /\ \A i \in 1 .. Len(list) :
         f[i] = (IF i \in S THEN Append(f[i - 1], list[i]) ELSE f[i - 1])
    /\ Chosen(list, S) = f[Len(list)]

LEMMA ChoosesBy ==
  ASSUME NEW list, IsSeq(list), NEW S
  PROVE  \E f : ChosenBy(f, list, S)
BY ChosenIs DEF ChosenBy

\* The places that are chosen, and what is chosen.
LEMMA ChosenLists ==
  ASSUME NEW l \in Nat, NEW S, NEW list, list = [i \in 1 .. l |-> i]
  PROVE  Lists(Chosen(list, S), S \cap (1 .. l))
<1>1. IsSeq(list) /\ Len(list) = l /\ \A i \in 1 .. l : list[i] = i
  <2>1. list = [i \in 1 .. l |-> list[i]]
    OBVIOUS
  <2>. QED  BY <2>1, OfLength
<1>2. PICK f :
        /\ f[0] = <<>>
        /\ \A i \in 1 .. l : f[i] = (IF i \in S THEN Append(f[i - 1], i) ELSE f[i - 1])
        /\ Chosen(list, S) = f[l]
  <2>1. PICK f : ChosenBy(f, list, S)
    BY <1>1, ChoosesBy
  <2>. QED  BY <1>1, <2>1 DEF ChosenBy
<1>. DEFINE Fine(i) == Lists(f[i], S \cap (1 .. i))
            T == {i \in 0 .. l : Fine(i)}
<1>3. Fine(0)
  <2>1. IsSeq(f[0]) /\ Len(f[0]) = 0 /\ S \cap (1 .. 0) = {}
    BY <1>2, NoneIsSeq, EmptySeq
  <2>. QED  BY <2>1 DEF Lists
<1>4. ASSUME NEW i \in 0 .. l - 1, Fine(i) PROVE Fine(i + 1)
  <2>1. i + 1 \in 1 .. l /\ i + 1 - 1 = i
    OBVIOUS
  <2>2. f[i + 1] = (IF i + 1 \in S THEN Append(f[i], i + 1) ELSE f[i])
    BY <1>1, <1>2, <2>1
  <2>3. CASE i + 1 \in S
    <3>1. PICK R : R = S \cap (1 .. i)
      OBVIOUS
    <3>2. R \in SUBSET Nat /\ \A y \in R : y < i + 1
      BY <3>1
    <3>3. S \cap (1 .. i + 1) = R \cup {i + 1}
      BY <2>3, <3>1
    <3>4. Lists(Append(f[i], i + 1), R \cup {i + 1})
      BY <1>4, <3>1, <3>2, ListsAtEnd
    <3>. QED  BY <2>2, <2>3, <3>3, <3>4
  <2>4. CASE i + 1 \notin S
    <3>1. S \cap (1 .. i + 1) = S \cap (1 .. i)
      BY <2>4
    <3>. QED  BY <1>4, <2>2, <2>4, <3>1
  <2>. QED  BY <2>3, <2>4
<1>5. Fine(l)
  <2>. HIDE DEF Fine
  <2>1. 0 \in T /\ \A i \in 0 .. l - 1 : i \in T => i + 1 \in T
    BY <1>3, <1>4
  <2>. HIDE DEF T
  <2>2. 0 .. l \subseteq T
    BY <2>1, Upwards
  <2>. QED  BY <2>2 DEF T
<1>. QED  BY <1>1, <1>2, <1>5

LEMMA ChosenThrough ==
  ASSUME NEW list, IsSeq(list), NEW S,
         NEW places, places = [i \in 1 .. Len(list) |-> i],
         NEW c, c = Chosen(places, S)
  PROVE  Chosen(list, S) = [k \in DOMAIN c |-> list[c[k]]]
<1>1. PICK l \in Nat : l = Len(list)
  BY SeqShape
<1>2. IsSeq(places) /\ Len(places) = l /\ \A i \in 1 .. l : places[i] = i
  <2>1. places = [i \in 1 .. l |-> places[i]] /\ \A i \in 1 .. l : places[i] = i
    BY <1>1
  <2>. QED  BY <2>1, OfLength
<1>3. PICK f :
        /\ f[0] = <<>>
        /\ \A i \in 1 .. Len(list) :
             f[i] = (IF i \in S THEN Append(f[i - 1], list[i]) ELSE f[i - 1])
        /\ Chosen(list, S) = f[Len(list)]
  BY ChosenIs
<1>4. PICK g :
        /\ g[0] = <<>>
        /\ \A i \in 1 .. l : g[i] = (IF i \in S THEN Append(g[i - 1], i) ELSE g[i - 1])
        /\ Chosen(places, S) = g[l]
  <2>1. PICK g : ChosenBy(g, places, S)
    BY <1>2, ChoosesBy
  <2>. QED  BY <1>2, <2>1 DEF ChosenBy
<1>. DEFINE Fine(i) ==
       /\ IsSeq(f[i]) /\ IsSeq(g[i]) /\ Len(f[i]) = Len(g[i])
       /\ \A k \in 1 .. Len(g[i]) : f[i][k] = list[g[i][k]]
            T == {i \in 0 .. l : Fine(i)}
<1>5. Fine(0)
  BY <1>3, <1>4, NoneIsSeq, EmptySeq
<1>6. ASSUME NEW i \in 0 .. l - 1, Fine(i) PROVE Fine(i + 1)
  <2>1. i + 1 \in 1 .. l /\ i + 1 - 1 = i
    OBVIOUS
  <2>2. PICK x, y, u, v : x = f[i] /\ y = g[i] /\ u = f[i + 1] /\ v = g[i + 1]
    OBVIOUS
  <2>3. /\ u = (IF i + 1 \in S THEN Append(x, list[i + 1]) ELSE x)
        /\ v = (IF i + 1 \in S THEN Append(y, i + 1) ELSE y)
    BY <1>1, <1>2, <1>3, <1>4, <2>1, <2>2
  <2>4. CASE i + 1 \in S
    <3>1. IsSeq(x) /\ IsSeq(y) /\ Len(x) = Len(y) /\ Len(x) \in Nat
      BY <1>6, <2>2, SeqShape
    <3>2. /\ IsSeq(u) /\ Len(u) = Len(x) + 1 /\ \A k \in 1 .. Len(x) : u[k] = x[k]
          /\ u[Len(x) + 1] = list[i + 1]
      BY <2>3, <2>4, <3>1, AppendSeq
    <3>3. /\ IsSeq(v) /\ Len(v) = Len(y) + 1 /\ \A k \in 1 .. Len(y) : v[k] = y[k]
          /\ v[Len(y) + 1] = i + 1
      BY <2>3, <2>4, <3>1, AppendSeq
    <3>4. ASSUME NEW k \in 1 .. Len(v) PROVE u[k] = list[v[k]]
      <4>1. CASE k = Len(y) + 1
        BY <3>1, <3>2, <3>3, <4>1
      <4>2. CASE k \in 1 .. Len(y)
        <5>1. x[k] = list[y[k]]
          BY <1>6, <2>2, <4>2
        <5>2. u[k] = x[k] /\ v[k] = y[k]
          BY <3>1, <3>2, <3>3, <4>2
        <5>. QED  BY <5>1, <5>2
      <4>. QED  BY <3>1, <3>3, <4>1, <4>2
    <3>. QED  BY <2>2, <3>1, <3>2, <3>3, <3>4
  <2>5. CASE i + 1 \notin S
    <3>1. u = x /\ v = y
      BY <2>3, <2>5
    <3>. QED  BY <1>6, <2>2, <3>1
  <2>. QED  BY <2>4, <2>5
<1>7. Fine(l)
  <2>. HIDE DEF Fine
  <2>1. 0 \in T /\ \A i \in 0 .. l - 1 : i \in T => i + 1 \in T
    BY <1>5, <1>6
  <2>. HIDE DEF T
  <2>2. 0 .. l \subseteq T
    BY <2>1, Upwards
  <2>. QED  BY <2>2 DEF T
<1>8. PICK d, b : d = Chosen(list, S) /\ d = f[l] /\ c = g[l] /\ b = [k \in DOMAIN c |-> list[c[k]]]
  BY <1>1, <1>2, <1>3, <1>4
<1>9. /\ IsSeq(d) /\ IsSeq(c) /\ Len(d) = Len(c)
      /\ \A k \in 1 .. Len(c) : d[k] = list[c[k]]
  BY <1>7, <1>8
<1>10. Len(c) \in Nat /\ DOMAIN c = 1 .. Len(c)
  BY <1>9, SeqShape
<1>11. IsSeq(b) /\ Len(b) = Len(c) /\ \A k \in 1 .. Len(c) : b[k] = list[c[k]]
  <2>1. b = [k \in 1 .. Len(c) |-> b[k]] /\ \A k \in 1 .. Len(c) : b[k] = list[c[k]]
    BY <1>8, <1>10
  <2>. QED  BY <1>10, <2>1, OfLength
<1>12. d = b
  BY <1>9, <1>11, SameSeq
<1>. QED  BY <1>8, <1>12

\* The statements of the makefile for t, of one kind or of both.
Of(t, kind) ==
    {i \in DOMAIN Makefile : Makefile[i].kind = kind /\ t \in Makefile[i].targets}
Both(t) ==
    {i \in DOMAIN Makefile : Makefile[i].kind /= "macro" /\ t \in Makefile[i].targets}
Meant(t) == Chosen(Makefile, Both(t))

LEMMA EnteredLists ==
  ASSUME NEW t, NEW kind
  PROVE  Lists(Entered(t, kind), Of(t, kind)) /\ Of(t, kind) \in SUBSET Nat
<1>1. PICK l \in Nat : l = Len(Makefile) /\ DOMAIN Makefile = 1 .. l
  BY MakefileSeq, SeqShape
<1>2. PICK list, S : list = [i \in 1 .. l |-> i] /\ S = Of(t, kind)
  OBVIOUS
<1>3. Lists(Chosen(list, S), S \cap (1 .. l))
  BY <1>2, ChosenLists
<1>4. S \cap (1 .. l) = S /\ S \in SUBSET Nat
  BY <1>1, <1>2 DEF Of
<1>5. Entered(t, kind) = Chosen(list, S)
  BY <1>1, <1>2 DEF Entered, Of
<1>. QED  BY <1>2, <1>3, <1>4, <1>5

\* The patterns go to their places among the conditionals.
LEMMA ConditionalsAre ==
  ASSUME NEW t
  PROVE  add_pattern_conditionals(t) = Meant(t)
<1>1. PICK list, p : list = Entered(t, "pattern") /\ IsSeq(list) /\ p \in Nat /\ p = Len(list)
  BY EnteredSeq, SeqShape
<1>2. PICK f : /\ f[0] = Entered(t, "conditional")
               /\ \A i \in 1 .. p : f[i] = InSequence(f[i - 1], list[i])
               /\ add_pattern_conditionals(t) = [k \in DOMAIN f[p] |-> Makefile[f[p][k]]]
  BY <1>1, MergedIs
<1>3. PICK A, B : /\ A = Of(t, "conditional") /\ B = Of(t, "pattern")
                  /\ A \in SUBSET Nat /\ B \in SUBSET Nat /\ Lists(list, B)
                  /\ Lists(Entered(t, "conditional"), A)
  BY <1>1, EnteredLists
<1>4. A \cap B = {}
  BY <1>3 DEF Of
<1>5. /\ \A i \in 1 .. p : list[i] \in B
      /\ \A x \in B : \E i \in 1 .. p : list[i] = x
      /\ \A i, j \in 1 .. p : i < j => list[i] < list[j]
  BY <1>1, <1>3 DEF Lists
<1>. DEFINE There(i) == A \cup {list[j] : j \in 1 .. i}
            Fine(i) == Lists(f[i], There(i))
            T == {i \in 0 .. p : Fine(i)}
<1>6. Fine(0)
  <2>1. There(0) = A
    OBVIOUS
  <2>. QED  BY <1>2, <1>3, <2>1
<1>7. ASSUME NEW i \in 0 .. p - 1, Fine(i) PROVE Fine(i + 1)
  <2>1. i + 1 \in 1 .. p /\ i + 1 - 1 = i /\ i \in Nat
    BY <1>1
  <2>2. PICK x, S : x = list[i + 1] /\ S = There(i) /\ x \in B /\ x \in Nat
    BY <1>3, <1>5, <2>1
  <2>3. S \in SUBSET Nat
    <3>1. \A j \in 1 .. i : j \in 1 .. p /\ list[j] \in Nat
      BY <1>1, <1>3, <1>5
    <3>. QED  BY <1>3, <2>2, <3>1
  <2>4. x \notin S
    <3>1. ASSUME NEW j \in 1 .. i PROVE list[j] /= x
      <4>1. j \in 1 .. p /\ j < i + 1
        BY <1>1
      <4>2. list[j] < x /\ list[j] \in Nat
        BY <1>3, <1>5, <2>1, <2>2, <4>1
      <4>. QED  BY <2>2, <4>2
    <3>2. x \notin A
      BY <1>4, <2>2
    <3>. QED  BY <2>2, <3>1, <3>2
  <2>5. There(i + 1) = S \cup {x}
    <3>1. \A j \in 1 .. i + 1 : j \in 1 .. i \/ j = i + 1
      OBVIOUS
    <3>2. i + 1 \in 1 .. i + 1 /\ \A j \in 1 .. i : j \in 1 .. i + 1
      OBVIOUS
    <3>. QED  BY <2>2, <3>1, <3>2
  <2>6. f[i + 1] = InSequence(f[i], x)
    BY <1>2, <2>1, <2>2
  <2>7. Lists(f[i], S)
    BY <1>7, <2>2
  <2>8. Lists(f[i + 1], S \cup {x})
    BY <2>2, <2>3, <2>4, <2>6, <2>7, ListsInserted
  <2>. QED  BY <2>5, <2>8
<1>8. Fine(p)
  <2>. HIDE DEF Fine
  <2>1. 0 \in T /\ \A i \in 0 .. p - 1 : i \in T => i + 1 \in T
    BY <1>1, <1>6, <1>7
  <2>. HIDE DEF T
  <2>2. 0 .. p \subseteq T
    BY <1>1, <2>1, Upwards
  <2>. QED  BY <1>1, <2>2 DEF T
<1>9. There(p) = Both(t)
  <2>1. There(p) = A \cup B
    BY <1>5
  <2>2. \A i \in DOMAIN Makefile : Makefile[i].kind \in {"macro", "conditional", "pattern"}
    <3>1. \A i \in DOMAIN Makefile : Makefile[i] \in Statement
      BY StatementAssumption, LenProperties, ElementOfSeq
    <3>. QED  BY <3>1 DEF Statement
  <2>. QED  BY <1>3, <2>1, <2>2 DEF Of, Both
<1>10. PICK l \in Nat : l = Len(Makefile) /\ DOMAIN Makefile = 1 .. l
  BY MakefileSeq, SeqShape
<1>11. PICK places, S, c : places = [i \in 1 .. Len(Makefile) |-> i] /\ S = Both(t)
                           /\ c = Chosen(places, S)
  OBVIOUS
<1>12. S \cap (1 .. l) = S /\ S \in SUBSET Nat
  BY <1>10, <1>11 DEF Both
<1>13. Lists(c, S)
  BY <1>10, <1>11, <1>12, ChosenLists
<1>14. Lists(f[p], S)
  BY <1>8, <1>9, <1>11
<1>15. c = f[p]
  BY <1>12, <1>13, <1>14, ListsSame
<1>16. Meant(t) = [k \in DOMAIN c |-> Makefile[c[k]]]
  BY <1>11, MakefileSeq, ChosenThrough DEF Meant
<1>. QED  BY <1>2, <1>15, <1>16

LEMMA MeantSettings ==
  ASSUME NEW t
  PROVE  Settings(Meant(t))
<1>1. PICK S : S = Both(t)
  OBVIOUS
<1>2. \A i \in DOMAIN Makefile : Makefile[i] \in Statement
  BY StatementAssumption, LenProperties, ElementOfSeq
<1>3. PICK c : c = Meant(t) /\ IsSeq(c) /\ \A k \in DOMAIN c : c[k] \in Statement
  <2>1. /\ IsSeq(Chosen(Makefile, S))
        /\ \A k \in DOMAIN Chosen(Makefile, S) :
             \E i \in DOMAIN Makefile : i \in S /\ Chosen(Makefile, S)[k] = Makefile[i]
    BY MakefileSeq, ChosenSeq, ChosenFrom
  <2>. QED  BY <1>1, <1>2, <2>1 DEF Meant
<1>. QED  BY <1>3 DEF Settings, Statement, Words
-----------------------------------------------------------------------------
(* The values that are expected, and those that are there *)

ExpectedBy(f, b, path, n) ==
    /\ f[0] = b.body[n].value
    /\ \A i \in 1 .. Len(path) : f[i] = Assigned(f[i - 1], n, Meant(path[i]))
    /\ \A i \in 0 .. Len(path) : f[i] \in Words
    /\ Expected(b, path, n) = f[Len(path)]

LEMMA AssignedWords ==
  ASSUME NEW v \in Words, NEW n, NEW t
  PROVE  Assigned(v, n, Meant(t)) \in Words
<1>1. PICK c : c = Meant(t) /\ Settings(c)
  BY MeantSettings
<1>2. PICK f : AssignedBy(f, v, n, c)
  BY <1>1, AssignedIs
<1>3. Len(c) \in 0 .. Len(c)
  BY <1>1, SeqShape DEF Settings
<1>. QED  BY <1>1, <1>2, <1>3 DEF AssignedBy

LEMMA ExpectedIs ==
  ASSUME NEW b, Typed(b), NEW n \in Macro, NEW path, IsSeq(path)
  PROVE  \E f : ExpectedBy(f, b, path, n)
<1>1. PICK k \in Nat : k = Len(path)
  BY SeqShape
<1>2. PICK v \in Words : v = b.body[n].value
  BY PlainWords
<1>. DEFINE step == [p \in Words \X (1 .. k) |-> Assigned(p[1], n, Meant(path[p[2]]))]
            Made(g) == g = [i \in 0 .. k |->
                              IF i = 0 THEN v ELSE Assigned(g[i - 1], n, Meant(path[i]))]
<1>3. step \in [Words \X (1 .. k) -> Words]
  BY AssignedWords
<1>4. PICK f \in [0 .. k -> Words] :
        f[0] = v /\ \A i \in 1 .. k : f[i] = step[<<f[i - 1], i>>]
  <2>1. PICK W, st : W = Words /\ st = step
    OBVIOUS
  <2>2. st \in [W \X (1 .. k) -> W] /\ v \in W
    BY <1>3, <2>1
  <2>3. \E f : Stepwise(f, k, W, v, st)
    BY <2>2, Steps
  <2>. QED  BY <2>1, <2>3 DEF Stepwise
<1>5. \A i \in 1 .. k : f[i] = Assigned(f[i - 1], n, Meant(path[i]))
  <2>. TAKE i \in 1 .. k
  <2>1. <<f[i - 1], i>> \in Words \X (1 .. k)
    BY <1>4
  <2>. QED  BY <1>4, <2>1
<1>6. Made(f)
  <2>1. f = [i \in 0 .. k |-> f[i]]
    BY <1>4
  <2>2. \A i \in 0 .. k : f[i] = IF i = 0 THEN v ELSE Assigned(f[i - 1], n, Meant(path[i]))
    BY <1>4, <1>5
  <2>. QED  BY <2>1, <2>2
<1>7. PICK g : g = CHOOSE h : Made(h)
  OBVIOUS
<1>8. Made(g)
  BY <1>6, <1>7
<1>9. Expected(b, path, n) = g[k]
  BY <1>1, <1>2, <1>7 DEF Expected, Meant, Both
<1>10. g[0] = v /\ \A i \in 1 .. k : g[i] = Assigned(g[i - 1], n, Meant(path[i]))
  BY <1>8
<1>11. \A i \in 0 .. k : g[i] \in Words
  <2>. DEFINE T == {i \in 0 .. k : g[i] \in Words}
  <2>1. 0 \in T
    BY <1>10
  <2>2. ASSUME NEW i \in 0 .. k - 1, i \in T PROVE i + 1 \in T
    <3>1. i + 1 \in 1 .. k /\ i + 1 - 1 = i
      OBVIOUS
    <3>2. g[i + 1] = Assigned(g[i], n, Meant(path[i + 1]))
      BY <1>10, <3>1
    <3>. QED  BY <2>2, <3>1, <3>2, AssignedWords
  <2>3. 0 .. k \subseteq T
    <3>. HIDE DEF T
    <3>. QED  BY <2>1, <2>2, Upwards
  <2>. QED  BY <2>3
<1>. QED  BY <1>1, <1>2, <1>9, <1>10, <1>11 DEF ExpectedBy

LEMMA ExpectedFirst ==
  ASSUME NEW b, Typed(b), NEW n \in Macro
  PROVE  Expected(b, <<>>, n) = b.body[n].value
<1>1. PICK none : none = <<>> /\ IsSeq(none) /\ Len(none) = 0
  BY NoneIsSeq
<1>2. PICK f : ExpectedBy(f, b, none, n)
  BY <1>1, ExpectedIs
<1>. QED  BY <1>1, <1>2 DEF ExpectedBy

LEMMA ExpectedMore ==
  ASSUME NEW b, Typed(b), NEW n \in Macro, NEW path, IsSeq(path), NEW t
  PROVE  /\ Expected(b, Append(path, t), n) = Assigned(Expected(b, path, n), n, Meant(t))
         /\ Expected(b, path, n) \in Words
<1>0. PICK k, more : k = Len(path) /\ more = Append(path, t)
  OBVIOUS
<1>1. /\ k \in Nat /\ IsSeq(more) /\ Len(more) = k + 1
      /\ \A i \in 1 .. k : more[i] = path[i]
      /\ more[k + 1] = t
  BY <1>0, SeqShape, AppendSeq
<1>2. PICK f : ExpectedBy(f, b, path, n)
  BY ExpectedIs
<1>3. PICK g : ExpectedBy(g, b, more, n)
  BY <1>0, <1>1, ExpectedIs
<1>. DEFINE T == {i \in 0 .. k : f[i] = g[i]}
<1>4. 0 \in T
  BY <1>0, <1>1, <1>2, <1>3 DEF ExpectedBy
<1>5. ASSUME NEW i \in 0 .. k - 1, i \in T PROVE i + 1 \in T
  <2>1. i + 1 \in 1 .. k /\ i + 1 \in 1 .. k + 1 /\ i + 1 - 1 = i
    BY <1>0, <1>1
  <2>2. f[i + 1] = Assigned(f[i], n, Meant(path[i + 1]))
    BY <1>0, <1>1, <1>2, <2>1 DEF ExpectedBy
  <2>3. g[i + 1] = Assigned(g[i], n, Meant(more[i + 1]))
    BY <1>0, <1>1, <1>3, <2>1 DEF ExpectedBy
  <2>. QED  BY <1>0, <1>1, <1>5, <2>1, <2>2, <2>3
<1>6. f[k] = g[k]
  <2>. HIDE DEF T
  <2>1. 0 .. k \subseteq T
    BY <1>0, <1>1, <1>4, <1>5, Upwards
  <2>. QED  BY <1>0, <1>1, <2>1 DEF T
<1>7. g[k + 1] = Assigned(g[k], n, Meant(t))
  <2>1. k + 1 \in 1 .. k + 1 /\ k + 1 - 1 = k
    BY <1>0, <1>1
  <2>. QED  BY <1>0, <1>1, <1>3, <2>1 DEF ExpectedBy
<1>8. Expected(b, path, n) = f[k] /\ f[k] \in Words /\ Expected(b, more, n) = g[k + 1]
  <2>1. k \in 0 .. k
    BY <1>0, <1>1
  <2>. QED  BY <1>0, <1>1, <1>2, <1>3, <2>1 DEF ExpectedBy
<1>. QED  BY <1>0, <1>1, <1>6, <1>7, <1>8
-----------------------------------------------------------------------------
(* The values of the targets that are active *)

\* A sequence of targets.
Targets(s) == IsSeq(s) /\ \A i \in DOMAIN s : s[i] \in Target

\* The macros the command line appends nothing to.
Free(b) == {n \in Macro : ~b.appendix[n].on}

\* Macros that came from b.
Fits(b, x) == Typed(x) /\ \A n \in Macro : x.appendix[n].on = b.appendix[n].on

\* The values the targets of path are to see; those whose conditional values
\* are active say the same.
Right(b, x, path) == \A n \in Free(b) :
    /\ x.body[n].value = Expected(b, path, n)
    /\ Expected(b, x.conditional_targets, n) = Expected(b, path, n)

LEMMA TargetsAppend ==
  ASSUME NEW s, Targets(s), NEW t \in Target
  PROVE  Targets(Append(s, t))
<1>1. PICK k, u : k = Len(s) /\ u = Append(s, t)
  OBVIOUS
<1>2. /\ k \in Nat /\ DOMAIN s = 1 .. k /\ IsSeq(u) /\ Len(u) = k + 1
      /\ \A i \in 1 .. k : u[i] = s[i]
      /\ u[k + 1] = t
  BY <1>1, AppendSeq, SeqShape DEF Targets
<1>3. DOMAIN u = 1 .. k + 1
  BY <1>2, SeqShape
<1>4. \A i \in 1 .. k + 1 : i \in 1 .. k \/ i = k + 1
  BY <1>2
<1>. QED  BY <1>1, <1>2, <1>3, <1>4 DEF Targets

LEMMA NothingAssigned ==
  ASSUME NEW v \in Words, NEW n
  PROVE  Assigned(v, n, <<>>) = v
<1>1. PICK none : none = <<>> /\ IsSeq(none) /\ Len(none) = 0 /\ DOMAIN none = {}
  BY NoneIsSeq
<1>2. Settings(none)
  BY <1>1 DEF Settings
<1>3. PICK f : AssignedBy(f, v, n, none)
  BY <1>2, AssignedIs
<1>. QED  BY <1>1, <1>3 DEF AssignedBy

\* What set_locals() makes of the macros.
LEMMA LocalsAre ==
  ASSUME NEW b, NEW mm, Fits(b, mm), NEW t, mm.held /= t, NEW r, r = set_locals(mm, t)
  PROVE  /\ Fits(b, r.m) /\ r.m.held = mm.held
         /\ \A n \in Free(b) : r.m.body[n].value = Assigned(mm.body[n].value, n, Meant(t))
         /\ r.m.conditional_targets = IF Meant(t) = <<>> THEN mm.conditional_targets
                                      ELSE Append(mm.conditional_targets, t)
<1>1. PICK c : c = add_pattern_conditionals(t) /\ c = Meant(t) /\ Settings(c)
  BY ConditionalsAre, MeantSettings
<1>2. Typed(mm) /\ Shaped(mm)
  BY DEF Fits, Typed
<1>3. Shaped(r.m) /\ r.m.held = mm.held
  BY <1>2, LocalsRestored
<1>4. CASE c = <<>>
  <2>1. r.m = mm
    BY <1>1, <1>4 DEF set_locals
  <2>2. \A n \in Free(b) : Assigned(mm.body[n].value, n, c) = mm.body[n].value
    BY <1>2, <1>4, PlainWords, NothingAssigned DEF Free
  <2>. QED  BY <1>1, <1>4, <2>1, <2>2
<1>5. CASE c /= <<>>
  <2>1. PICK reading, k, d : /\ reading = FALSE /\ k = Len(c)
                             /\ d = AfterEach(mm, c, reading)[k]
    OBVIOUS
  <2>2. /\ Typed(d) /\ Steady(mm, d)
        /\ \A n \in Macro : Plainly(d, n) = Assigned(Plainly(mm, n), n, c)
        /\ \A n \in Macro : ~mm.appendix[n].on => d.appendix[n] = mm.appendix[n]
    <3>1. d = AfterEach(mm, c, reading)[Len(c)] /\ reading \in BOOLEAN
      BY <2>1
    <3>2. /\ Typed(d) /\ Steady(mm, d)
          /\ \A n \in Macro : Plainly(d, n) =
               IF reading /\ mm.body[n].read_only THEN Plainly(mm, n)
               ELSE Assigned(Plainly(mm, n), n, c)
          /\ \A n \in Macro : ~mm.appendix[n].on => d.appendix[n] = mm.appendix[n]
      BY <1>1, <1>2, <3>1, EachSets
    <3>. QED  BY <2>1, <3>2
  <2>3. d.held = mm.held /\ d.conditional_targets = mm.conditional_targets
    <3>1. IsSeq(c) /\ k \in 0 .. Len(c)
      BY <1>1, <2>1, SeqShape DEF Settings
    <3>. QED  BY <1>2, <2>1, <3>1, AfterShaped
  <2>4. PICK list : list = Append(mm.conditional_targets, t)
    OBVIOUS
  <2>5. r.m = [d EXCEPT !.conditional_targets = list]
    <3>1. r.m = [d EXCEPT !.conditional_targets = Append(@, t)]
      BY <1>1, <1>5, <2>1 DEF set_locals
    <3>2. d = [body |-> d.body, appendix |-> d.appendix, env |-> d.env,
               conditional_targets |-> d.conditional_targets, held |-> d.held]
      BY <2>2 DEF Typed, Shaped
    <3>. QED  BY <2>3, <2>4, <3>1, <3>2
  <2>6. /\ r.m.body = d.body /\ r.m.appendix = d.appendix /\ r.m.env = d.env
        /\ r.m.conditional_targets = list
    <3>1. d = [body |-> d.body, appendix |-> d.appendix, env |-> d.env,
               conditional_targets |-> d.conditional_targets, held |-> d.held]
      BY <2>2 DEF Typed, Shaped
    <3>. QED  BY <2>5, <3>1
  <2>7. Fits(b, r.m)
    BY <1>3, <2>2, <2>6 DEF Fits, Typed, Steady
  <2>8. ASSUME NEW n \in Free(b) PROVE r.m.body[n].value = Assigned(mm.body[n].value, n, c)
    <3>1. n \in Macro /\ ~mm.appendix[n].on /\ ~d.appendix[n].on
      BY <2>2, <2>8 DEF Free, Fits, Steady
    <3>. QED  BY <2>2, <2>6, <3>1 DEF Plainly
  <2>. QED  BY <1>1, <1>3, <1>5, <2>4, <2>6, <2>7, <2>8
<1>. QED  BY <1>4, <1>5

\* The values after set_locals() are those the longer path is to see.
LEMMA LocalsRight ==
  ASSUME NEW b, Typed(b), NEW mm, Fits(b, mm), NEW t, mm.held /= t,
         NEW r, r = set_locals(mm, t),
         NEW n \in Free(b), NEW v, mm.body[n].value = v,
         Expected(b, mm.conditional_targets, n) = v
  PROVE  /\ r.m.body[n].value = Assigned(v, n, Meant(t))
         /\ Expected(b, r.m.conditional_targets, n) = Assigned(v, n, Meant(t))
<1>1. /\ r.m.body[n].value = Assigned(v, n, Meant(t))
      /\ r.m.conditional_targets = IF Meant(t) = <<>> THEN mm.conditional_targets
                                   ELSE Append(mm.conditional_targets, t)
  BY LocalsAre
<1>2. PICK list : list = mm.conditional_targets /\ IsSeq(list)
  BY DEF Fits, Typed, Shaped
<1>3. Expected(b, Append(list, t), n) = Assigned(Expected(b, list, n), n, Meant(t))
  BY <1>2, ExpectedMore DEF Free
<1>4. CASE Meant(t) = <<>>
  <2>1. v \in Words
    BY PlainWords DEF Free, Fits
  <2>. QED  BY <1>1, <1>2, <1>4, <2>1, NothingAssigned
<1>5. CASE Meant(t) /= <<>>
  BY <1>1, <1>2, <1>3, <1>5
<1>. QED  BY <1>4, <1>5

LEMMA FitsItself ==
  ASSUME NEW b, Typed(b)
  PROVE  Fits(b, b)
BY DEF Fits

\* set_conditionals() keeps the macros and the targets that are active what
\* they are to be.
LEMMA ActivatedFits ==
  ASSUME NEW b, NEW mm, Fits(b, mm), Targets(mm.conditional_targets),
         NEW targets, Targets(targets),
         NEW after, after = Activated(mm, targets)
  PROVE  \A i \in 0 .. Len(targets) : /\ Fits(b, after[i]) /\ after[i].held = mm.held
                                     /\ Targets(after[i].conditional_targets)
<1>. DEFINE Fine(i) == /\ Fits(b, after[i]) /\ after[i].held = mm.held
                       /\ Targets(after[i].conditional_targets)
            T == {i \in 0 .. Len(targets) : Fine(i)}
<1>1. Len(targets) \in Nat /\ DOMAIN targets = 1 .. Len(targets)
  BY SeqShape DEF Targets
<1>2. /\ after[0] = mm
      /\ \A i \in 1 .. Len(targets) : after[i] = set_locals(after[i - 1], targets[i]).m
  BY ActivatedIs DEF Targets
<1>3. Fine(0)
  BY <1>2
<1>4. ASSUME NEW i \in 0 .. Len(targets) - 1, Fine(i) PROVE Fine(i + 1)
  <2>1. i + 1 \in 1 .. Len(targets) /\ i + 1 - 1 = i
    BY <1>1
  <2>2. PICK x, t, r : /\ x = after[i] /\ t = targets[i + 1] /\ r = set_locals(x, t)
    OBVIOUS
  <2>3. after[i + 1] = r.m /\ t \in Target
    BY <1>1, <1>2, <2>1, <2>2 DEF Targets
  <2>4. Fits(b, x) /\ Targets(x.conditional_targets) /\ x.held = mm.held
    BY <1>4, <2>2
  <2>5. Fits(b, r.m) /\ r.m.held = x.held /\ Targets(r.m.conditional_targets)
    <3>1. CASE x.held = t
      <4>1. r.m = x
        BY <2>2, <3>1 DEF set_locals
      <4>. QED  BY <2>4, <4>1
    <3>2. CASE x.held /= t
      <4>1. /\ Fits(b, r.m) /\ r.m.held = x.held
            /\ r.m.conditional_targets = IF Meant(t) = <<>> THEN x.conditional_targets
                                         ELSE Append(x.conditional_targets, t)
        BY <2>2, <2>4, <3>2, LocalsAre
      <4>2. Targets(Append(x.conditional_targets, t))
        BY <2>3, <2>4, TargetsAppend
      <4>. QED  BY <2>4, <4>1, <4>2
    <3>. QED  BY <3>1, <3>2
  <2>. QED  BY <2>3, <2>4, <2>5
<1>5. 0 .. Len(targets) \subseteq T
  <2>. HIDE DEF Fine
  <2>1. 0 \in T /\ \A i \in 0 .. Len(targets) - 1 : i \in T => i + 1 \in T
    BY <1>1, <1>3, <1>4
  <2>. HIDE DEF T
  <2>. QED  BY <1>1, <2>1, Upwards
<1>. QED  BY <1>5 DEF T, Fine

\* When nothing is active, set_conditionals() gives the values that the
\* targets of the list are to see.
LEMMA ActivatedRight ==
  ASSUME NEW b, Typed(b), NEW mm, Fits(b, mm), mm.body = b.body,
         mm.conditional_targets = <<>>, mm.held \notin Target,
         NEW targets, Targets(targets),
         NEW after, after = Activated(mm, targets)
  PROVE  Right(b, after[Len(targets)], targets)
<1>1. PICK k \in Nat : k = Len(targets) /\ DOMAIN targets = 1 .. k
  BY SeqShape DEF Targets
<1>2. /\ after[0] = mm
      /\ \A i \in 1 .. k : after[i] = set_locals(after[i - 1], targets[i]).m
  BY <1>1, ActivatedIs DEF Targets
<1>3. \A i \in 0 .. k : Fits(b, after[i]) /\ after[i].held = mm.held
  <2>1. Targets(mm.conditional_targets)
    BY NoneIsSeq DEF Targets
  <2>. QED  BY <1>1, <2>1, ActivatedFits
<1>4. SUFFICES ASSUME NEW n \in Free(b)
               PROVE  /\ after[k].body[n].value = Expected(b, targets, n)
                      /\ Expected(b, after[k].conditional_targets, n) = Expected(b, targets, n)
  BY <1>1 DEF Right
<1>5. PICK f : ExpectedBy(f, b, targets, n)
  BY ExpectedIs DEF Free, Targets
<1>6. /\ f[0] = b.body[n].value /\ Expected(b, targets, n) = f[k]
      /\ \A i \in 1 .. k : f[i] = Assigned(f[i - 1], n, Meant(targets[i]))
  BY <1>1, <1>5 DEF ExpectedBy
<1>. DEFINE Fine(i) == /\ after[i].body[n].value = f[i]
                       /\ Expected(b, after[i].conditional_targets, n) = f[i]
            T == {i \in 0 .. k : Fine(i)}
<1>7. Fine(0)
  <2>1. Expected(b, <<>>, n) = b.body[n].value
    BY ExpectedFirst DEF Free
  <2>. QED  BY <1>2, <1>6, <2>1
<1>8. ASSUME NEW i \in 0 .. k - 1, Fine(i) PROVE Fine(i + 1)
  <2>1. i + 1 \in 1 .. k /\ i + 1 - 1 = i /\ i \in 0 .. k
    OBVIOUS
  <2>2. PICK x, t, r, v : /\ x = after[i] /\ t = targets[i + 1] /\ r = set_locals(x, t)
                          /\ v = f[i]
    OBVIOUS
  <2>3. after[i + 1] = r.m /\ t \in Target /\ f[i + 1] = Assigned(v, n, Meant(t))
    BY <1>1, <1>2, <1>6, <2>1, <2>2 DEF Targets
  <2>4. Fits(b, x) /\ x.held /= t
    BY <1>3, <2>1, <2>2, <2>3
  <2>5. x.body[n].value = v /\ Expected(b, x.conditional_targets, n) = v
    BY <1>8, <2>2
  <2>6. /\ r.m.body[n].value = Assigned(v, n, Meant(t))
        /\ Expected(b, r.m.conditional_targets, n) = Assigned(v, n, Meant(t))
    BY <2>2, <2>4, <2>5, LocalsRight
  <2>. QED  BY <2>3, <2>6
<1>9. Fine(k)
  <2>. HIDE DEF Fine
  <2>1. 0 \in T /\ \A i \in 0 .. k - 1 : i \in T => i + 1 \in T
    BY <1>7, <1>8
  <2>. HIDE DEF T
  <2>2. 0 .. k \subseteq T
    BY <2>1, Upwards
  <2>. QED  BY <2>2 DEF T
<1>. QED  BY <1>6, <1>9
-----------------------------------------------------------------------------
(* What restoring values leaves alone *)

\* y has what x is to append, and its environment.
Left(x, y) ==
    /\ y = [body |-> y.body, appendix |-> x.appendix, env |-> x.env,
            conditional_targets |-> y.conditional_targets, held |-> y.held]
    /\ x = [body |-> x.body, appendix |-> x.appendix, env |-> x.env,
            conditional_targets |-> x.conditional_targets, held |-> x.held]

LEMMA LeftOn ==
  ASSUME NEW x, NEW y, NEW z, Left(x, y), Left(y, z)
  PROVE  Left(x, z)
<1>1. y.appendix = x.appendix /\ y.env = x.env
  BY DEF Left
<1>. QED  BY <1>1 DEF Left

LEMMA PutLeaves ==
  ASSUME NEW x, Left(x, x), NEW n, NEW v
  PROVE  Left(x, Put(x, n, v))
<1>1. PICK b : b = [x.body EXCEPT ![n] = v]
  OBVIOUS
<1>2. Put(x, n, v) = [body |-> b, appendix |-> x.appendix, env |-> x.env,
                      conditional_targets |-> x.conditional_targets, held |-> x.held]
  BY <1>1 DEF Left, Put
<1>. QED  BY <1>2 DEF Left

LEMMA BackwardsLeaves ==
  ASSUME NEW mm, Left(mm, mm), NEW list, IsSeq(list), NEW old
  PROVE  Left(mm, Backwards(mm, list, old))
<1>1. PICK f : PutEach(f, mm, list, old)
  BY BackwardsIs
<1>2. PICK k \in Nat : k = Len(list)
  BY SeqShape
<1>. DEFINE Fine(i) == Left(mm, f[i])
            T == {i \in 0 .. k : Fine(i)}
<1>3. Fine(0)
  BY <1>1 DEF PutEach
<1>4. ASSUME NEW i \in 0 .. k - 1, Fine(i) PROVE Fine(i + 1)
  <2>1. i + 1 \in 1 .. k /\ i + 1 - 1 = i
    OBVIOUS
  <2>2. PICK x, n, v : x = f[i] /\ f[i + 1] = Put(x, n, v)
    BY <1>1, <1>2, <2>1 DEF PutEach
  <2>3. Left(mm, x) /\ Left(x, x)
    BY <1>4, <2>2 DEF Left
  <2>4. Left(x, Put(x, n, v))
    BY <2>3, PutLeaves
  <2>5. Left(mm, Put(x, n, v))
    BY <2>3, <2>4, LeftOn
  <2>. QED  BY <2>2, <2>5
<1>5. Fine(k)
  <2>. HIDE DEF Fine
  <2>1. 0 \in T /\ \A i \in 0 .. k - 1 : i \in T => i + 1 \in T
    BY <1>3, <1>4
  <2>. HIDE DEF T
  <2>2. 0 .. k \subseteq T
    BY <2>1, Upwards
  <2>. QED  BY <2>2 DEF T
<1>. QED  BY <1>1, <1>2, <1>5 DEF PutEach

LEMMA ResetLocalsLeaves ==
  ASSUME NEW mm, Left(mm, mm), NEW t, NEW old
  PROVE  Left(mm, reset_locals(mm, t, old))
<1>1. PICK c : c = add_pattern_conditionals(t) /\ IsSeq(c)
  BY ConditionalsSeq
<1>2. PICK z : z = Backwards(mm, c, old) /\ Left(mm, z)
  BY <1>1, BackwardsLeaves
<1>3. PICK list, w : /\ list = Front(z.conditional_targets)
                     /\ w = [z EXCEPT !.conditional_targets = list]
  OBVIOUS
<1>4. w = [body |-> z.body, appendix |-> mm.appendix, env |-> mm.env,
           conditional_targets |-> list, held |-> z.held]
  BY <1>2, <1>3 DEF Left
<1>5. Left(mm, w)
  BY <1>4 DEF Left
<1>6. w = [z EXCEPT !.conditional_targets = Front(@)]
  BY <1>2, <1>3 DEF Left
<1>. QED  BY <1>1, <1>2, <1>5, <1>6 DEF reset_locals

LEMMA ResetLeaves ==
  ASSUME NEW mm, Left(mm, mm), NEW targets, IsSeq(targets), NEW old
  PROVE  Left(mm, reset_conditionals(mm, targets, old))
<1>1. PICK f : ResetEach(f, mm, targets, old)
  BY ResetIs
<1>2. PICK k \in Nat : k = Len(targets)
  BY SeqShape
<1>. DEFINE Fine(i) == Left(mm, f[i])
            T == {i \in 0 .. k : Fine(i)}
<1>3. Fine(0)
  BY <1>1 DEF ResetEach
<1>4. ASSUME NEW i \in 0 .. k - 1, Fine(i) PROVE Fine(i + 1)
  <2>1. i + 1 \in 1 .. k /\ i + 1 - 1 = i
    OBVIOUS
  <2>2. PICK x, t, o : x = f[i] /\ f[i + 1] = reset_locals(x, t, o)
    BY <1>1, <1>2, <2>1 DEF ResetEach
  <2>3. Left(mm, x) /\ Left(x, x)
    BY <1>4, <2>2 DEF Left
  <2>4. Left(x, reset_locals(x, t, o))
    BY <2>3, ResetLocalsLeaves
  <2>5. Left(mm, reset_locals(x, t, o))
    BY <2>3, <2>4, LeftOn
  <2>. QED  BY <2>2, <2>5
<1>5. Fine(k)
  <2>. HIDE DEF Fine
  <2>1. 0 \in T /\ \A i \in 0 .. k - 1 : i \in T => i + 1 \in T
    BY <1>3, <1>4
  <2>. HIDE DEF T
  <2>2. 0 .. k \subseteq T
    BY <2>1, Upwards
  <2>. QED  BY <2>2 DEF T
<1>. QED  BY <1>1, <1>2, <1>5 DEF ResetEach

\* What the return of a call leaves alone.
LEMMA UndoneLeaves ==
  ASSUME NEW mm, Left(mm, mm), NEW f, IsSeq(f.again), NEW last
  PROVE  Left(mm, Undone(mm, f, last))
<1>1. PICK x : x = reset_locals(mm, f.target, f.old) /\ Left(mm, x)
  BY ResetLocalsLeaves
<1>2. PICK h, y : h = (IF last THEN NoTarget ELSE x.held) /\ y = [x EXCEPT !.held = h]
  OBVIOUS
<1>3. y = [body |-> x.body, appendix |-> mm.appendix, env |-> mm.env,
           conditional_targets |-> x.conditional_targets, held |-> h]
  BY <1>1, <1>2 DEF Left
<1>4. Left(mm, y) /\ Left(y, y)
  BY <1>1, <1>3 DEF Left
<1>5. Left(y, reset_conditionals(y, f.again, f.old_again))
  BY <1>4, ResetLeaves
<1>6. Undone(mm, f, last) = reset_conditionals(y, f.again, f.old_again)
  BY <1>1, <1>2 DEF Undone
<1>. QED  BY <1>4, <1>5, <1>6, LeftOn

\* Macros with the values of one and what is to be appended of another.
LEMMA FitsBack ==
  ASSUME NEW b, NEW x, Fits(b, x), NEW z, Shaped(z), Left(x, z),
         z.body \in [Macro -> [value : Words, read_only : BOOLEAN, exported : BOOLEAN]]
  PROVE  Fits(b, z)
<1>1. z.appendix = x.appendix /\ z.env = x.env
  BY DEF Left
<1>. QED  BY <1>1 DEF Fits, Typed
-----------------------------------------------------------------------------
(* A call of doname() activates what its target is to see *)

\* No member of the record changes but "held".
LEMMA HeldFits ==
  ASSUME NEW b, NEW x, Fits(b, x), NEW h, NEW u, u = [x EXCEPT !.held = h]
  PROVE  /\ Fits(b, u) /\ u.held = h /\ u.body = x.body
         /\ u.conditional_targets = x.conditional_targets
<1>1. u = [body |-> x.body, appendix |-> x.appendix, env |-> x.env,
           conditional_targets |-> x.conditional_targets, held |-> h]
  BY DEF Fits, Typed, Shaped
<1>2. Shaped(u)
  BY <1>1 DEF Fits, Typed, Shaped
<1>. QED  BY <1>1, <1>2 DEF Fits, Typed

LEMMA CallFits ==
  ASSUME NEW b, NEW mm, Fits(b, mm), Targets(mm.conditional_targets), NEW t \in Target,
         NEW again, Targets(again), NEW held \in BOOLEAN,
         NEW context, context = set_conditionals(mm, again),
         NEW own, own = set_locals([context.m EXCEPT !.held = IF held THEN t ELSE @], t)
  PROVE  /\ Fits(b, own.m) /\ Targets(own.m.conditional_targets)
         /\ own.m.held = IF held THEN t ELSE mm.held
<1>1. PICK k \in Nat : k = Len(again)
  BY SeqShape DEF Targets
<1>2. PICK after, c : after = Activated(mm, again) /\ c = after[k]
  OBVIOUS
<1>3. context.m = c
  BY <1>1, <1>2 DEF set_conditionals
<1>4. Fits(b, c) /\ c.held = mm.held /\ Targets(c.conditional_targets)
  BY <1>1, <1>2, ActivatedFits
<1>5. PICK h, x : h = (IF held THEN t ELSE c.held) /\ x = [c EXCEPT !.held = h]
  OBVIOUS
<1>6. own = set_locals(x, t)
  BY <1>3, <1>5
<1>7. /\ Fits(b, x) /\ x.held = h /\ x.body = c.body
      /\ x.conditional_targets = c.conditional_targets
  BY <1>4, <1>5, HeldFits
<1>8. CASE h = t
  <2>1. x.held = t
    BY <1>7, <1>8
  <2>2. own.m = x
    <3>1. set_locals(x, t) = [m |-> x, old |-> <<>>]
      BY <2>1 DEF set_locals
    <3>. QED  BY <1>6, <3>1
  <2>. QED  BY <1>4, <1>5, <1>7, <2>2
<1>9. CASE h /= t
  <2>1. /\ Fits(b, own.m) /\ own.m.held = x.held
        /\ own.m.conditional_targets = IF Meant(t) = <<>> THEN x.conditional_targets
                                       ELSE Append(x.conditional_targets, t)
    BY <1>6, <1>7, <1>9, LocalsAre
  <2>2. Targets(Append(x.conditional_targets, t))
    BY <1>4, <1>7, TargetsAppend
  <2>. QED  BY <1>4, <1>5, <1>7, <2>1, <2>2
<1>. QED  BY <1>8, <1>9

\* The call of a target that nobody has considered yet.
LEMMA FirstCallRight ==
  ASSUME NEW b, Typed(b), NEW mm, Fits(b, mm), NEW path, IsSeq(path), Right(b, mm, path),
         NEW t \in Target, mm.held /= t,
         NEW none, none = <<>>, NEW held \in BOOLEAN, ~held,
         NEW context, context = set_conditionals(mm, none),
         NEW own, own = set_locals([context.m EXCEPT !.held = IF held THEN t ELSE @], t)
  PROVE  Right(b, own.m, Append(path, t))
<1>1. PICK after : IsSeq(none) /\ Len(none) = 0 /\ after = Activated(mm, none)
  BY NoneIsSeq
<1>2. context.m = after[0] /\ after[0] = mm
  BY <1>1, ActivatedIs DEF set_conditionals
<1>3. [mm EXCEPT !.held = mm.held] = mm
  BY DEF Fits, Typed, Shaped
<1>4. own = set_locals(mm, t)
  BY <1>2, <1>3
<1>5. ASSUME NEW n \in Free(b)
      PROVE  /\ own.m.body[n].value = Expected(b, Append(path, t), n)
             /\ Expected(b, own.m.conditional_targets, n) = Expected(b, Append(path, t), n)
  <2>1. PICK v : /\ v = Expected(b, path, n) /\ mm.body[n].value = v
                 /\ Expected(b, mm.conditional_targets, n) = v
    BY DEF Right
  <2>2. /\ own.m.body[n].value = Assigned(v, n, Meant(t))
        /\ Expected(b, own.m.conditional_targets, n) = Assigned(v, n, Meant(t))
    BY <1>4, <2>1, LocalsRight
  <2>3. Expected(b, Append(path, t), n) = Assigned(v, n, Meant(t))
    BY <2>1, ExpectedMore DEF Free
  <2>. QED  BY <2>2, <2>3
<1>. QED  BY <1>5 DEF Right

\* The call of a target that is resumed with the values it was put aside with.
LEMMA ResumedRight ==
  ASSUME NEW b, Typed(b), NEW mm, Fits(b, mm), mm.body = b.body,
         mm.conditional_targets = <<>>, mm.held \notin Target,
         NEW path, NEW t \in Target, NEW again, Targets(again),
         \A n \in Free(b) : Expected(b, again, n) = Expected(b, path, n),
         NEW held \in BOOLEAN, held,
         NEW context, context = set_conditionals(mm, again),
         NEW own, own = set_locals([context.m EXCEPT !.held = IF held THEN t ELSE @], t)
  PROVE  Right(b, own.m, path)
<1>1. PICK k \in Nat : k = Len(again)
  BY SeqShape DEF Targets
<1>2. PICK after, c : after = Activated(mm, again) /\ c = after[k]
  OBVIOUS
<1>3. context.m = c
  BY <1>1, <1>2 DEF set_conditionals
<1>4. Fits(b, c)
  <2>1. Targets(mm.conditional_targets)
    BY NoneIsSeq DEF Targets
  <2>. QED  BY <1>1, <1>2, <2>1, ActivatedFits
<1>5. Right(b, c, again)
  BY <1>1, <1>2, ActivatedRight
<1>6. PICK x : x = [c EXCEPT !.held = t]
  OBVIOUS
<1>7. /\ x.held = t /\ x.body = c.body /\ x.conditional_targets = c.conditional_targets
  BY <1>4, <1>6, HeldFits
<1>8. own = set_locals(x, t)
  BY <1>3, <1>6
<1>9. own.m = x
  BY <1>7, <1>8 DEF set_locals
<1>. QED  BY <1>5, <1>7, <1>9 DEF Right

-----------------------------------------------------------------------------
(* What holds of the links of the chain, of the calls and of the running list *)

Bodies == [Macro -> [value : Words, read_only : BOOLEAN, exported : BOOLEAN]]

\* The dependencies before the n-th, and all of them, have been considered.
Looked(s, t, n) == \A j \in DOMAIN Deps[t] : j < n => s[Deps[t][j]] /= "none"
AllLooked(s, t) == \A j \in DOMAIN Deps[t] : s[Deps[t][j]] /= "none"

\* The targets of which RecipeSees says nothing.
Spared(r, g) == r \cup {t \in Alone : g.jobs /= 1}

LinkFine(s, x) ==
    /\ x.body \in Bodies /\ Targets(x.conditional_targets)
    /\ x.held \in Target => s[x.held] /= "none"

FrameFine(b, s, sp, f, x) ==
    /\ f.target \in Target /\ IsSeq(f.path) /\ f.next \in Nat /\ Targets(f.again)
    /\ Looked(s, f.target, f.next)
    /\ Right(b, x, f.path) \/ (f.target \in sp /\ AllLooked(s, f.target))

EntryFine(b, s, sp, g, e) ==
    /\ e.target \in Target /\ IsSeq(e.path) /\ Targets(e.conditional_targets)
    /\ AllLooked(s, e.target)
    /\ e.kind = "running" => g.jobs > 1
    /\ e.kind = "serial" => e.target \in sp
    /\ \/ e.target \in sp
       \/ \A n \in Free(b) : Expected(b, e.conditional_targets, n) = Expected(b, e.path, n)

SeenRight(b, sp, w) == \A t \in Target \ sp : w[t] /= <<>> =>
    \A n \in Free(b) : w[t].value[n] = Expected(b, w[t].path, n)

\* A target that has been considered stays so.
Grown(s, u) == \A t \in Target : s[t] /= "none" => u[t] /= "none"

LEMMA DepsTargets ==
  ASSUME NEW t \in Target
  PROVE  /\ IsSeq(Deps[t]) /\ DOMAIN Deps[t] = 1 .. Len(Deps[t]) /\ Len(Deps[t]) \in Nat
         /\ \A j \in DOMAIN Deps[t] : Deps[t][j] \in Target
<1>1. PICK d : d = Deps[t] /\ d \in Seq(Target)
  BY StatementAssumption
<1>. QED  BY <1>1, SeqIs, SeqShape, LenProperties, ElementOfSeq

LEMMA FineStays ==
  ASSUME NEW s, NEW u, Grown(s, u), NEW sp, NEW sq, sp \subseteq sq, NEW b, NEW g
  PROVE  /\ \A x : LinkFine(s, x) => LinkFine(u, x)
         /\ \A f, x : FrameFine(b, s, sp, f, x) => FrameFine(b, u, sq, f, x)
         /\ \A e : EntryFine(b, s, sp, g, e) => EntryFine(b, u, sq, g, e)
         /\ \A w : SeenRight(b, sp, w) => SeenRight(b, sq, w)
<1>1. \A t \in Target : AllLooked(s, t) => AllLooked(u, t)
  BY DepsTargets DEF AllLooked, Grown
<1>2. \A t \in Target : \A n : Looked(s, t, n) => Looked(u, t, n)
  BY DepsTargets DEF Looked, Grown
<1>3. \A x : LinkFine(s, x) => LinkFine(u, x)
  BY DEF LinkFine, Grown
<1>4. \A f, x : FrameFine(b, s, sp, f, x) => FrameFine(b, u, sq, f, x)
  BY <1>1, <1>2 DEF FrameFine
<1>5. \A e : EntryFine(b, s, sp, g, e) => EntryFine(b, u, sq, g, e)
  BY <1>1 DEF EntryFine
<1>6. \A w : SeenRight(b, sp, w) => SeenRight(b, sq, w)
  BY DEF SeenRight
<1>. QED  BY <1>3, <1>4, <1>5, <1>6

\* The state of one target is set.
LEMMA StateSet ==
  ASSUME NEW s, s = [x \in Target |-> s[x]], NEW t, NEW v, v /= "none",
         NEW u, u = [s EXCEPT ![t] = v]
  PROVE  u = [x \in Target |-> u[x]] /\ Grown(s, u) /\ (t \in Target => u[t] = v)
BY DEF Grown
-----------------------------------------------------------------------------
(* What recipes see: the invariant *)

ChainFine(chain) ==
    /\ \A k \in 0 .. Len(stack) : LinkFine(state, chain[k])
    /\ \A k \in 1 .. Len(stack) :
         FrameFine(base, state, Spared(redone, given), stack[k], chain[k])

BuildFine ==
    /\ Fits(base, m)
    /\ \A i \in DOMAIN queue : EntryFine(base, state, Spared(redone, given), given, queue[i])
    /\ SeenRight(base, Spared(redone, given), seen)
    /\ \E chain : Chain(chain) /\ ChainFine(chain)

SeesInv ==
    /\ RestoredInv /\ PrecedenceInv
    /\ state = [t \in Target |-> state[t]] /\ seen = [t \in Target |-> seen[t]]
    /\ phase /= "build" => \A t \in Target : seen[t] = <<>>
    /\ phase = "build" => BuildFine

LEMMA SeesSound ==
  ASSUME SeesInv
  PROVE  RecipeSees
<1>. SUFFICES ASSUME NEW t \in Target \ redone, seen[t] /= <<>>, t \in Alone => given.jobs = 1,
                     NEW n \in Macro, ~base.appendix[n].on
              PROVE  seen[t].value[n] = Expected(base, seen[t].path, n)
  BY DEF RecipeSees
<1>1. phase = "build" /\ SeenRight(base, Spared(redone, given), seen)
  BY DEF SeesInv, BuildFine
<1>2. t \in Target \ Spared(redone, given) /\ n \in Free(base)
  BY DEF Spared, Free
<1>. QED  BY <1>1, <1>2 DEF SeenRight

LEMMA SeesInit ==
  ASSUME Init
  PROVE  SeesInv
<1>1. RestoredInv /\ PrecedenceInv
  BY RestoredInit, PrecedenceInit
<1>2. /\ phase = "defaults" /\ state = [t \in Target |-> "none"]
      /\ seen = [t \in Target |-> <<>>]
  BY DEF Init
<1>. QED  BY <1>1, <1>2 DEF SeesInv

\* What the macros are when no call is active.
LEMMA AtRest ==
  ASSUME SeesInv, phase = "build", stack = <<>>
  PROVE  /\ m.body = base.body /\ m.conditional_targets = <<>> /\ m.held \notin Target
         /\ Typed(base) /\ Fits(base, m) /\ Right(base, m, <<>>)
<1>1. PICK chain : Chain(chain)
  BY DEF SeesInv, BuildFine
<1>2. Len(stack) = 0
  BY NoneIsSeq
<1>3. m.body = base.body /\ m.conditional_targets = <<>> /\ m.held = NoTarget
  BY <1>1, <1>2 DEF Chain, AtFirst, Like, Same
<1>4. Typed(base) /\ Fits(base, m)
  BY DEF SeesInv, BuildFine, PrecedenceInv, Valued
<1>5. \A n \in Free(base) : Expected(base, <<>>, n) = base.body[n].value
  BY <1>4, ExpectedFirst DEF Free
<1>. QED  BY <1>3, <1>4, <1>5, StatementAssumption DEF Right

\* A call of doname(), of a target that is to see what path says.
LEMMA CallSees ==
  ASSUME SeesInv, phase = "build", NEW t \in Target, NEW path, IsSeq(path),
         NEW again, Targets(again), NEW held \in BOOLEAN, stack /= <<>> => ~held,
         Call(t, path, again, held), UNCHANGED <<given, base, redone>>,
         \/ Right(base, m', path)
         \/ t \in Spared(redone, given) /\ AllLooked(state, t)
  PROVE  /\ Fits(base, m') /\ Grown(state, state') /\ state' = [x \in Target |-> state'[x]]
         /\ \E new : Chain(new)' /\ ChainFine(new)'
<1>1. PICK chain : Chain(chain) /\ ChainFine(chain)
  BY DEF SeesInv, BuildFine
<1>2. IsSeq(stack) /\ IsSeq(again)
  BY DEF SeesInv, RestoredInv, ShapeInv, Targets
<1>3. PICK n \in Nat : n = Len(stack)
  BY <1>2, SeqShape
<1>4. PICK new : Chain(new)' /\ \A k \in 0 .. n : new[k] = chain[k]
  <2>1. RestoredInv /\ UNCHANGED base
    BY DEF SeesInv
  <2>2. \E new : Chain(new)' /\ \A k \in 0 .. Len(stack) : new[k] = chain[k]
    BY <1>1, <1>2, <2>1, CallRestored
  <2>. QED  BY <1>3, <2>2
<1>5. PICK context, own :
        /\ context = set_conditionals(m, again)
        /\ own = set_locals([context.m EXCEPT !.held = IF held THEN t ELSE @], t)
  OBVIOUS
<1>6. PICK f : f = [target |-> t, path |-> path, next |-> 1, waits |-> FALSE,
                    old |-> own.old, again |-> again, old_again |-> context.old]
  OBVIOUS
<1>7. m' = own.m /\ stack' = Append(stack, f) /\ state' = [state EXCEPT ![t] = "in_progress"]
  BY <1>5, <1>6 DEF Call
<1>8. /\ Len(stack') = n + 1 /\ stack'[n + 1] = f
      /\ \A k \in 1 .. n : stack'[k] = stack[k]
  BY <1>2, <1>3, <1>7, AppendSeq
<1>9. Like(m, chain[n]) /\ Like(m', new[n + 1])
  BY <1>1, <1>3, <1>4, <1>8 DEF Chain
<1>10. LinkFine(state, chain[n]) /\ n \in 0 .. n
  BY <1>1, <1>3 DEF ChainFine
<1>11. Fits(base, m) /\ Targets(m.conditional_targets)
  BY <1>9, <1>10 DEF SeesInv, BuildFine, LinkFine, Like
<1>12. /\ Fits(base, m') /\ Targets(m'.conditional_targets)
       /\ m'.held = IF held THEN t ELSE m.held
  <2>1. PICK b, mm : b = base /\ mm = m
    OBVIOUS
  <2>2. /\ Fits(b, own.m) /\ Targets(own.m.conditional_targets)
        /\ own.m.held = IF held THEN t ELSE mm.held
    BY <1>5, <1>11, <2>1, CallFits
  <2>. QED  BY <1>7, <2>1, <2>2
<1>13. PICK s, u : s = state /\ u = state'
  OBVIOUS
<1>14. u = [x \in Target |-> u[x]] /\ Grown(s, u) /\ u[t] /= "none"
  <2>1. s = [x \in Target |-> s[x]] /\ u = [s EXCEPT ![t] = "in_progress"]
    BY <1>7, <1>13 DEF SeesInv
  <2>2. PICK v : v = "in_progress" /\ v /= "none"
    OBVIOUS
  <2>. QED  BY <2>1, <2>2, StateSet
<1>15. PICK b, sp : b = base /\ sp = Spared(redone, given)
  OBVIOUS
<1>16. /\ \A x : LinkFine(s, x) => LinkFine(u, x)
       /\ \A g, x : FrameFine(b, s, sp, g, x) => FrameFine(b, u, sp, g, x)
  BY <1>14, FineStays
<1>17. LinkFine(u, new[n + 1])
  <2>1. new[n + 1].body \in Bodies /\ Targets(new[n + 1].conditional_targets)
    BY <1>9, <1>12 DEF Like, Same, Fits, Typed, Bodies
  <2>2. new[n + 1].held = IF held THEN t ELSE chain[n].held
    BY <1>9, <1>12 DEF Like, Same
  <2>3. LinkFine(u, chain[n])
    BY <1>10, <1>13, <1>16
  <2>. QED  BY <1>14, <2>1, <2>2, <2>3 DEF LinkFine
<1>18. FrameFine(b, u, sp, f, new[n + 1])
  <2>1. f.target = t /\ f.path = path /\ f.next = 1 /\ f.again = again
    BY <1>6
  <2>2. Looked(u, t, 1)
    BY DepsTargets DEF Looked
  <2>3. Right(b, new[n + 1], path) \/ (t \in sp /\ AllLooked(u, t))
    <3>1. CASE Right(base, m', path)
      BY <1>9, <1>15, <3>1 DEF Right, Like, Same
    <3>2. CASE t \in Spared(redone, given) /\ AllLooked(state, t)
      BY <1>13, <1>14, <1>15, <3>2, DepsTargets DEF AllLooked, Grown
    <3>. QED  BY <3>1, <3>2
  <2>. QED  BY <2>1, <2>2, <2>3 DEF FrameFine
<1>19. ChainFine(new)'
  <2>1. base' = b /\ Spared(redone, given)' = sp /\ state' = u
    BY <1>13, <1>15 DEF Spared
  <2>2. ASSUME NEW k \in 0 .. n + 1 PROVE LinkFine(u, new[k])
    <3>1. CASE k = n + 1
      BY <1>17, <3>1
    <3>2. CASE k \in 0 .. n
      BY <1>1, <1>3, <1>4, <1>13, <1>16, <3>2 DEF ChainFine
    <3>. QED  BY <3>1, <3>2
  <2>3. ASSUME NEW k \in 1 .. n + 1 PROVE FrameFine(b, u, sp, stack'[k], new[k])
    <3>1. CASE k = n + 1
      BY <1>8, <1>18, <3>1
    <3>2. CASE k \in 1 .. n
      <4>1. FrameFine(b, s, sp, stack[k], chain[k]) /\ k \in 0 .. n
        BY <1>1, <1>3, <1>13, <1>15, <3>2 DEF ChainFine
      <4>. QED  BY <1>4, <1>8, <1>16, <3>2, <4>1
    <3>. QED  BY <3>1, <3>2
  <2>. QED  BY <1>8, <2>1, <2>2, <2>3 DEF ChainFine
<1>. QED  BY <1>4, <1>12, <1>13, <1>14, <1>19

\* A call leaves the running list and what the recipes saw as they were.
LEMMA CalledSees ==
  ASSUME SeesInv, phase = "build", RestoredInv', PrecedenceInv',
         UNCHANGED <<phase, given, base, redone, seen>>,
         NEW q, IsSeq(q), queue' = q, \A i \in DOMAIN q : \E j \in DOMAIN queue : q[i] = queue[j],
         Fits(base, m'), Grown(state, state'), state' = [x \in Target |-> state'[x]],
         \E new : Chain(new)' /\ ChainFine(new)'
  PROVE  SeesInv'
<1>1. PICK b, sp, g, s, u : /\ b = base /\ sp = Spared(redone, given) /\ g = given
                            /\ s = state /\ u = state'
  OBVIOUS
<1>2. \A e : EntryFine(b, s, sp, g, e) => EntryFine(b, u, sp, g, e)
  BY <1>1, FineStays
<1>3. /\ \A j \in DOMAIN queue : EntryFine(b, s, sp, g, queue[j])
      /\ SeenRight(b, sp, seen)
  BY <1>1 DEF SeesInv, BuildFine
<1>4. \A i \in DOMAIN q : EntryFine(b, u, sp, g, q[i])
  BY <1>2, <1>3
<1>5. base' = b /\ Spared(redone, given)' = sp /\ state' = u /\ given' = g
  BY <1>1 DEF Spared
<1>6. BuildFine'
  BY <1>3, <1>4, <1>5 DEF BuildFine
<1>. QED  BY <1>6 DEF SeesInv

LEMMA ConcatOne ==
  ASSUME NEW p, IsSeq(p), NEW t
  PROVE  p \o <<t>> = Append(p, t) /\ IsSeq(Append(p, t))
<1>1. PICK S : S = {p[i] : i \in DOMAIN p} \cup {t} /\ p \in Seq(S) /\ t \in S
  <2>1. PICK R, S : R = {p[i] : i \in DOMAIN p} /\ S = R \cup {t} /\ p \in Seq(R)
    BY DEF IsSeq
  <2>2. p \in Seq(S)
    <3>1. p \in [1 .. Len(p) -> R]
      BY <2>1, LenProperties
    <3>. QED  BY <2>1, <3>1
  <2>. QED  BY <2>1, <2>2
<1>2. p \o <<t>> = Append(p, t)
  BY <1>1
<1>. QED  BY <1>2, AppendSeq

\* What is active when a target is considered for the first time.
LEMMA Above ==
  ASSUME SeesInv, NEW t \in Target, Consider(t)
  PROVE  \E above : /\ IsSeq(above) /\ Right(base, m, above) /\ m.held /= t
                    /\ Call(t, above \o <<t>>, <<>>, FALSE)
<1>1. phase = "build" /\ state[t] = "none"
  BY DEF Consider
<1>2. CASE stack = <<>>
  <2>1. Right(base, m, <<>>) /\ m.held /= t
    BY <1>1, <1>2, AtRest
  <2>2. Call(t, <<>> \o <<t>>, <<>>, FALSE)
    BY <1>2 DEF Consider
  <2>. QED  BY <2>1, <2>2, NoneIsSeq
<1>3. CASE stack /= <<>>
  <2>1. PICK n \in Nat : n = Len(stack) /\ n /= 0
    BY <1>3, SeqShape DEF SeesInv, RestoredInv, ShapeInv
  <2>2. PICK f : f = stack[n] /\ f = Top
    BY <2>1 DEF Top, Last
  <2>3. /\ Call(t, f.path \o <<t>>, <<>>, FALSE)
        /\ f.next \in DOMAIN Deps[f.target] /\ Deps[f.target][f.next] = t
    BY <1>3, <2>2 DEF Consider
  <2>4. PICK chain : Chain(chain) /\ ChainFine(chain)
    BY <1>1 DEF SeesInv, BuildFine
  <2>5. /\ Like(m, chain[n]) /\ LinkFine(state, chain[n])
        /\ FrameFine(base, state, Spared(redone, given), f, chain[n])
    <3>1. n \in 0 .. n /\ n \in 1 .. n
      BY <2>1
    <3>. QED  BY <2>1, <2>2, <2>4, <3>1 DEF Chain, ChainFine
  <2>6. ~AllLooked(state, f.target)
    BY <1>1, <2>3 DEF AllLooked
  <2>7. IsSeq(f.path) /\ Right(base, chain[n], f.path)
    BY <2>5, <2>6 DEF FrameFine
  <2>8. Right(base, m, f.path) /\ m.held /= t
    BY <1>1, <2>5, <2>7 DEF Right, Like, Same, LinkFine
  <2>. QED  BY <2>3, <2>7, <2>8
<1>. QED  BY <1>2, <1>3

LEMMA ConsiderSees ==
  ASSUME SeesInv, NEW t \in Target, Consider(t), RestoredInv', PrecedenceInv'
  PROVE  SeesInv'
<1>1. phase = "build" /\ UNCHANGED <<phase, given, queue, redone, seen, base>>
  BY DEF Consider
<1>2. PICK above : /\ IsSeq(above) /\ Right(base, m, above) /\ m.held /= t
                   /\ Call(t, above \o <<t>>, <<>>, FALSE)
  BY Above
<1>3. PICK path, again, held : path = Append(above, t) /\ again = <<>> /\ held = FALSE
  OBVIOUS
<1>4. IsSeq(path) /\ Call(t, path, again, held) /\ held \in BOOLEAN /\ ~held /\ Targets(again)
  <2>1. above \o <<t>> = path /\ IsSeq(path)
    BY <1>2, <1>3, ConcatOne
  <2>2. PICK p : p = above \o <<t>>
    OBVIOUS
  <2>3. Call(t, p, again, held)
    BY <1>2, <1>3, <2>2
  <2>4. Targets(again)
    BY <1>3, NoneIsSeq DEF Targets
  <2>. QED  BY <1>3, <2>1, <2>2, <2>3, <2>4
<1>5. Typed(base) /\ Fits(base, m)
  BY <1>1 DEF SeesInv, BuildFine, PrecedenceInv, Valued
<1>6. PICK b, mm, context, own :
        /\ b = base /\ mm = m /\ context = set_conditionals(mm, again)
        /\ own = set_locals([context.m EXCEPT !.held = IF held THEN t ELSE @], t)
  OBVIOUS
<1>7. m' = own.m
  BY <1>4, <1>6 DEF Call
<1>8. Right(b, own.m, path)
  <2>1. Typed(b) /\ Fits(b, mm) /\ Right(b, mm, above) /\ mm.held /= t
    BY <1>2, <1>5, <1>6
  <2>. QED  BY <1>2, <1>3, <1>4, <1>6, <2>1, FirstCallRight
<1>9. Right(base, m', path)
  BY <1>6, <1>7, <1>8
<1>10. /\ Fits(base, m') /\ Grown(state, state') /\ state' = [x \in Target |-> state'[x]]
       /\ \E new : Chain(new)' /\ ChainFine(new)'
  <2>1. UNCHANGED <<given, base, redone>>
    BY <1>1
  <2>. QED  BY <1>1, <1>4, <1>9, <2>1, CallSees
<1>11. PICK q : q = queue /\ IsSeq(q) /\ queue' = q
  BY <1>1 DEF SeesInv, RestoredInv, ShapeInv, Entries
<1>12. \A i \in DOMAIN q : \E j \in DOMAIN queue : q[i] = queue[j]
  BY <1>11
<1>. QED  BY <1>1, <1>10, <1>11, <1>12, CalledSees

\* The next dependency of the top call has been considered.
LEMMA ConsideredSees ==
  ASSUME SeesInv, Considered, RestoredInv', PrecedenceInv'
  PROVE  SeesInv'
<1>1. /\ UNCHANGED <<phase, given, m, state, queue, redone, seen, base>>
      /\ stack /= <<>> /\ phase = "build"
  BY DEF Considered, SeesInv, RestoredInv
<1>2. PICK n \in Nat : n = Len(stack) /\ n /= 0 /\ DOMAIN stack = 1 .. n
  BY <1>1, SeqShape DEF SeesInv, RestoredInv, ShapeInv
<1>3. PICK f : f = stack[n] /\ f = Top /\ FrameShaped(f)
  BY <1>2 DEF Top, Last, SeesInv, RestoredInv, ShapeInv
<1>4. PICK waits : /\ stack' = [stack EXCEPT ![n].next = @ + 1, ![n].waits = waits]
                   /\ f.next \in DOMAIN Deps[f.target]
                   /\ state[Deps[f.target][f.next]] /= "none"
  BY <1>2, <1>3 DEF Considered
<1>5. PICK next, g : next = f.next + 1 /\ g = [f EXCEPT !.next = next, !.waits = waits]
  OBVIOUS
<1>6. stack' = [stack EXCEPT ![n] = g]
  BY <1>2, <1>3, <1>4, <1>5 DEF FrameShaped
<1>7. /\ g.target = f.target /\ g.path = f.path /\ g.again = f.again /\ g.next = f.next + 1
  BY <1>3, <1>5 DEF FrameShaped
<1>8. \A k \in 1 .. n : stack'[k] = IF k = n THEN g ELSE stack[k]
  BY <1>2, <1>6
<1>9. Len(stack') = n
  <2>1. DOMAIN stack' = 1 .. n /\ IsSeq(stack')
    BY <1>2, <1>6 DEF RestoredInv, ShapeInv
  <2>2. DOMAIN stack' = 1 .. Len(stack') /\ Len(stack') \in Nat
    BY <2>1, SeqShape
  <2>. QED  BY <2>1, <2>2
<1>10. PICK chain : Chain(chain) /\ ChainFine(chain)
  BY <1>1 DEF SeesInv, BuildFine
<1>11. Chain(chain)'
  BY <1>10, ConsideredRestored DEF SeesInv
<1>12. PICK b, s, sp : b = base /\ s = state /\ sp = Spared(redone, given)
  OBVIOUS
<1>13. base' = b /\ state' = s /\ Spared(redone, given)' = sp
  BY <1>1, <1>12 DEF Spared
<1>14. FrameFine(b, s, sp, f, chain[n])
  <2>1. n \in 1 .. Len(stack)
    BY <1>2
  <2>. QED  BY <1>3, <1>10, <1>12, <2>1 DEF ChainFine
<1>15. FrameFine(b, s, sp, g, chain[n])
  <2>1. f.target \in Target /\ f.next \in Nat /\ Looked(s, f.target, f.next)
    BY <1>14 DEF FrameFine
  <2>2. Looked(s, f.target, f.next + 1)
    <3>1. \A j \in DOMAIN Deps[f.target] : j \in Nat
      BY <2>1, DepsTargets
    <3>2. \A j \in DOMAIN Deps[f.target] : j < f.next + 1 => j < f.next \/ j = f.next
      BY <2>1, <3>1
    <3>. QED  BY <1>4, <1>12, <2>1, <3>2 DEF Looked
  <2>. QED  BY <1>7, <1>14, <2>1, <2>2 DEF FrameFine
<1>16. ChainFine(chain)'
  <2>1. \A k \in 0 .. n : LinkFine(s, chain[k])
    BY <1>2, <1>10, <1>12 DEF ChainFine
  <2>2. ASSUME NEW k \in 1 .. n PROVE FrameFine(b, s, sp, stack'[k], chain[k])
    <3>1. CASE k = n
      BY <1>8, <1>15, <3>1
    <3>2. CASE k /= n
      BY <1>2, <1>8, <1>10, <1>12, <3>2 DEF ChainFine
    <3>. QED  BY <3>1, <3>2
  <2>. QED  BY <1>9, <1>13, <2>1, <2>2 DEF ChainFine
<1>17. BuildFine'
  <2>1. BuildFine
    BY <1>1 DEF SeesInv
  <2>. QED  BY <1>1, <1>11, <1>12, <1>13, <1>16, <2>1 DEF BuildFine
<1>. QED  BY <1>1, <1>17 DEF SeesInv

LEMMA TopFine ==
  ASSUME SeesInv, stack /= <<>>
  PROVE  /\ phase = "build" /\ Top.target \in Target /\ IsSeq(Top.path)
         /\ Targets(Top.again) /\ Targets(m.conditional_targets)
         /\ Top.target \in Spared(redone, given) \/ Right(base, m, Top.path)
         /\ Top.next > Len(Deps[Top.target]) => AllLooked(state, Top.target)
<1>1. phase = "build"
  BY DEF SeesInv, RestoredInv
<1>2. PICK n \in Nat : n = Len(stack) /\ n /= 0 /\ DOMAIN stack = 1 .. n
  BY SeqShape DEF SeesInv, RestoredInv, ShapeInv
<1>3. PICK f : f = stack[n] /\ f = Top
  BY <1>2 DEF Top, Last
<1>4. PICK chain : Chain(chain) /\ ChainFine(chain)
  BY <1>1 DEF SeesInv, BuildFine
<1>5. /\ Like(m, chain[n]) /\ LinkFine(state, chain[n])
      /\ FrameFine(base, state, Spared(redone, given), f, chain[n])
  <2>1. n \in 0 .. n /\ n \in 1 .. n
    BY <1>2
  <2>. QED  BY <1>2, <1>3, <1>4, <2>1 DEF Chain, ChainFine
<1>6. f.target \in Target /\ IsSeq(f.path) /\ f.next \in Nat /\ Targets(f.again)
  BY <1>5 DEF FrameFine
<1>7. Targets(m.conditional_targets)
  BY <1>5 DEF Like, LinkFine
<1>8. f.target \in Spared(redone, given) \/ Right(base, m, f.path)
  BY <1>5 DEF FrameFine, Right, Like, Same
<1>9. f.next > Len(Deps[f.target]) => AllLooked(state, f.target)
  <2>1. ASSUME f.next > Len(Deps[f.target]), NEW j \in DOMAIN Deps[f.target] PROVE j < f.next
    BY <1>6, <2>1, DepsTargets
  <2>. QED  BY <1>5, <2>1 DEF FrameFine, Looked, AllLooked
<1>. QED  BY <1>1, <1>3, <1>6, <1>7, <1>8, <1>9

\* What the top call puts on the running list.
LEMMA PutSees ==
  ASSUME SeesInv, DepsDone, NEW kind, kind = "running" => given.jobs > 1,
         kind = "serial" => Top.target \in Spared(redone, given)
  PROVE  EntryFine(base, state, Spared(redone, given), given,
                   Entry(kind, m.conditional_targets))
<1>1. /\ Top.target \in Target /\ IsSeq(Top.path) /\ Targets(m.conditional_targets)
      /\ Top.target \in Spared(redone, given) \/ Right(base, m, Top.path)
      /\ AllLooked(state, Top.target)
  BY TopFine DEF DepsDone
<1>2. PICK e, f, list : /\ f = Top /\ list = m.conditional_targets
                        /\ e = Entry(kind, m.conditional_targets)
  OBVIOUS
<1>3. /\ e.target = f.target /\ e.path = f.path /\ e.kind = kind
      /\ e.conditional_targets = list
  BY <1>2 DEF Entry
<1>4. f.target \in Spared(redone, given)
      \/ \A n \in Free(base) : Expected(base, list, n) = Expected(base, f.path, n)
  BY <1>1, <1>2 DEF Right
<1>. QED  BY <1>1, <1>2, <1>3, <1>4 DEF EntryFine

LEMMA ReturnSees ==
  ASSUME SeesInv, stack /= <<>>, NEW s, s /= "none", Return(s),
         UNCHANGED <<phase, given, base, redone>>, Entries(queue')
  PROVE  /\ Fits(base, m') /\ Grown(state, state') /\ state' = [x \in Target |-> state'[x]]
         /\ \E chain : Chain(chain)' /\ ChainFine(chain)'
<1>1. phase = "build" /\ Targets(Top.again)
  BY TopFine
<1>2. PICK n \in Nat : n = Len(stack) /\ n /= 0
  BY SeqShape DEF SeesInv, RestoredInv, ShapeInv
<1>3. PICK chain : Chain(chain) /\ ChainFine(chain)
  BY <1>1 DEF SeesInv, BuildFine
<1>4. RestoredInv' /\ Chain(chain)'
  <2>1. RestoredInv /\ UNCHANGED <<phase, given, base>>
    BY DEF SeesInv
  <2>. QED  BY <1>3, <2>1, ReturnRestored
<1>5. /\ Len(stack') = n - 1 /\ \A k \in 1 .. n - 1 : stack'[k] = stack[k]
  <2>1. stack' = Front(stack) /\ IsSeq(stack)
    BY DEF Return, SeesInv, RestoredInv, ShapeInv
  <2>. QED  BY <1>2, <2>1, FrontSeq
<1>6. PICK u, v : u = state /\ v = state'
  OBVIOUS
<1>7. v = [x \in Target |-> v[x]] /\ Grown(u, v)
  <2>1. PICK t : t = Top.target
    OBVIOUS
  <2>2. u = [x \in Target |-> u[x]] /\ v = [u EXCEPT ![t] = s]
    BY <1>6, <2>1 DEF SeesInv, Return
  <2>. QED  BY <2>2, StateSet
<1>8. PICK b, sp : b = base /\ sp = Spared(redone, given)
  OBVIOUS
<1>9. base' = b /\ Spared(redone, given)' = sp
  BY <1>8 DEF Spared
<1>10. /\ \A x : LinkFine(u, x) => LinkFine(v, x)
       /\ \A f, x : FrameFine(b, u, sp, f, x) => FrameFine(b, v, sp, f, x)
  BY <1>7, FineStays
<1>11. ChainFine(chain)'
  <2>1. \A k \in 0 .. n - 1 : LinkFine(v, chain[k])
    BY <1>2, <1>3, <1>6, <1>10 DEF ChainFine
  <2>2. \A k \in 1 .. n - 1 : FrameFine(b, v, sp, stack'[k], chain[k])
    BY <1>2, <1>3, <1>5, <1>6, <1>8, <1>10 DEF ChainFine
  <2>. QED  BY <1>5, <1>6, <1>9, <2>1, <2>2 DEF ChainFine
<1>12. Fits(base, m')
  <2>1. m'.body \in Bodies
    <3>1. Like(m', chain[n - 1]) /\ n - 1 \in 0 .. n - 1
      BY <1>2, <1>4, <1>5 DEF Chain
    <3>2. LinkFine(state, chain[n - 1])
      BY <1>2, <1>3 DEF ChainFine
    <3>. QED  BY <3>1, <3>2 DEF Like, Same, LinkFine
  <2>2. PICK x, z, f, last : x = m /\ z = m' /\ f = Top /\ last = (n = 1)
    OBVIOUS
  <2>3. z = Undone(x, f, last)
    BY <1>2, <2>2 DEF Return, Undone
  <2>4. Fits(base, x) /\ Shaped(z)
    BY <1>1, <1>4, <2>2 DEF SeesInv, BuildFine, RestoredInv, ShapeInv
  <2>5. Left(x, x) /\ IsSeq(f.again)
    BY <1>1, <2>2, <2>4 DEF Fits, Typed, Shaped, Left, Targets
  <2>6. Left(x, z)
    BY <2>3, <2>5, UndoneLeaves
  <2>. QED  BY <2>1, <2>2, <2>4, <2>6, FitsBack DEF Bodies
<1>. QED  BY <1>4, <1>6, <1>7, <1>11, <1>12

\* The top call returns, and perhaps puts its target on the running list.
LEMMA LeaveSees ==
  ASSUME SeesInv, DepsDone, NEW s, s /= "none", Return(s),
         UNCHANGED <<phase, given, base, redone>>, RestoredInv', PrecedenceInv',
         NEW e, EntryFine(base, state, Spared(redone, given), given, e),
         queue' = queue \/ queue' = Append(queue, e),
         seen' = [x \in Target |-> seen'[x]],
         SeenRight(base, Spared(redone, given), seen')
  PROVE  SeesInv'
<1>1. stack /= <<>> /\ phase = "build"
  BY TopFine DEF DepsDone
<1>2. /\ Fits(base, m') /\ Grown(state, state') /\ state' = [x \in Target |-> state'[x]]
      /\ \E chain : Chain(chain)' /\ ChainFine(chain)'
  <2>1. Entries(queue')
    BY DEF RestoredInv, ShapeInv
  <2>. QED  BY <1>1, <2>1, ReturnSees
<1>3. PICK b, sp, g, u, v : /\ b = base /\ sp = Spared(redone, given) /\ g = given
                            /\ u = state /\ v = state'
  OBVIOUS
<1>4. base' = b /\ Spared(redone, given)' = sp /\ given' = g
  BY <1>3 DEF Spared
<1>5. \A d : EntryFine(b, u, sp, g, d) => EntryFine(b, v, sp, g, d)
  BY <1>2, <1>3, FineStays
<1>6. ASSUME NEW i \in DOMAIN queue' PROVE EntryFine(b, u, sp, g, queue'[i])
  <2>1. \A j \in DOMAIN queue : EntryFine(b, u, sp, g, queue[j])
    BY <1>1, <1>3 DEF SeesInv, BuildFine
  <2>2. CASE queue' = queue
    BY <1>6, <2>1, <2>2
  <2>3. CASE queue' = Append(queue, e)
    <3>1. PICK k : k = Len(queue) /\ k \in Nat /\ DOMAIN queue = 1 .. k /\ IsSeq(queue)
      BY SeqShape DEF SeesInv, RestoredInv, ShapeInv, Entries
    <3>2. /\ Len(queue') = k + 1 /\ IsSeq(queue') /\ queue'[k + 1] = e
          /\ \A j \in 1 .. k : queue'[j] = queue[j]
      BY <2>3, <3>1, AppendSeq
    <3>3. i \in 1 .. k \/ i = k + 1
      BY <1>6, <3>1, <3>2, SeqShape
    <3>. QED  BY <1>3, <2>1, <3>1, <3>2, <3>3
  <2>. QED  BY <2>2, <2>3
<1>7. BuildFine'
  BY <1>2, <1>3, <1>4, <1>5, <1>6 DEF BuildFine
<1>. QED  BY <1>1, <1>2, <1>7 DEF SeesInv

LEMMA AddSees ==
  ASSUME SeesInv, AddPending \/ AddSerial, RestoredInv', PrecedenceInv'
  PROVE  SeesInv'
<1>1. PICK kind \in {"pending", "serial"} :
        /\ queue' = Append(queue, Entry(kind, m.conditional_targets)) /\ Return(kind)
        /\ kind = "serial" => AddSerial
  BY DEF AddPending, AddSerial
<1>2. DepsDone /\ UNCHANGED <<phase, given, base, redone, seen>>
  BY DEF AddPending, AddSerial
<1>3. phase = "build"
  BY <1>2, TopFine DEF DepsDone
<1>4. kind = "serial" => Top.target \in Spared(redone, given)
  <2>. SUFFICES ASSUME AddSerial PROVE Top.target \in Spared(redone, given)
    BY <1>1
  <2>1. PICK i \in DOMAIN queue : queue[i].kind = "running"
    BY DEF AddSerial, Running
  <2>2. given.jobs > 1
    BY <1>3, <2>1 DEF SeesInv, BuildFine, EntryFine
  <2>3. Top.target \in Alone
    BY <2>2 DEF AddSerial, InParallel
  <2>4. given.jobs /= 1
    BY <2>2
  <2>. QED  BY <2>3, <2>4 DEF Spared
<1>5. PICK e : /\ e = Entry(kind, m.conditional_targets)
               /\ EntryFine(base, state, Spared(redone, given), given, e)
  BY <1>1, <1>2, <1>4, PutSees
<1>6. /\ seen' = [x \in Target |-> seen'[x]]
      /\ SeenRight(base, Spared(redone, given), seen')
  BY <1>2, <1>3 DEF SeesInv, BuildFine
<1>7. kind /= "none"
  BY <1>1
<1>. QED  BY <1>1, <1>2, <1>5, <1>6, <1>7, LeaveSees

LEMMA RunSees ==
  ASSUME SeesInv, RunCommand, RestoredInv', PrecedenceInv'
  PROVE  SeesInv'
<1>1. DepsDone /\ UNCHANGED <<phase, given, base, redone>>
  BY DEF RunCommand
<1>2. PICK s : Return(s) /\ s \in {"running", "ok"}
  BY DEF RunCommand
<1>3. PICK kind, e : kind = "running" /\ e = Entry(kind, m.conditional_targets)
  OBVIOUS
<1>4. /\ Top.target \in Target /\ phase = "build"
      /\ Top.target \in Spared(redone, given) \/ Right(base, m, Top.path)
  BY <1>1, TopFine DEF DepsDone
<1>5. PICK t, f, v, w : /\ t = Top.target /\ f = Top
                        /\ v = [path |-> f.path, env |-> m.env,
                                value |-> [n \in Macro |-> m.body[n].value]]
                        /\ w = seen'
  OBVIOUS
<1>6. w = [seen EXCEPT ![t] = v]
  BY <1>5 DEF RunCommand
<1>7. w = [x \in Target |-> w[x]] /\ \A x \in Target : w[x] = IF x = t THEN v ELSE seen[x]
  <2>1. seen = [x \in Target |-> seen[x]]
    BY DEF SeesInv
  <2>. QED  BY <1>6, <2>1
<1>8. SeenRight(base, Spared(redone, given), w)
  <2>. SUFFICES ASSUME NEW x \in Target \ Spared(redone, given), w[x] /= <<>>,
                       NEW n \in Free(base)
                PROVE  w[x].value[n] = Expected(base, w[x].path, n)
    BY DEF SeenRight
  <2>1. CASE x = t
    <3>1. w[x] = v /\ Right(base, m, f.path)
      BY <1>4, <1>5, <1>7, <2>1
    <3>2. v.value[n] = m.body[n].value /\ v.path = f.path
      BY <1>5 DEF Free
    <3>. QED  BY <3>1, <3>2 DEF Right
  <2>2. CASE x /= t
    <3>1. SeenRight(base, Spared(redone, given), seen) /\ w[x] = seen[x]
      BY <1>4, <1>7, <2>2 DEF SeesInv, BuildFine
    <3>. QED  BY <3>1 DEF SeenRight
  <2>. QED  BY <2>1, <2>2
<1>9. /\ seen' = [x \in Target |-> seen'[x]]
      /\ SeenRight(base, Spared(redone, given), seen')
  BY <1>5, <1>7, <1>8
<1>10. CASE InParallel
  <2>1. queue' = Append(queue, e) /\ given.jobs > 1
    BY <1>3, <1>10 DEF RunCommand, InParallel
  <2>2. EntryFine(base, state, Spared(redone, given), given, e)
    <3>1. kind /= "serial"
      BY <1>3
    <3>. QED  BY <1>1, <1>3, <2>1, <3>1, PutSees
  <2>3. s /= "none"
    BY <1>2
  <2>. QED  BY <1>1, <1>2, <1>9, <2>1, <2>2, <2>3, LeaveSees
<1>11. CASE ~InParallel
  <2>1. queue' = queue
    BY <1>11 DEF RunCommand
  <2>2. PICK k, d : k = "pending" /\ d = Entry(k, m.conditional_targets)
    OBVIOUS
  <2>3. EntryFine(base, state, Spared(redone, given), given, d)
    <3>1. k /= "serial" /\ k /= "running"
      BY <2>2
    <3>. QED  BY <1>1, <2>2, <3>1, PutSees
  <2>4. s /= "none"
    BY <1>2
  <2>. QED  BY <1>1, <1>2, <1>9, <2>1, <2>3, <2>4, LeaveSees
<1>. QED  BY <1>10, <1>11

LEMMA ResumeSees ==
  ASSUME SeesInv, phase = "build", NEW i \in DOMAIN queue, Resume(i),
         RestoredInv', PrecedenceInv'
  PROVE  SeesInv'
<1>1. /\ UNCHANGED <<phase, given, base, redone, seen>> /\ stack = <<>>
      /\ queue' = RemoveAt(queue, i)
  BY DEF Resume
<1>2. PICK e : e = queue[i] /\ EntryFine(base, state, Spared(redone, given), given, e)
  BY DEF SeesInv, BuildFine
<1>3. PICK t, path, sp : t = e.target /\ path = e.path /\ sp = Spared(redone, given)
  OBVIOUS
<1>4. t \in Target /\ IsSeq(path) /\ AllLooked(state, t)
  BY <1>2, <1>3 DEF EntryFine
<1>5. PICK again, held :
        /\ held \in BOOLEAN /\ Targets(again) /\ Call(t, path, again, held)
        /\ \/ t \in sp
           \/ held /\ \A n \in Free(base) : Expected(base, again, n) = Expected(base, path, n)
  <2>1. CASE e.kind = "pending" /\ Call(e.target, e.path, e.conditional_targets, TRUE)
    <3>1. PICK again, held : again = e.conditional_targets /\ held = TRUE
      OBVIOUS
    <3>2. Targets(again) /\ Call(t, path, again, held)
      BY <1>2, <1>3, <2>1, <3>1 DEF EntryFine
    <3>3. \/ t \in sp
          \/ \A n \in Free(base) : Expected(base, again, n) = Expected(base, path, n)
      BY <1>2, <1>3, <3>1 DEF EntryFine
    <3>. QED  BY <3>1, <3>2, <3>3
  <2>2. CASE e.kind = "serial" /\ Call(e.target, e.path, <<>>, FALSE)
    <3>1. PICK again, held : again = <<>> /\ held = FALSE
      OBVIOUS
    <3>2. Targets(again)
      BY <3>1, NoneIsSeq DEF Targets
    <3>3. Call(t, path, again, held) /\ t \in sp
      BY <1>2, <1>3, <2>2, <3>1 DEF EntryFine
    <3>. QED  BY <3>1, <3>2, <3>3
  <2>. QED  BY <1>2, <2>1, <2>2 DEF Resume
<1>6. \/ Right(base, m', path)
      \/ t \in Spared(redone, given) /\ AllLooked(state, t)
  <2>1. CASE t \in sp
    BY <1>3, <1>4, <2>1
  <2>2. CASE held /\ \A n \in Free(base) : Expected(base, again, n) = Expected(base, path, n)
    <3>1. PICK b, mm, context, own :
            /\ b = base /\ mm = m /\ context = set_conditionals(mm, again)
            /\ own = set_locals([context.m EXCEPT !.held = IF held THEN t ELSE @], t)
      OBVIOUS
    <3>2. m' = own.m
      BY <1>5, <3>1 DEF Call
    <3>3. /\ Typed(b) /\ Fits(b, mm) /\ mm.body = b.body
          /\ mm.conditional_targets = <<>> /\ mm.held \notin Target
      BY <1>1, <3>1, AtRest
    <3>4. \A n \in Free(b) : Expected(b, again, n) = Expected(b, path, n)
      BY <2>2, <3>1
    <3>5. Right(b, own.m, path)
      BY <1>4, <1>5, <2>2, <3>1, <3>3, <3>4, ResumedRight
    <3>. QED  BY <3>1, <3>2, <3>5
  <2>. QED  BY <1>5, <2>1, <2>2
<1>7. /\ Fits(base, m') /\ Grown(state, state') /\ state' = [x \in Target |-> state'[x]]
      /\ \E new : Chain(new)' /\ ChainFine(new)'
  <2>1. UNCHANGED <<given, base, redone>> /\ ~(stack /= <<>>)
    BY <1>1
  <2>. QED  BY <1>4, <1>5, <1>6, <2>1, CallSees
<1>8. PICK q : q = RemoveAt(queue, i) /\ queue' = q
  BY <1>1
<1>9. IsSeq(q) /\ \A j \in DOMAIN q : \E k \in DOMAIN queue : q[j] = queue[k]
  <2>1. PICK old : old = queue /\ IsSeq(old)
    BY DEF SeesInv, RestoredInv, ShapeInv, Entries
  <2>. QED  BY <1>8, <2>1, RemovedFrom
<1>. QED  BY <1>1, <1>7, <1>8, <1>9, CalledSees

\* A recipe ends, whatever call is active meanwhile.
LEMMA FinishSees ==
  ASSUME SeesInv, phase = "build", NEW i \in DOMAIN queue, Finish(i),
         RestoredInv', PrecedenceInv'
  PROVE  SeesInv'
<1>1. UNCHANGED <<phase, given, stack, seen, base>> /\ RestoredInv /\ BuildFine
  BY DEF Finish, SeesInv
<1>2. PICK e : e = queue[i] /\ EntryFine(base, state, Spared(redone, given), given, e)
  BY <1>1 DEF BuildFine
<1>3. PICK t, v : /\ t = e.target /\ t \in Target /\ v \in {"ok", "pending"}
                  /\ state' = [state EXCEPT ![t] = v]
  <2>1. e.target \in Target
    BY <1>2 DEF EntryFine
  <2>. QED  BY <1>2, <2>1 DEF Finish
<1>4. PICK s, u : s = state /\ u = state'
  OBVIOUS
<1>5. u = [x \in Target |-> u[x]] /\ Grown(s, u)
  <2>1. s = [x \in Target |-> s[x]] /\ u = [s EXCEPT ![t] = v]
    BY <1>3, <1>4 DEF SeesInv
  <2>2. v /= "none"
    BY <1>3
  <2>. QED  BY <2>1, <2>2, StateSet
<1>6. PICK b, g, sp, sq : /\ b = base /\ g = given /\ sp = Spared(redone, given)
                          /\ sq = Spared(redone, given)'
  OBVIOUS
<1>7. sp \subseteq sq /\ base' = b /\ given' = g
  <2>1. redone' = redone \/ redone' = redone \cup {t}
    BY <1>2, <1>3 DEF Finish
  <2>. QED  BY <1>1, <1>6, <2>1 DEF Spared
<1>8. /\ \A x : LinkFine(s, x) => LinkFine(u, x)
      /\ \A f, x : FrameFine(b, s, sp, f, x) => FrameFine(b, u, sq, f, x)
      /\ \A d : EntryFine(b, s, sp, g, d) => EntryFine(b, u, sq, g, d)
      /\ \A w : SeenRight(b, sp, w) => SeenRight(b, sq, w)
  BY <1>5, <1>7, FineStays
<1>9. PICK chain : Chain(chain) /\ ChainFine(chain)
  BY <1>1 DEF BuildFine
<1>10. Chain(chain)' /\ ChainFine(chain)'
  <2>1. Chain(chain)'
    BY <1>1, <1>9, FinishRestored
  <2>2. \A k \in 0 .. Len(stack) : LinkFine(u, chain[k])
    BY <1>4, <1>8, <1>9 DEF ChainFine
  <2>3. \A k \in 1 .. Len(stack) : FrameFine(b, u, sq, stack[k], chain[k])
    BY <1>4, <1>6, <1>8, <1>9 DEF ChainFine
  <2>. QED  BY <1>1, <1>4, <1>6, <1>7, <2>1, <2>2, <2>3 DEF ChainFine
<1>11. /\ Fits(b, m) /\ Shaped(m) /\ Targets(m.conditional_targets)
       /\ Targets(e.conditional_targets)
  <2>1. Len(stack) \in Nat
    BY <1>1, SeqShape DEF RestoredInv, ShapeInv
  <2>2. Like(m, chain[Len(stack)]) /\ LinkFine(state, chain[Len(stack)])
    <3>1. Len(stack) \in 0 .. Len(stack)
      BY <2>1
    <3>. QED  BY <1>9, <3>1 DEF Chain, ChainFine
  <2>. QED  BY <1>1, <1>2, <1>6, <2>2 DEF BuildFine, Fits, Typed, Like, LinkFine, EntryFine
<1>12. PICK mm, list, context : /\ mm = m /\ list = e.conditional_targets
                                /\ context = set_conditionals(mm, list)
  OBVIOUS
<1>13. Fits(b, context.m) /\ Targets(context.m.conditional_targets)
  <2>1. PICK k \in Nat : k = Len(list)
    BY <1>11, <1>12, SeqShape DEF Targets
  <2>2. PICK after, c : after = Activated(mm, list) /\ c = after[k]
    OBVIOUS
  <2>3. context.m = c
    BY <1>12, <2>1, <2>2 DEF set_conditionals
  <2>4. Fits(b, c) /\ Targets(c.conditional_targets)
    <3>1. Fits(b, mm) /\ Targets(mm.conditional_targets) /\ Targets(list)
      BY <1>11, <1>12
    <3>2. k \in 0 .. Len(list)
      BY <2>1
    <3>. QED  BY <2>2, <3>1, <3>2, ActivatedFits
  <2>. QED  BY <2>3, <2>4
<1>14. PICK q : q = RemoveAt(queue, i)
  OBVIOUS
<1>15. IsSeq(q) /\ \A j \in DOMAIN q : \E k \in DOMAIN queue : q[j] = queue[k]
  <2>1. PICK old : old = queue /\ IsSeq(old)
    BY <1>1 DEF RestoredInv, ShapeInv, Entries
  <2>. QED  BY <1>14, <2>1, RemovedFrom
<1>16. \A j \in DOMAIN q : EntryFine(b, u, sq, g, q[j])
  BY <1>1, <1>4, <1>6, <1>8, <1>15 DEF BuildFine
<1>17. SeenRight(b, sq, seen')
  BY <1>1, <1>6, <1>8 DEF BuildFine
<1>18. CASE queue' = q /\ m' = m
  <2>1. BuildFine'
    BY <1>4, <1>6, <1>7, <1>10, <1>11, <1>16, <1>17, <1>18 DEF BuildFine
  <2>. QED  BY <1>1, <1>4, <1>5, <2>1 DEF SeesInv
<1>19. CASE /\ redone' = redone \cup {t}
            /\ queue' = Append(q, [e EXCEPT !.kind = "pending",
                                            !.conditional_targets = context.m.conditional_targets])
            /\ m' = reset_conditionals(context.m, list, context.old)
  <2>1. PICK d, kind, ct : /\ kind = "pending" /\ ct = context.m.conditional_targets
                           /\ d = [e EXCEPT !.kind = kind, !.conditional_targets = ct]
    OBVIOUS
  <2>2. d = [kind |-> kind, target |-> e.target, path |-> e.path, conditional_targets |-> ct]
    <3>1. e = [kind |-> e.kind, target |-> e.target, path |-> e.path,
               conditional_targets |-> e.conditional_targets]
      BY <1>1, <1>2 DEF RestoredInv, ShapeInv, Entries, EntryShaped
    <3>. QED  BY <2>1, <3>1
  <2>3. EntryFine(b, u, sq, g, d)
    <3>1. EntryFine(b, u, sq, g, e)
      BY <1>2, <1>4, <1>6, <1>8
    <3>2. t \in sq
      BY <1>6, <1>19 DEF Spared
    <3>3. /\ d.target = e.target /\ d.path = e.path /\ d.kind = "pending"
          /\ d.conditional_targets = ct
      BY <2>1, <2>2
    <3>. QED  BY <1>3, <1>13, <2>1, <3>1, <3>2, <3>3 DEF EntryFine
  <2>4. queue' = Append(q, d)
    BY <1>19, <2>1
  <2>5. \A j \in DOMAIN queue' : EntryFine(b, u, sq, g, queue'[j])
    <3>1. PICK k : k = Len(q) /\ k \in Nat /\ DOMAIN q = 1 .. k
      BY <1>15, SeqShape
    <3>2. PICK p : p = Append(q, d)
      OBVIOUS
    <3>3. /\ IsSeq(p) /\ Len(p) = k + 1 /\ p[k + 1] = d /\ \A j \in 1 .. k : p[j] = q[j]
      BY <1>15, <3>1, <3>2, AppendSeq
    <3>4. DOMAIN p = 1 .. k + 1
      BY <3>3, SeqShape
    <3>5. \A j \in 1 .. k + 1 : j \in 1 .. k \/ j = k + 1
      BY <3>1
    <3>. QED  BY <1>16, <2>3, <2>4, <3>1, <3>2, <3>3, <3>4, <3>5
  <2>6. Fits(b, m')
    <3>1. PICK x, z : x = context.m /\ z = m' /\ z = reset_conditionals(x, list, context.old)
      BY <1>19
    <3>2. Shaped(x) /\ Left(x, x)
      BY <1>13, <3>1 DEF Fits, Typed, Shaped, Left
    <3>3. Left(x, z)
      <4>1. IsSeq(list)
        BY <1>11, <1>12 DEF Targets
      <4>. QED  BY <3>1, <3>2, <4>1, ResetLeaves
    <3>4. Shaped(z) /\ Like(z, mm)
      <4>1. Like(x, x) /\ IsSeq(list)
        BY <1>11, <1>12 DEF Like, Same, Targets
      <4>. QED  BY <1>11, <1>12, <3>1, <3>2, <4>1, ConditionalsRestored
    <3>5. z.body \in Bodies
      BY <1>11, <1>12, <3>4 DEF Like, Same, Fits, Typed, Bodies
    <3>. QED  BY <1>13, <3>1, <3>3, <3>4, <3>5, FitsBack DEF Bodies
  <2>7. BuildFine'
    BY <1>4, <1>6, <1>7, <1>10, <1>17, <2>5, <2>6 DEF BuildFine
  <2>. QED  BY <1>1, <1>4, <1>5, <2>7 DEF SeesInv
<1>. QED  BY <1>2, <1>3, <1>12, <1>14, <1>18, <1>19 DEF Finish

LEMMA StartSees ==
  ASSUME SeesInv, ReadDefaults \/ ReadArguments \/ ReadMakefile, RestoredInv', PrecedenceInv'
  PROVE  SeesInv'
<1>1. /\ UNCHANGED <<given, state, stack, queue, redone, seen>> /\ phase /= "build"
      /\ stack = <<>> /\ queue = <<>>
  BY DEF ReadDefaults, ReadArguments, ReadMakefile, build, SeesInv, RestoredInv
<1>2. \A t \in Target : seen[t] = <<>>
  BY <1>1 DEF SeesInv
<1>3. CASE phase' /= "build"
  BY <1>1, <1>2, <1>3 DEF SeesInv
<1>4. CASE phase' = "build"
  <2>1. base' = m'
    BY <1>4 DEF ReadDefaults, ReadArguments, ReadMakefile
  <2>2. Typed(base') /\ Fits(base', m')
    BY <1>4, <2>1 DEF PrecedenceInv, Valued, Fits
  <2>3. PICK chain : Chain(chain)'
    BY <1>4 DEF RestoredInv
  <2>4. Len(stack') = 0
    BY <1>1, NoneIsSeq
  <2>5. ChainFine(chain)'
    <3>1. chain[0] = [body |-> base'.body, conditional_targets |-> <<>>, held |-> NoTarget]
      BY <2>3 DEF Chain, AtFirst
    <3>2. base'.body \in Bodies /\ Targets(<<>>) /\ NoTarget \notin Target
      BY <2>2, NoneIsSeq, StatementAssumption DEF Typed, Bodies, Targets
    <3>3. LinkFine(state', chain[0])
      BY <3>1, <3>2 DEF LinkFine
    <3>4. \A k \in 0 .. Len(stack') : k = 0
      BY <2>4
    <3>5. 1 .. Len(stack') = {}
      BY <2>4
    <3>. QED  BY <3>3, <3>4, <3>5 DEF ChainFine
  <2>6. DOMAIN queue' = {} /\ SeenRight(base', Spared(redone, given)', seen')
    BY <1>1, <1>2, NoneIsSeq DEF SeenRight
  <2>7. BuildFine'
    BY <2>2, <2>3, <2>5, <2>6 DEF BuildFine
  <2>. QED  BY <1>1, <1>4, <2>7 DEF SeesInv
<1>. QED  BY <1>3, <1>4

LEMMA SeesStep ==
  ASSUME SeesInv, [Next]_vars
  PROVE  SeesInv'
<1>1. RestoredInv' /\ PrecedenceInv'
  BY RestoredStep, PrecedenceStep DEF SeesInv
<1>2. ASSUME NEW t \in Target, Consider(t) PROVE SeesInv'
  BY <1>1, <1>2, ConsiderSees
<1>3. CASE NextGoal \/ Done \/ UNCHANGED vars
  <2>1. UNCHANGED <<phase, given, m, state, stack, queue, redone, seen, base>>
    BY <1>3 DEF NextGoal, Done, vars
  <2>2. ASSUME NEW chain, Chain(chain) /\ ChainFine(chain)
        PROVE  Chain(chain)' /\ ChainFine(chain)'
    BY <2>1, <2>2 DEF Chain, ChainFine, AtFirst, Spared
  <2>3. BuildFine => BuildFine'
    BY <2>1, <2>2 DEF BuildFine, Spared
  <2>. QED  BY <1>1, <2>1, <2>3 DEF SeesInv
<1>4. CASE Considered
  BY <1>1, <1>4, ConsideredSees
<1>5. CASE AddPending \/ AddSerial
  BY <1>1, <1>5, AddSees
<1>6. CASE RunCommand
  BY <1>1, <1>6, RunSees
<1>7. CASE ReadDefaults \/ ReadArguments \/ ReadMakefile
  BY <1>1, <1>7, StartSees
<1>8. ASSUME NEW i \in DOMAIN queue, Finish(i) \/ Resume(i) PROVE SeesInv'
  <2>1. phase = "build"
    <3>1. queue /= <<>>
      OBVIOUS
    <3>. QED  BY <3>1 DEF SeesInv, RestoredInv
  <2>. QED  BY <1>1, <1>8, <2>1, FinishSees, ResumeSees
<1>. QED  BY <1>2, <1>3, <1>4, <1>5, <1>6, <1>7, <1>8 DEF Next

\* Every recipe is run with the values its target's conditionals, and those of
\* the targets it is built for, make of the values the build began with: in
\* serial and in parallel mode, for a target that waited on the running list
\* as for one that did not, whoever else was considered meanwhile.
\* (doname.cc 3285-3457 add_pattern_conditionals, set_locals, reset_locals;
\* parallel.cc 1010-1140 process_next, 1229-1285 set_conditionals and
\* reset_conditionals, 1955-1978 store_conditionals)
THEOREM RecipesSeeTheirValues == Spec => []RecipeSees
<1>1. Init => SeesInv
  BY SeesInit
<1>2. SeesInv /\ [Next]_vars => SeesInv'
  BY SeesStep
<1>3. SeesInv => RecipeSees
  BY SeesSound
<1>. QED  BY <1>1, <1>2, <1>3, PTL DEF Spec
=============================================================================
