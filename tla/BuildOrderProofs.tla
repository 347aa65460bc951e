-------------------------- MODULE BuildOrderProofs --------------------------
(***************************************************************************)
(* What follows from BuildOrder alone, and so for everything that          *)
(* implements it: the order of the dependencies is kept, and the limit.    *)
(***************************************************************************)
EXTENDS BuildOrder, FiniteSetTheorems, TLAPS

\* The inductive invariant: what is built is finite and not yet made.
LimitedInv == /\ IsFiniteSet(building)
              /\ Limited

LEMMA InOrderStep == InOrder /\ [Next]_vars => InOrder'
<1>. SUFFICES ASSUME InOrder, [Next]_vars PROVE InOrder'
  OBVIOUS
<1>1. ASSUME NEW t \in Target, Begin(t) PROVE InOrder'
  BY <1>1 DEF Begin, InOrder
<1>2. ASSUME NEW t \in Target, End(t) PROVE InOrder'
  <2>1. made \subseteq made' /\ made' \subseteq made \cup {t}
    BY <1>2 DEF End
  <2>2. building' \cup made' \subseteq building \cup made
    BY <1>2, <2>1 DEF End
  <2>. QED  BY <1>2, <2>1, <2>2 DEF End, InOrder
<1>3. ASSUME NEW t \in Target, Skip(t) PROVE InOrder'
  BY <1>3 DEF Skip, InOrder
<1>4. CASE UNCHANGED vars
  BY <1>4 DEF vars, InOrder
<1>. QED  BY <1>1, <1>2, <1>3, <1>4 DEF Next

\* Nothing is built or made before what it needs, at any time of any build.
THEOREM OrderIsKept == Spec => []InOrder
<1>1. Init => InOrder
  BY DEF Init, InOrder
<1>. QED  BY <1>1, InOrderStep, PTL DEF Spec

LEMMA LimitedStep ==
  ASSUME MaxJobs \in Nat, LimitedInv, [Next]_vars
  PROVE  LimitedInv'
<1>1. ASSUME NEW t \in Target, Begin(t) PROVE LimitedInv'
  <2>1. /\ IsFiniteSet(building')
        /\ Cardinality(building') = Cardinality(building) + 1
    BY <1>1, FS_AddElement DEF Begin, LimitedInv
  <2>2. Cardinality(building) \in Nat
    BY FS_CardinalityType DEF LimitedInv
  <2>3. Cardinality(building') <= MaxJobs
    BY <1>1, <2>1, <2>2 DEF Begin
  <2>4. building' \cap made' = {}
    BY <1>1 DEF Begin, LimitedInv, Limited
  <2>. QED  BY <2>1, <2>3, <2>4 DEF LimitedInv, Limited
<1>2. ASSUME NEW t \in Target, End(t) PROVE LimitedInv'
  <2>1. /\ IsFiniteSet(building')
        /\ Cardinality(building') = Cardinality(building) - 1
    BY <1>2, FS_RemoveElement DEF End, LimitedInv
  <2>2. Cardinality(building) \in Nat
    BY FS_CardinalityType DEF LimitedInv
  <2>3. Cardinality(building') <= MaxJobs
    BY <2>1, <2>2 DEF LimitedInv, Limited
  <2>4. building' \cap made' = {}
    BY <1>2 DEF End, LimitedInv, Limited
  <2>. QED  BY <2>1, <2>3, <2>4 DEF LimitedInv, Limited
<1>3. ASSUME NEW t \in Target, Skip(t) PROVE LimitedInv'
  BY <1>3 DEF Skip, LimitedInv, Limited
<1>4. CASE UNCHANGED vars
  BY <1>4 DEF vars, LimitedInv, Limited
<1>. QED  BY <1>1, <1>2, <1>3, <1>4 DEF Next

\* Never more than MaxJobs are built at a time, and none that is made.
THEOREM BuildingIsLimited ==
  ASSUME MaxJobs \in Nat
  PROVE  Spec => []Limited
<1>1. Init => LimitedInv
  BY FS_EmptySet DEF Init, LimitedInv, Limited
<1>2. LimitedInv /\ [Next]_vars => LimitedInv'
  BY LimitedStep
<1>3. LimitedInv => Limited
  BY DEF LimitedInv
<1>. QED  BY <1>1, <1>2, <1>3, PTL DEF Spec
=============================================================================
