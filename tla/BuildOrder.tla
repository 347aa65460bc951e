----------------------------- MODULE BuildOrder -----------------------------
(***************************************************************************)
(* What a parallel make promises, whatever its bookkeeping: commands run   *)
(* only for a target whose dependencies are all made, no more of them at   *)
(* a time than allowed, no target is built twice at a time, and a target   *)
(* that is made stays made.                                                *)
(***************************************************************************)
EXTENDS Naturals, FiniteSets

CONSTANTS Target, MaxJobs

VARIABLES needs,        \* needs[t]: the dependencies of t in the makefile
          building,     \* targets whose commands run
          made          \* targets that are up to date

vars == <<needs, building, made>>

Init == /\ needs \in [Target -> SUBSET Target]
        /\ building = {} /\ made = {}

\* The commands of t are started.
Begin(t) == /\ t \notin building \cup made
            /\ needs[t] \subseteq made
            /\ Cardinality(building) < MaxJobs
            /\ building' = building \cup {t}
            /\ UNCHANGED <<needs, made>>

\* The commands of t ended: t is made, or its build failed, or must go on.
End(t) == /\ t \in building
          /\ building' = building \ {t}
          /\ made' \in {made, made \cup {t}}
          /\ UNCHANGED needs

\* t is found to be up to date.
Skip(t) == /\ t \notin building \cup made
           /\ needs[t] \subseteq made
           /\ made' = made \cup {t}
           /\ UNCHANGED <<needs, building>>

Next == \E t \in Target : Begin(t) \/ End(t) \/ Skip(t)

Spec == Init /\ [][Next]_vars

\* Nothing is built or made before what it needs.
InOrder == \A t \in building \cup made : needs[t] \subseteq made

\* The jobs are limited, and what is being built is not made.
Limited == Cardinality(building) <= MaxJobs /\ building \cap made = {}
=============================================================================
