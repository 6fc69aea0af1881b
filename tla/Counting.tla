------------------------------ MODULE Counting ------------------------------
(***************************************************************************)
(* What the proofs about counters use of finite sets.  The proofs about    *)
(* steps take these facts as a hypothesis and leave the library's theorems *)
(* about finite sets, from which the facts follow, to the module that puts *)
(* the steps together.                                                     *)
(***************************************************************************)
EXTENDS Integers, FiniteSets

CardinalityType == \A S : IsFiniteSet(S) => Cardinality(S) \in Nat
EmptySet        == /\ IsFiniteSet({}) /\ Cardinality({}) = 0
                   /\ \A S : IsFiniteSet(S) => (Cardinality(S) = 0 <=> S = {})
Singleton       == \A x : IsFiniteSet({x}) /\ Cardinality({x}) = 1
AddElement      == \A S, x : IsFiniteSet(S) => /\ IsFiniteSet(S \cup {x})
                                               /\ x \notin S => Cardinality(S \cup {x}) = Cardinality(S) + 1
RemoveElement   == \A S, x : IsFiniteSet(S) => /\ IsFiniteSet(S \ {x})
                                               /\ x \in S => Cardinality(S \ {x}) = Cardinality(S) - 1
Subset          == \A S, T : IsFiniteSet(S) /\ T \in SUBSET S => /\ IsFiniteSet(T) /\ Cardinality(T) <= Cardinality(S)
                                                                 /\ Cardinality(S) = Cardinality(T) => S = T
Interval        == \A a, b \in Int : IsFiniteSet(a..b) /\ Cardinality(a..b) = IF a > b THEN 0 ELSE b - a + 1
Greatest        == \A n \in Nat : \A S \in SUBSET (1..n) : S # {} => \E i \in S : \A j \in S : j <= i
Union           == \A S, T : IsFiniteSet(S) /\ IsFiniteSet(T) =>
                       /\ IsFiniteSet(S \cup T)
                       /\ Cardinality(S \cup T) = Cardinality(S) + Cardinality(T) - Cardinality(S \cap T)
Product         == \A S, T : IsFiniteSet(S) /\ IsFiniteSet(T) =>
                       IsFiniteSet(S \X T) /\ Cardinality(S \X T) = Cardinality(S) * Cardinality(T)

FiniteSetFacts == /\ CardinalityType /\ EmptySet /\ Singleton /\ AddElement /\ RemoveElement
                  /\ Subset /\ Interval /\ Greatest /\ Union /\ Product
=============================================================================
