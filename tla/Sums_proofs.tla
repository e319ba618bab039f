----------------------------- MODULE Sums_proofs ----------------------------
(***************************************************************************)
(* The laws of sums over finite sets.  SumEmpty and SumWithout are the     *)
(* equations that define a sum; SumChange is what the invariants about     *)
(* totals need: how a total moves when one element enters or leaves.       *)
(***************************************************************************)
EXTENDS Sums, FiniteSetTheorems, TLAPS

\* Every element contributes its own units, f[x] of them.
LEMMA UnitsOfOne ==
  ASSUME NEW f, NEW x, f[x] \in Nat
  PROVE  /\ IsFiniteSet({x} \X (1 .. f[x]))
         /\ Cardinality({x} \X (1 .. f[x])) = f[x]
<1>1. IsFiniteSet({x}) /\ Cardinality({x}) = 1
  BY FS_Singleton
<1>2. IsFiniteSet(1 .. f[x]) /\ Cardinality(1 .. f[x]) = f[x]
  BY FS_Interval
<1>3. /\ IsFiniteSet({x} \X (1 .. f[x]))
      /\ Cardinality({x} \X (1 .. f[x])) = Cardinality({x}) * Cardinality(1 .. f[x])
  BY <1>1, <1>2, FS_Product
<1> QED
  BY <1>1, <1>2, <1>3

LEMMA UnitsFinite ==
  ASSUME NEW S, IsFiniteSet(S), NEW f, \A x \in S : f[x] \in Nat
  PROVE  IsFiniteSet(Units(f, S))
<1> DEFINE Groups == {{x} \X (1 .. f[x]) : x \in S}
           group == [x \in S |-> {x} \X (1 .. f[x])]
<1>1. group \in Surjection(S, Groups)
  BY DEF Surjection
<1>2. IsFiniteSet(Groups)
  <2> HIDE DEF Groups, group
  <2> QED BY <1>1, FS_Surjection
<1>3. \A G \in Groups : IsFiniteSet(G)
  BY UnitsOfOne
<1>4. IsFiniteSet(UNION Groups)
  <2> HIDE DEF Groups
  <2> QED BY <1>2, <1>3, FS_UNION
<1> QED BY <1>4 DEF Units

\* A sum of natural numbers is a natural number.
LEMMA SumType ==
  ASSUME NEW S, IsFiniteSet(S), NEW f, \A x \in S : f[x] \in Nat
  PROVE  SumOver(f, S) \in Nat
BY UnitsFinite, FS_CardinalityType DEF SumOver

\* The sum over no element is 0.
LEMMA SumEmpty == \A f : SumOver(f, {}) = 0
<1> TAKE f
<1>1. Units(f, {}) = {}
  BY DEF Units
<1> QED BY <1>1, FS_EmptySet DEF SumOver

\* Taking an element out of the set takes its value out of the sum.
LEMMA SumWithout ==
  ASSUME NEW S, IsFiniteSet(S), NEW f, \A x \in S : f[x] \in Nat, NEW x \in S
  PROVE  SumOver(f, S) = SumOver(f, S \ {x}) + f[x]
<1> DEFINE Mine == {x} \X (1 .. f[x])
           Others == Units(f, S \ {x})
<1>1. Units(f, S) = Others \cup Mine
  BY DEF Units
<1>2. Others \cap Mine = {}
  BY DEF Units
<1>3. IsFiniteSet(S \ {x})
  BY FS_RemoveElement
<1>4. IsFiniteSet(Others) /\ IsFiniteSet(Mine) /\ Cardinality(Mine) = f[x]
  BY <1>3, UnitsFinite, UnitsOfOne
<1>5. Cardinality(Others) \in Nat
  BY <1>4, FS_CardinalityType
<1> HIDE DEF Mine, Others
<1>6. Cardinality(Others \cup Mine) = Cardinality(Others) + Cardinality(Mine) - Cardinality({})
  BY <1>2, <1>4, FS_Union
<1>7. Cardinality({}) = 0
  BY FS_EmptySet
<1> QED
  BY <1>1, <1>4, <1>5, <1>6, <1>7 DEF SumOver, Others

\* When only x enters or leaves a set of rows, the sum moves by f[x].
LEMMA SumChange ==
  ASSUME NEW Rows, IsFiniteSet(Rows), NEW f, \A y \in Rows : f[y] \in Nat,
         NEW S \in SUBSET Rows, NEW T \in SUBSET Rows,
         NEW x \in Rows, \A y \in Rows \ {x} : y \in S <=> y \in T
  PROVE  /\ SumOver(f, S) \in Nat /\ SumOver(f, T) \in Nat
         /\ x \in S /\ x \in T => SumOver(f, T) = SumOver(f, S)
         /\ x \in S /\ x \notin T => SumOver(f, T) = SumOver(f, S) - f[x]
         /\ x \notin S /\ x \in T => SumOver(f, T) = SumOver(f, S) + f[x]
         /\ x \notin S /\ x \notin T => SumOver(f, T) = SumOver(f, S)
<1>1. IsFiniteSet(S) /\ IsFiniteSet(T) /\ IsFiniteSet(S \ {x})
  BY FS_Subset, FS_RemoveElement
<1>2. \A y \in S \cup T : f[y] \in Nat
  OBVIOUS
<1>3. /\ SumOver(f, S) \in Nat /\ SumOver(f, T) \in Nat
      /\ SumOver(f, S \ {x}) \in Nat
  BY <1>1, <1>2, SumType
<1>4. S \ {x} = T \ {x}
  OBVIOUS
<1>5. /\ x \notin S => S \ {x} = S
      /\ x \notin T => T \ {x} = T
  OBVIOUS
<1>6. /\ x \in S => SumOver(f, S) = SumOver(f, S \ {x}) + f[x]
      /\ x \in T => SumOver(f, T) = SumOver(f, T \ {x}) + f[x]
  BY <1>1, <1>2, SumWithout
<1> DEFINE rest == SumOver(f, S \ {x})
<1>7. /\ IF x \in S THEN SumOver(f, S) = rest + f[x] ELSE SumOver(f, S) = rest
      /\ IF x \in T THEN SumOver(f, T) = rest + f[x] ELSE SumOver(f, T) = rest
  BY <1>4, <1>5, <1>6, Zenon
<1>8. rest \in Nat /\ f[x] \in Nat
  BY <1>3
<1> HIDE DEF rest
<1> QED
  BY <1>3, <1>7, <1>8, SMT

\* A larger set has the larger sum.
LEMMA SumMonotone ==
  ASSUME NEW T, IsFiniteSet(T), NEW S \in SUBSET T, NEW f, \A x \in T : f[x] \in Nat
  PROVE  SumOver(f, S) =< SumOver(f, T)
<1>1. Units(f, S) \in SUBSET Units(f, T)
  BY DEF Units
<1> QED
  BY <1>1, UnitsFinite, FS_Subset DEF SumOver
=============================================================================
