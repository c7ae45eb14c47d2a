-------------------------------- MODULE Sums --------------------------------
(***************************************************************************)
(* Sums of natural numbers over finite sets, as MapThenSumSet adds them.   *)
(*                                                                         *)
(* MapThenSumSet takes the elements in the order of a CHOOSE.  The lemmas  *)
(* show that it is a sum: the recursive function it is made of exists, and *)
(* any element may be taken first.  Induction over a finite set is the     *)
(* choice of a smallest subset that is a counterexample.                   *)
(***************************************************************************)
EXTENDS FiniteSetsExt, FiniteSetTheorems, TLAPS

\* The sum of F[x] over the x in S.
Total(F, S) == MapThenSumSet(LAMBDA x : F[x], S)

\* The order in which it takes them.
First(s) == CHOOSE x \in s : TRUE
Rest(s) == s \ {First(s)}

\* g adds up F over each subset of S.
Adds(g, F, S) == g = [s \in SUBSET S |-> IF s = {} THEN 0 ELSE F[First(s)] + g[Rest(s)]]
Adder(F, S) == CHOOSE g : Adds(g, F, S)

\* The sum is what the recursive function inside MapThenSumSet answers.
LEMMA TotalIsAdder == ASSUME NEW F, NEW S PROVE Total(F, S) = Adder(F, S)[S]
BY DEF Total, MapThenSumSet, MapThenFoldSet, Adder, Adds, First, Rest

\* A non-empty set of subsets of a finite set has a smallest member.
LEMMA Smallest ==
  ASSUME NEW S, IsFiniteSet(S), NEW B \in SUBSET (SUBSET S), B # {}
  PROVE  \E T \in B : \A U \in B : ~(U \subseteq T /\ U # T)
<1>1. IsWellFoundedOn(StrictSubsetOrdering(S), FiniteSubsetsOf(S))
  BY FS_StrictSubsetOrderingWellFounded
<1>2. B \subseteq FiniteSubsetsOf(S)
  BY FS_Subset DEF FiniteSubsetsOf
<1>3. PICK T \in B : \A U \in B : ~(<<U, T>> \in StrictSubsetOrdering(S))
  BY <1>1, <1>2, WFMin
<1>4. ASSUME NEW U \in B, U \subseteq T, U # T PROVE FALSE
  <2>1. <<U, T>> \in (SUBSET S) \X (SUBSET S)
    OBVIOUS
  <2>2. <<U, T>> \in StrictSubsetOrdering(S)
    BY <1>4, <2>1 DEF StrictSubsetOrdering
  <2>3. QED
    BY <1>3, <2>2
<1>5. QED
  BY <1>4

\* A function that adds up is known by its argument.
LEMMA OneAdder ==
  ASSUME NEW F, NEW S, IsFiniteSet(S), NEW g, NEW h, Adds(g, F, S), Adds(h, F, S)
  PROVE  \A T \in SUBSET S : g[T] = h[T]
<1> DEFINE B == {T \in SUBSET S : g[T] # h[T]}
<1> SUFFICES ASSUME B # {} PROVE FALSE
  OBVIOUS
<1>0. B \in SUBSET (SUBSET S)
  OBVIOUS
<1>1. PICK T \in B : \A U \in B : ~(U \subseteq T /\ U # T)
  <2> HIDE DEF B
  <2>1. QED BY <1>0, Smallest
<1>2. T # {}
  BY <1>1 DEF Adds
<1>3. First(T) \in T
  BY <1>2 DEF First
<1>4. Rest(T) \in SUBSET S /\ Rest(T) \subseteq T /\ Rest(T) # T
  BY <1>1, <1>3 DEF Rest
<1>5. g[Rest(T)] = h[Rest(T)]
  BY <1>1, <1>4
<1>6. QED
  BY <1>1, <1>2, <1>5 DEF Adds

\* It adds up over the subsets of a subset too.
LEMMA Restricts ==
  ASSUME NEW F, NEW S, NEW T \in SUBSET S, NEW g, Adds(g, F, S)
  PROVE  Adds([s \in SUBSET T |-> g[s]], F, T)
<1> DEFINE h == [s \in SUBSET T |-> g[s]]
<1>1. ASSUME NEW s \in SUBSET T
      PROVE g[s] = IF s = {} THEN 0 ELSE F[First(s)] + h[Rest(s)]
  <2>1. Rest(s) \in SUBSET T /\ s \in SUBSET S
    BY DEF Rest
  <2>2. g[s] = IF s = {} THEN 0 ELSE F[First(s)] + g[Rest(s)]
    BY <2>1 DEF Adds
  <2>3. QED BY <2>1, <2>2
<1>2. QED
  BY <1>1 DEF Adds

\* There is one: on a smallest set without, the sums over its proper subsets make one.
LEMMA AdderExists == ASSUME NEW F, NEW S, IsFiniteSet(S) PROVE Adds(Adder(F, S), F, S)
<1> DEFINE B == {T \in SUBSET S : ~(\E g : Adds(g, F, T))}
<1>1. CASE B = {}
  <2>1. \E g : Adds(g, F, S)
    BY <1>1
  <2>2. QED
    BY <2>1 DEF Adder
<1>2. CASE B # {}
  <2>0. B \in SUBSET (SUBSET S)
    OBVIOUS
  <2>1. PICK T \in B : \A U \in B : ~(U \subseteq T /\ U # T)
    <3> HIDE DEF B
    <3>1. QED BY <1>2, <2>0, Smallest
  <2>2. ASSUME NEW U \in SUBSET T, U # T PROVE Adds(Adder(F, U), F, U)
    BY <2>1, <2>2 DEF Adder
  <2> DEFINE v(s) == IF s = {} THEN 0 ELSE F[First(s)] + Adder(F, Rest(s))[Rest(s)]
             g == [s \in SUBSET T |-> v(s)]
  <2>3. ASSUME NEW s \in SUBSET T, s # {} PROVE g[Rest(s)] = Adder(F, Rest(s))[Rest(s)]
    <3>1. First(s) \in s
      BY <2>3 DEF First
    <3>2. Rest(s) \in SUBSET T /\ Rest(s) # T
      BY <3>1 DEF Rest
    <3>3. g[Rest(s)] = v(Rest(s))
      BY <3>2
    <3>4. Adds(Adder(F, Rest(s)), F, Rest(s))
      BY <2>2, <3>2
    <3>5. CASE Rest(s) = {}
      BY <3>3, <3>4, <3>5 DEF Adds
    <3>6. CASE Rest(s) # {}
      <4> DEFINE R == Rest(s)
                 Q == Rest(R)
                 a == Adder(F, R)
      <4>1. Q \in SUBSET R /\ Q \in SUBSET T /\ Q # T
        BY <3>2 DEF Rest
      <4>2. Adds([x \in SUBSET Q |-> a[x]], F, Q)
        BY <3>4, <4>1, Restricts
      <4>3. Adds(Adder(F, Q), F, Q)
        BY <2>2, <4>1
      <4>4. IsFiniteSet(Q)
        BY <4>1, <2>1, FS_Subset
      <4>5. a[Q] = Adder(F, Q)[Q]
        <5>1. [x \in SUBSET Q |-> a[x]][Q] = Adder(F, Q)[Q]
          BY <4>2, <4>3, <4>4, OneAdder
        <5>2. QED BY <5>1
      <4>6. a[R] = F[First(R)] + a[Q]
        BY <3>4, <3>6 DEF Adds
      <4>7. QED
        BY <3>3, <3>6, <4>5, <4>6
    <3>7. QED
      BY <3>5, <3>6
  <2>4. Adds(g, F, T)
    BY <2>3 DEF Adds
  <2>5. QED
    BY <2>1, <2>4
<1>3. QED
  BY <1>1, <1>2

-----------------------------------------------------------------------------
(* Sums *)

\* The terms are natural numbers.
Numbers(F, S) == \A x \in S : F[x] \in Nat

\* Nothing adds up to 0.
LEMMA TotalEmpty == ASSUME NEW F PROVE Total(F, {}) = 0
<1>1. Adds(Adder(F, {}), F, {})
  BY FS_EmptySet, AdderExists
<1>2. QED
  BY <1>1, TotalIsAdder DEF Adds

\* The sum takes the element of its CHOOSE first.
LEMMA TotalFirst ==
  ASSUME NEW F, NEW S, IsFiniteSet(S), S # {}
  PROVE  First(S) \in S /\ Total(F, S) = F[First(S)] + Total(F, Rest(S))
<1> DEFINE a == Adder(F, S)
           R == Rest(S)
<1>1. Adds(a, F, S)
  BY AdderExists
<1>2. R \in SUBSET S /\ IsFiniteSet(R)
  BY FS_RemoveElement DEF Rest
<1>3. Adds([s \in SUBSET R |-> a[s]], F, R) /\ Adds(Adder(F, R), F, R)
  BY <1>1, <1>2, Restricts, AdderExists
<1>4. [s \in SUBSET R |-> a[s]][R] = Adder(F, R)[R]
  BY <1>2, <1>3, OneAdder
<1>5. a[S] = F[First(S)] + a[R]
  BY <1>1 DEF Adds
<1>6. a[S] = F[First(S)] + Adder(F, R)[R]
  BY <1>4, <1>5
<1>7. QED
  BY <1>6, TotalIsAdder DEF First

\* A sum of natural numbers is one.
LEMMA TotalNat ==
  ASSUME NEW F, NEW S, IsFiniteSet(S), Numbers(F, S)
  PROVE  \A T \in SUBSET S : Total(F, T) \in Nat
<1> DEFINE B == {T \in SUBSET S : Total(F, T) \notin Nat}
<1> SUFFICES ASSUME B # {} PROVE FALSE
  OBVIOUS
<1>0. B \in SUBSET (SUBSET S)
  OBVIOUS
<1>1. PICK T \in B : \A U \in B : ~(U \subseteq T /\ U # T)
  <2> HIDE DEF B
  <2>1. QED BY <1>0, Smallest
<1>2. T # {} /\ IsFiniteSet(T)
  <2>1. Total(F, {}) \in Nat
    BY TotalEmpty
  <2>2. QED BY <1>1, <2>1, FS_Subset
<1>3. First(T) \in T /\ Total(F, T) = F[First(T)] + Total(F, Rest(T))
  BY <1>2, TotalFirst
<1>4. Rest(T) \in SUBSET S /\ Rest(T) \subseteq T /\ Rest(T) # T
  BY <1>1, <1>3 DEF Rest
<1>5. Total(F, Rest(T)) \in Nat
  BY <1>1, <1>4
<1>6. QED
  BY <1>1, <1>3, <1>5 DEF Numbers

\* Any element may be taken first.
LEMMA TotalOne ==
  ASSUME NEW F, NEW S, IsFiniteSet(S), Numbers(F, S), NEW x \in S
  PROVE  Total(F, S) = F[x] + Total(F, S \ {x})
<1> DEFINE B == {T \in SUBSET S : \E y \in T : Total(F, T) # F[y] + Total(F, T \ {y})}
<1> SUFFICES ASSUME B # {} PROVE FALSE
  OBVIOUS
<1>0. B \in SUBSET (SUBSET S)
  OBVIOUS
<1>1. PICK T \in B : \A U \in B : ~(U \subseteq T /\ U # T)
  <2> HIDE DEF B
  <2>1. QED BY <1>0, Smallest
<1>2. PICK y \in T : Total(F, T) # F[y] + Total(F, T \ {y})
  BY <1>1
<1> DEFINE c == First(T)
<1>3. IsFiniteSet(T) /\ T # {} /\ T \subseteq S
  BY <1>1, FS_Subset
<1>4. c \in T /\ Total(F, T) = F[c] + Total(F, T \ {c})
  BY <1>3, TotalFirst DEF Rest
<1>5. c # y
  BY <1>2, <1>4
<1>6. Total(F, T \ {c}) = F[y] + Total(F, (T \ {c}) \ {y})
  <2>1. T \ {c} \notin B
    BY <1>1, <1>4
  <2>2. QED BY <1>5, <1>3, <2>1
<1>7. Total(F, T \ {y}) = F[c] + Total(F, (T \ {y}) \ {c})
  <2>1. T \ {y} \notin B
    BY <1>1, <1>2
  <2>2. QED BY <1>4, <1>5, <1>3, <2>1
<1>8. (T \ {y}) \ {c} = (T \ {c}) \ {y}
  OBVIOUS
<1>9. Total(F, (T \ {c}) \ {y}) \in Nat /\ F[c] \in Nat /\ F[y] \in Nat
  BY <1>3, <1>4, TotalNat DEF Numbers
<1>10. QED
  BY <1>2, <1>4, <1>6, <1>7, <1>8, <1>9

\* A new element adds its number.
LEMMA TotalAdd ==
  ASSUME NEW F, NEW S, IsFiniteSet(S), Numbers(F, S), NEW x, x \notin S, F[x] \in Nat
  PROVE  Total(F, S \cup {x}) = Total(F, S) + F[x]
<1>1. IsFiniteSet(S \cup {x}) /\ Numbers(F, S \cup {x})
  BY FS_AddElement DEF Numbers
<1>2. Total(F, S \cup {x}) = F[x] + Total(F, (S \cup {x}) \ {x})
  BY <1>1, TotalOne
<1>3. Total(F, (S \cup {x}) \ {x}) = Total(F, S)
  <2>1. (S \cup {x}) \ {x} = S
    OBVIOUS
  <2>2. QED BY <2>1
<1>4. Total(F, S) \in Nat
  BY TotalNat
<1> DEFINE t == Total(F, S)
<1>5. Total(F, S \cup {x}) = F[x] + t
  BY <1>2, <1>3
<1> HIDE DEF t
<1>6. Total(F, S \cup {x}) = t + F[x]
  BY <1>4, <1>5 DEF t
<1>7. QED
  BY <1>6 DEF t

\* A sum is at most another one when its terms go, one to one, into terms that
\* are no smaller.
LEMMA TotalInto ==
  ASSUME NEW F, NEW S, IsFiniteSet(S), Numbers(F, S),
         NEW G, NEW T, IsFiniteSet(T), Numbers(G, T),
         NEW h \in [S -> T], \A x, y \in S : h[x] = h[y] => x = y,
         \A x \in S : F[x] <= G[h[x]]
  PROVE  Total(F, S) <= Total(G, T)
<1> DEFINE B == {V \in SUBSET T : \E U \in SUBSET S :
                   /\ \A x \in U : h[x] \in V
                   /\ ~(Total(F, U) <= Total(G, V))}
<1> SUFFICES ASSUME ~(Total(F, S) <= Total(G, T)) PROVE FALSE
  OBVIOUS
<1>0. B \in SUBSET (SUBSET T) /\ B # {}
  <2>1. T \in B
    OBVIOUS
  <2>2. QED BY <2>1
<1>1. PICK V \in B : \A W \in B : ~(W \subseteq V /\ W # V)
  <2> HIDE DEF B
  <2>1. QED BY <1>0, Smallest
<1>2. PICK U \in SUBSET S : (\A x \in U : h[x] \in V) /\ ~(Total(F, U) <= Total(G, V))
  BY <1>1
<1>3. IsFiniteSet(U) /\ IsFiniteSet(V) /\ V \subseteq T /\ Numbers(F, U) /\ Numbers(G, V)
  BY <1>1, <1>2, FS_Subset DEF Numbers
<1>4. Total(G, V) \in Nat
  BY <1>3, TotalNat
<1>5. PICK x \in U : TRUE
  <2>1. U # {}
    BY <1>2, <1>4, TotalEmpty
  <2>2. QED BY <2>1
<1> DEFINE y == h[x]
           U1 == U \ {x}
           V1 == V \ {y}
<1>6. Total(F, U) = F[x] + Total(F, U1) /\ Total(G, V) = G[y] + Total(G, V1)
  BY <1>2, <1>3, <1>5, TotalOne
<1>7. \A z \in U1 : h[z] \in V1
  BY <1>2, <1>5
<1>8. Total(F, U1) <= Total(G, V1)
  <2>1. V1 \subseteq V /\ V1 # V /\ V1 \in SUBSET T /\ U1 \in SUBSET S
    BY <1>2, <1>3, <1>5
  <2>2. V1 \notin B
    BY <1>1, <2>1
  <2>3. QED
    BY <1>7, <2>1, <2>2
<1>9. Total(F, U1) \in Nat /\ Total(G, V1) \in Nat
  BY <1>3, TotalNat
<1>10. F[x] \in Nat /\ G[y] \in Nat /\ F[x] <= G[y]
  BY <1>2, <1>3, <1>5 DEF Numbers
<1> HIDE DEF U1, V1, y
<1>11. QED
  BY <1>2, <1>6, <1>8, <1>9, <1>10

\* A sum grows with its set and with its terms.
LEMMA TotalMono ==
  ASSUME NEW F, NEW G, NEW S, NEW T \in SUBSET S, IsFiniteSet(S), Numbers(F, T), Numbers(G, S),
         \A x \in T : F[x] <= G[x]
  PROVE  Total(F, T) <= Total(G, S)
<1> DEFINE h == [x \in T |-> x]
<1>1. h \in [T -> S] /\ (\A x, y \in T : h[x] = h[y] => x = y) /\ \A x \in T : F[x] <= G[h[x]]
  OBVIOUS
<1>2. IsFiniteSet(T)
  BY FS_Subset
<1> HIDE DEF h
<1>3. QED
  BY <1>1, <1>2, TotalInto

\* The sum of the sums is the sum of the terms added in pairs.
LEMMA TotalPlus ==
  ASSUME NEW F, NEW G, NEW H, NEW S, IsFiniteSet(S), Numbers(F, S), Numbers(G, S),
         \A x \in S : H[x] = F[x] + G[x]
  PROVE  Total(H, S) = Total(F, S) + Total(G, S)
<1> DEFINE B == {T \in SUBSET S : Total(H, T) # Total(F, T) + Total(G, T)}
<1> SUFFICES ASSUME B # {} PROVE FALSE
  OBVIOUS
<1>0. B \in SUBSET (SUBSET S)
  OBVIOUS
<1>1. PICK T \in B : \A U \in B : ~(U \subseteq T /\ U # T)
  <2> HIDE DEF B
  <2>1. QED BY <1>0, Smallest
<1>2. T # {}
  <2>1. Total(H, {}) = 0 /\ Total(F, {}) = 0 /\ Total(G, {}) = 0
    BY TotalEmpty
  <2>2. {} \notin B
    BY <2>1
  <2>3. QED BY <1>1, <2>2
<1>3. PICK x \in T : TRUE
  BY <1>2
<1> DEFINE R == T \ {x}
<1>4. IsFiniteSet(T) /\ Numbers(F, T) /\ Numbers(G, T) /\ Numbers(H, T)
  BY <1>1, FS_Subset DEF Numbers
<1>5. /\ Total(F, T) = F[x] + Total(F, R)
      /\ Total(G, T) = G[x] + Total(G, R)
      /\ Total(H, T) = H[x] + Total(H, R)
  BY <1>3, <1>4, TotalOne
<1>6. Total(F, R) \in Nat /\ Total(G, R) \in Nat
  BY <1>4, TotalNat
<1>7. Total(H, R) = Total(F, R) + Total(G, R)
  <2>1. R \notin B
    BY <1>1, <1>3
  <2>2. QED BY <1>1, <2>1
<1>8. F[x] \in Nat /\ G[x] \in Nat /\ H[x] = F[x] + G[x]
  BY <1>1, <1>3, <1>4 DEF Numbers
<1>9. Total(H, T) # Total(F, T) + Total(G, T)
  BY <1>1
<1> HIDE DEF R
<1>10. QED
  BY <1>5, <1>6, <1>7, <1>8, <1>9

\* A sum whose terms are all 0 is 0.
LEMMA TotalZero ==
  ASSUME NEW F, NEW S, IsFiniteSet(S), \A x \in S : F[x] = 0
  PROVE  Total(F, S) = 0
<1>1. Numbers(F, S) /\ \A x \in S : F[x] = F[x] + F[x]
  BY DEF Numbers
<1>2. Total(F, S) = Total(F, S) + Total(F, S)
  BY <1>1, TotalPlus
<1>3. Total(F, S) \in Nat
  BY <1>1, TotalNat
<1> DEFINE t == Total(F, S)
<1>4. t = t + t /\ t \in Nat
  BY <1>2, <1>3
<1> HIDE DEF t
<1>5. t = 0
  BY <1>4
<1>6. QED
  BY <1>5 DEF t
=============================================================================
