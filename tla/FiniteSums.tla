------------------------------ MODULE FiniteSums ------------------------------
(***************************************************************************)
(* Facts about finite sets, about recursion over their subsets and about   *)
(* sums over them, that the proofs of several modules rest on. SumFunction *)
(* is defined by taking the members of its domain in some order, one by    *)
(* one; what is proved of it here is that the order does not matter, so    *)
(* that a member can be added or taken away.                               *)
(*                                                                         *)
(* Induction is stated for a set in place of a predicate: a lemma cannot   *)
(* be given an operator, but it can be given the set of those that are as  *)
(* they should be.                                                         *)
(***************************************************************************)
EXTENDS Integers, FiniteSets, Functions, FiniteSetTheorems, WellFoundedInduction, TLAPS

(* Some member of a nonempty set of naturals is the least. *)
LEMMA Least ==
  ASSUME NEW T \in SUBSET Nat, T # {}
  PROVE  \E n \in T : \A m \in T : n <= m
<1>1. PICK n \in T : \A m \in T : ~(<<m, n>> \in OpToRel(<, Nat))
  BY WFMin, NatLessThanWellFounded
<1>2. \A m \in T : n <= m
  <2> TAKE m \in T
  <2>1. m \in Nat /\ n \in Nat
    BY <1>1
  <2>2. ~(m < n)
    BY <1>1, <2>1 DEF OpToRel
  <2> QED BY <2>1, <2>2
<1> QED BY <1>2

(* What holds of nought and of each number's next holds of all. *)
LEMMA CountUp ==
  ASSUME NEW G, 0 \in G, \A n \in Nat : n \in G => n + 1 \in G
  PROVE  \A n \in Nat : n \in G
<1> DEFINE Bad == Nat \ G
<1>1. ASSUME Bad # {} PROVE FALSE
  <2>1. PICK n \in Bad : \A m \in Bad : n <= m
    BY <1>1, Least
  <2>2. n \in Nat /\ n # 0
    OBVIOUS
  <2>3. n - 1 \in Nat /\ ~(n <= n - 1) /\ (n - 1) + 1 = n
    BY <2>2
  <2>4. n - 1 \in G
    BY <2>1, <2>3
  <2>5. n \in G
    BY <2>3, <2>4
  <2> QED BY <2>5
<1> QED BY <1>1

(* What holds of no members, and of a part of S when it holds of the part
   without one of its members, holds of S. *)
LEMMA TakeAway ==
  ASSUME NEW S, IsFiniteSet(S), NEW G, {} \in G,
         \A T \in SUBSET S : T # {} => \E x \in T : T \ {x} \in G => T \in G
  PROVE  \A T \in SUBSET S : T \in G
<1> DEFINE H == {n \in Nat : \A T \in SUBSET S : Cardinality(T) = n => T \in G}
<1>1. \A T \in SUBSET S : IsFiniteSet(T) /\ Cardinality(T) \in Nat
  BY FS_Subset, FS_CardinalityType
<1>2. 0 \in H
  BY <1>1, FS_EmptySet
<1>3. ASSUME NEW n \in Nat, n \in H PROVE n + 1 \in H
  <2> SUFFICES ASSUME NEW T \in SUBSET S, Cardinality(T) = n + 1 PROVE T \in G
    OBVIOUS
  <2>1. T # {}
    BY <1>1, FS_EmptySet
  <2>2. PICK x \in T : T \ {x} \in G => T \in G
    BY <2>1
  <2>3. Cardinality(T \ {x}) = (n + 1) - 1
    BY <1>1, FS_RemoveElement
  <2>4. T \ {x} \in SUBSET S /\ Cardinality(T \ {x}) = n
    BY <2>3
  <2> QED BY <1>3, <2>2, <2>4
<1>4. \A n \in Nat : n \in H
  <2> HIDE DEF H
  <2> QED BY <1>2, <1>3, CountUp
<1> QED BY <1>1, <1>4

(* Values for the parts of a finite set, that of a part computed from that of
   the part without the member that is picked, do exist. *)
Picks(pick, S) == \A T \in SUBSET S : T # {} => pick[T] \in T

Steps(step, S, V) == \A v \in V : \A x \in S : step[<<v, x>>] \in V

Recursions(S, pick, V, base, step) ==
  {f \in [SUBSET S -> V] :
     /\ f[{}] = base
     /\ \A T \in SUBSET S : T # {} => f[T] = step[<<f[T \ {pick[T]}], pick[T]>>]}

LEMMA Recursion ==
  ASSUME NEW S, IsFiniteSet(S), NEW pick, Picks(pick, S),
         NEW V, NEW base, base \in V, NEW step, Steps(step, S, V)
  PROVE  \E f : f \in Recursions(S, pick, V, base, step)
<1> USE DEF Picks, Steps, Recursions
<1> DEFINE Right(f, T) == T # {} => f[T] = step[<<f[T \ {pick[T]}], pick[T]>>]
           F == {f \in [SUBSET S -> V] : f[{}] = base}
           G == {n \in Nat : \E f \in F : \A T \in SUBSET S : Cardinality(T) <= n => Right(f, T)}
<1>1. \A T \in SUBSET S : IsFiniteSet(T) /\ Cardinality(T) \in Nat
  BY FS_Subset, FS_CardinalityType
<1>2. 0 \in G
  <2>1. \A T \in SUBSET S : Cardinality(T) <= 0 => T = {}
    BY <1>1, FS_EmptySet
  <2>2. [T \in SUBSET S |-> base] \in F
    OBVIOUS
  <2> QED BY <2>1, <2>2
<1>3. ASSUME NEW n \in Nat, n \in G PROVE n + 1 \in G
  <2>1. PICK f \in F : \A T \in SUBSET S : Cardinality(T) <= n => Right(f, T)
    BY <1>3
  <2> DEFINE g == [T \in SUBSET S |-> IF Cardinality(T) = n + 1
                                      THEN step[<<f[T \ {pick[T]}], pick[T]>>] ELSE f[T]]
  <2>2. \A T \in SUBSET S : T # {} => /\ T \ {pick[T]} \in SUBSET S
                                      /\ Cardinality(T \ {pick[T]}) = Cardinality(T) - 1
    <3> TAKE T \in SUBSET S
    <3> HAVE T # {}
    <3>1. PICK x \in T : x = pick[T]
      OBVIOUS
    <3>2. Cardinality(T \ {x}) = Cardinality(T) - 1
      BY <1>1, FS_RemoveElement
    <3> QED BY <3>1, <3>2
  <2>3. Cardinality({}) = 0
    BY FS_EmptySet
  <2>4. g \in F
    <3>1. ASSUME NEW T \in SUBSET S, Cardinality(T) = n + 1
          PROVE  step[<<f[T \ {pick[T]}], pick[T]>>] \in V
      <4>1. T # {}
        BY <1>1, <3>1, FS_EmptySet
      <4>2. f[T \ {pick[T]}] \in V /\ pick[T] \in S
        BY <2>2, <4>1
      <4> QED BY <4>2
    <3>2. g \in [SUBSET S -> V]
      BY <3>1
    <3>3. g[{}] = base
      BY <2>3
    <3> HIDE DEF g
    <3> QED BY <3>2, <3>3
  <2>5. ASSUME NEW T \in SUBSET S, Cardinality(T) <= n + 1 PROVE Right(g, T)
    <3> SUFFICES ASSUME T # {} PROVE g[T] = step[<<g[T \ {pick[T]}], pick[T]>>]
      OBVIOUS
    <3>1. g[T \ {pick[T]}] = f[T \ {pick[T]}]
      BY <1>1, <2>2, <2>5
    <3>2. CASE Cardinality(T) = n + 1
      BY <3>1, <3>2
    <3>3. CASE Cardinality(T) # n + 1
      <4>1. g[T] = f[T] /\ Cardinality(T) <= n
        BY <1>1, <2>5, <3>3
      <4> QED BY <2>1, <3>1, <4>1
    <3> QED BY <3>2, <3>3
  <2>6. n + 1 \in Nat
    OBVIOUS
  <2> HIDE DEF g, Right, F
  <2> QED BY <2>4, <2>5, <2>6
<1>4. \A n \in Nat : n \in G
  <2> HIDE DEF G
  <2> QED BY <1>2, <1>3, CountUp
<1>5. Cardinality(S) \in Nat /\ \A T \in SUBSET S : Cardinality(T) <= Cardinality(S)
  BY <1>1, FS_Subset
<1>6. PICK f \in F : \A T \in SUBSET S : Cardinality(T) <= Cardinality(S) => Right(f, T)
  BY <1>4, <1>5
<1> QED BY <1>5, <1>6

(* So do those of the first numbers, the next computed from the one before. *)
Chains(n, V, base, step) ==
  {f \in [0 .. n -> V] : f[0] = base /\ \A i \in 1 .. n : f[i] = step[f[i - 1]]}

LEMMA Iteration ==
  ASSUME NEW V, NEW base, base \in V, NEW step, \A v \in V : step[v] \in V, NEW n \in Nat
  PROVE  \E f : f \in Chains(n, V, base, step)
<1> DEFINE G == {k \in Nat : \E f : f \in Chains(k, V, base, step)}
<1>1. 0 \in G
  <2>1. PICK f : f = [i \in 0 .. 0 |-> base]
    OBVIOUS
  <2>2. f \in Chains(0, V, base, step)
    BY <2>1 DEF Chains
  <2> QED BY <2>2
<1>2. ASSUME NEW k \in Nat, k \in G PROVE k + 1 \in G
  <2>1. PICK f : f \in Chains(k, V, base, step)
    BY <1>2
  <2>2. f \in [0 .. k -> V] /\ f[0] = base /\ \A i \in 1 .. k : f[i] = step[f[i - 1]]
    BY <2>1 DEF Chains
  <2>3. PICK v \in V : v = step[f[k]]
    BY <2>2
  <2>4. PICK g : g = [i \in 0 .. k + 1 |-> IF i = k + 1 THEN v ELSE f[i]]
    OBVIOUS
  <2>5. g \in [0 .. k + 1 -> V] /\ g[0] = base
    BY <2>2, <2>4
  <2>6. ASSUME NEW i \in 1 .. k + 1 PROVE g[i] = step[g[i - 1]]
    <3>1. i - 1 \in 0 .. k /\ g[i - 1] = f[i - 1]
      BY <2>4
    <3>2. CASE i = k + 1
      BY <2>3, <2>4, <3>1, <3>2
    <3>3. CASE i # k + 1
      <4>1. i \in 1 .. k /\ g[i] = f[i]
        BY <2>4, <3>3
      <4> QED BY <2>2, <3>1, <4>1
    <3> QED BY <3>2, <3>3
  <2>7. g \in Chains(k + 1, V, base, step)
    BY <2>5, <2>6 DEF Chains
  <2> QED BY <2>7
<1>3. \A k \in Nat : k \in G
  <2> HIDE DEF G
  <2> QED BY <1>1, <1>2, CountUp
<1> QED BY <1>3

(* What goes on by the same step as long as it is in V, from V, is one. *)
Follows(n, V, step, f) ==
  /\ f = [i \in 0 .. n |-> f[i]]
  /\ \A i \in 1 .. n : f[i - 1] \in V => f[i] = step[f[i - 1]]

LEMMA IsChain ==
  ASSUME NEW V, NEW base, base \in V, NEW step, \A v \in V : step[v] \in V, NEW n \in Nat,
         NEW f, f[0] = base, Follows(n, V, step, f)
  PROVE  f \in Chains(n, V, base, step)
<1> DEFINE G == {i \in Nat : i <= n => f[i] \in V}
<1>1. \A i \in Nat : i \in G
  <2>1. 0 \in G
    OBVIOUS
  <2>2. ASSUME NEW i \in Nat, i \in G PROVE i + 1 \in G
    <3>1. ASSUME i + 1 <= n PROVE f[i + 1] \in V
      <4>1. i + 1 \in 1 .. n /\ (i + 1) - 1 = i /\ f[i] \in V
        BY <2>2, <3>1
      <4>2. f[i + 1] = step[f[i]]
        BY <4>1 DEF Follows
      <4> QED BY <4>1, <4>2
    <3> QED BY <3>1
  <2> HIDE DEF G
  <2> QED BY <2>1, <2>2, CountUp
<1>2. \A i \in 0 .. n : f[i] \in V
  BY <1>1
<1>3. ASSUME NEW i \in 1 .. n PROVE f[i] = step[f[i - 1]]
  <2>1. i - 1 \in 0 .. n
    OBVIOUS
  <2> QED BY <1>2, <2>1 DEF Follows
<1> QED BY <1>2, <1>3 DEF Chains, Follows

(* Finite sets that do not meet are counted one by one. *)
LEMMA DisjointParts ==
  ASSUME NEW A, NEW B, IsFiniteSet(A), IsFiniteSet(B), A \cap B = {}
  PROVE  /\ IsFiniteSet(A \cup B)
         /\ Cardinality(A \cup B) = Cardinality(A) + Cardinality(B)
<1>1. Cardinality(A) \in Nat /\ Cardinality(B) \in Nat
  BY FS_CardinalityType
<1>2. PICK n : n = Cardinality(A \cap B)
  OBVIOUS
<1>3. n = 0
  BY <1>2, FS_EmptySet
<1>4. /\ IsFiniteSet(A \cup B)
      /\ Cardinality(A \cup B) = Cardinality(A) + Cardinality(B) - n
  BY <1>2, FS_Union
<1> QED BY <1>1, <1>3, <1>4

(* The image of a finite set under a function. *)
LEMMA ImageOf ==
  ASSUME NEW S, IsFiniteSet(S), NEW f
  PROVE  LET T == {f[x] : x \in S} IN
         /\ IsFiniteSet(T)
         /\ (\A x, y \in S : f[x] = f[y] => x = y) => Cardinality(T) = Cardinality(S)
<1> DEFINE T == {f[x] : x \in S}
           g == [x \in S |-> f[x]]
<1>1. g \in Surjection(S, T)
  BY DEF Surjection
<1>2. IsFiniteSet(T) /\ (Cardinality(T) = Cardinality(S) <=> g \in Injection(S, T))
  <2> HIDE DEF g, T
  <2>1. \E h : h \in Surjection(S, T)
    BY <1>1
  <2> QED BY <1>1, FS_Surjection
<1>3. (\A x, y \in S : f[x] = f[y] => x = y) => g \in Injection(S, T)
  BY DEF Injection, IsInjective
<1> QED BY <1>2, <1>3

-----------------------------------------------------------------------------
(* A way to give every part of S a sum of w: whichever member is taken away,
   the sum is less by what that member weighs. *)
Sums(S, w) ==
  {h \in [SUBSET S -> Int] :
     h[{}] = 0 /\ \A T \in SUBSET S : \A x \in T : h[T] = w[x] + h[T \ {x}]}

(* One more member. *)
LEMMA SumsGrow ==
  ASSUME NEW E, NEW x, x \notin E, NEW w,
         \A y \in E \cup {x} : w[y] \in Int, NEW h \in Sums(E, w)
  PROVE  \E g : g \in Sums(E \cup {x}, w)
<1> DEFINE F == E \cup {x}
           g == [T \in SUBSET F |-> IF x \in T THEN w[x] + h[T \ {x}] ELSE h[T]]
<1>1. \A T \in SUBSET E : h[T] \in Int
  BY DEF Sums
<1>2. \A T \in SUBSET F : /\ T \ {x} \in SUBSET E
                          /\ x \notin T => T \in SUBSET E
  OBVIOUS
<1>3. g \in [SUBSET F -> Int]
  BY <1>1, <1>2
<1>4. g[{}] = 0
  BY DEF Sums
<1>5. ASSUME NEW T \in SUBSET F, NEW y \in T
      PROVE  g[T] = w[y] + g[T \ {y}]
  <2>1. T \ {y} \in SUBSET F
    OBVIOUS
  <2>2. CASE y = x
    BY <2>1, <2>2
  <2>3. CASE y # x /\ x \in T
    <3>1. g[T] = w[x] + h[T \ {x}] /\ g[T \ {y}] = w[x] + h[(T \ {y}) \ {x}]
      BY <2>1, <2>3
    <3>2. (T \ {y}) \ {x} = (T \ {x}) \ {y}
      OBVIOUS
    <3>3. y \in T \ {x} /\ T \ {x} \in SUBSET E
      BY <1>2, <2>3
    <3>4. h[T \ {x}] = w[y] + h[(T \ {x}) \ {y}]
      BY <3>3 DEF Sums
    <3>5. h[T \ {x}] \in Int /\ h[(T \ {x}) \ {y}] \in Int
      BY <1>1, <3>3
    <3>6. PICK a \in Int, b \in Int : a = h[T \ {x}] /\ b = h[(T \ {x}) \ {y}] /\ a = w[y] + b
      BY <3>4, <3>5
    <3>7. PICK c \in Int : c = w[y]
      OBVIOUS
    <3>8. PICK d \in Int : d = w[x]
      OBVIOUS
    <3>9. g[T] = d + a /\ g[T \ {y}] = d + b
      BY <3>1, <3>2, <3>6, <3>8
    <3> HIDE DEF g
    <3> QED BY <3>6, <3>7, <3>9
  <2>4. CASE x \notin T
    <3>1. g[T] = h[T] /\ g[T \ {y}] = h[T \ {y}] /\ T \in SUBSET E
      BY <1>2, <2>1, <2>4
    <3> HIDE DEF g
    <3> QED BY <3>1 DEF Sums
  <2> QED BY <2>2, <2>3, <2>4
<1> HIDE DEF g
<1>6. g \in Sums(F, w)
  BY <1>3, <1>4, <1>5 DEF Sums
<1> QED BY <1>6

(* Every weighing of a finite set has sums. *)
LEMMA SumsExist ==
  ASSUME NEW S, IsFiniteSet(S), NEW w, \A x \in S : w[x] \in Int
  PROVE  \E h : h \in Sums(S, w)
<1> DEFINE Bad == {n \in Nat : \E E \in SUBSET S :
                     IsFiniteSet(E) /\ Cardinality(E) = n /\ ~\E h : h \in Sums(E, w)}
<1>1. ASSUME Bad # {} PROVE FALSE
  <2>1. PICK n \in Bad : \A m \in Bad : n <= m
    BY <1>1, Least
  <2>2. PICK E \in SUBSET S :
          IsFiniteSet(E) /\ Cardinality(E) = n /\ ~\E h : h \in Sums(E, w)
    OBVIOUS
  <2>3. CASE E = {}
    <3>1. [T \in SUBSET E |-> 0] \in Sums(E, w)
      BY <2>3 DEF Sums
    <3> QED BY <2>2, <3>1
  <2>4. CASE E # {}
    <3>1. PICK x \in E : TRUE
      BY <2>4
    <3>2. IsFiniteSet(E \ {x}) /\ Cardinality(E \ {x}) = n - 1 /\ n - 1 \in Nat
      BY <2>2, FS_RemoveElement, FS_CardinalityType, FS_EmptySet
    <3>3. ~(n - 1 \in Bad)
      BY <2>1, <3>2
    <3>4. PICK h : h \in Sums(E \ {x}, w)
      BY <3>2, <3>3
    <3>5. (E \ {x}) \cup {x} = E
      OBVIOUS
    <3>6. PICK D : D = E \ {x}
      OBVIOUS
    <3>7. \E g : g \in Sums(D \cup {x}, w)
      BY <3>4, <3>6, SumsGrow
    <3> QED BY <2>2, <3>5, <3>6, <3>7
  <2> QED BY <2>3, <2>4
<1>2. Cardinality(S) \in Nat
  BY FS_CardinalityType
<1> QED BY <1>1, <1>2

(* There is one way only, and it is what SumFunction computes, in whichever
   order it takes the members. *)
LEMMA SumIs ==
  ASSUME NEW f, IsFiniteSet(DOMAIN f), NEW h \in Sums(DOMAIN f, f)
  PROVE  SumFunction(f) = h[DOMAIN f]
<1> DEFINE D == DOMAIN f
           Step(g) == [s \in SUBSET D |->
             IF s = {} THEN 0
             ELSE LET x == CHOOSE x \in s : TRUE IN f[x] + g[s \ {x}]]
           iter == CHOOSE g : g = Step(g)
<1>1. SumFunction(f) = iter[D]
  BY DEF SumFunction, SumFunctionOnSet, FoldFunctionOnSet, MapThenFoldSet
<1>2. h = Step(h)
  <2>1. ASSUME NEW s \in SUBSET D, s # {}
        PROVE  h[s] = f[CHOOSE x \in s : TRUE] + h[s \ {CHOOSE x \in s : TRUE}]
    <3>1. (CHOOSE x \in s : TRUE) \in s
      BY <2>1
    <3> QED BY <3>1 DEF Sums
  <2> QED BY <2>1 DEF Sums
<1>3. iter = Step(iter)
  <2>1. \E g : g = Step(g)
    BY <1>2
  <2> HIDE DEF Step
  <2> QED BY <2>1
<1> HIDE DEF iter
<1>4. \A s \in SUBSET D : s # {} =>
        \E x \in s : iter[s] = f[x] + iter[s \ {x}] /\ h[s] = f[x] + h[s \ {x}]
  <2> TAKE s \in SUBSET D
  <2> HAVE s # {}
  <2>1. PICK x \in s : x = CHOOSE y \in s : TRUE
    OBVIOUS
  <2>2. iter[s] = f[x] + iter[s \ {x}]
    BY <1>3, <2>1
  <2> QED BY <2>2 DEF Sums
<1>5. iter[{}] = 0 /\ h[{}] = 0
  BY <1>3 DEF Sums
<1> DEFINE Bad == {n \in Nat : \E s \in SUBSET D : Cardinality(s) = n /\ iter[s] # h[s]}
<1>6. ASSUME Bad # {} PROVE FALSE
  <2> HIDE DEF Step
  <2>1. PICK n \in Bad : \A m \in Bad : n <= m
    BY <1>6, Least
  <2>2. PICK s \in SUBSET D : Cardinality(s) = n /\ iter[s] # h[s]
    OBVIOUS
  <2>3. s # {}
    BY <1>5, <2>2
  <2>4. PICK x \in s : iter[s] = f[x] + iter[s \ {x}] /\ h[s] = f[x] + h[s \ {x}]
    BY <1>4, <2>3
  <2>5. IsFiniteSet(s)
    BY FS_Subset
  <2>6. Cardinality(s \ {x}) = n - 1 /\ n - 1 \in Nat
    <3>1. Cardinality(s \ {x}) = Cardinality(s) - 1 /\ IsFiniteSet(s \ {x})
      BY <2>5, FS_RemoveElement
    <3>2. Cardinality(s \ {x}) \in Nat
      BY <3>1, FS_CardinalityType
    <3> QED BY <2>2, <3>1, <3>2
  <2>7. ~(n - 1 \in Bad)
    BY <2>1, <2>6
  <2>8. iter[s \ {x}] = h[s \ {x}]
    BY <2>6, <2>7
  <2> QED BY <2>2, <2>4, <2>8
<1>7. Cardinality(D) \in Nat
  BY FS_CardinalityType
<1>8. iter[D] = h[D]
  BY <1>6, <1>7
<1> QED BY <1>1, <1>8

-----------------------------------------------------------------------------
(* The sums over the parts of one finite set. *)
LEMMA SumOfParts ==
  ASSUME NEW S, IsFiniteSet(S), NEW w, \A x \in S : w[x] \in Int
  PROVE  \E h \in Sums(S, w) : \A T \in SUBSET S : SumFunction([x \in T |-> w[x]]) = h[T]
<1>1. PICK h : h \in Sums(S, w)
  BY SumsExist
<1>2. ASSUME NEW T \in SUBSET S
      PROVE  SumFunction([x \in T |-> w[x]]) = h[T]
  <2>1. PICK f : f = [x \in T |-> w[x]]
    OBVIOUS
  <2>2. PICK g : g = [U \in SUBSET T |-> h[U]]
    OBVIOUS
  <2>3. DOMAIN f = T /\ IsFiniteSet(DOMAIN f)
    BY <2>1, FS_Subset
  <2>4. g \in Sums(DOMAIN f, f)
    <3>1. g \in [SUBSET T -> Int] /\ g[{}] = 0
      BY <1>1, <2>2 DEF Sums
    <3>2. ASSUME NEW U \in SUBSET T, NEW x \in U PROVE g[U] = f[x] + g[U \ {x}]
      BY <1>1, <2>1, <2>2 DEF Sums
    <3> QED BY <2>3, <3>1, <3>2 DEF Sums
  <2>5. SumFunction(f) = g[DOMAIN f]
    BY <2>3, <2>4, SumIs
  <2> QED BY <2>1, <2>2, <2>3, <2>5
<1> QED BY <1>1, <1>2

(* The sum of nothing; of one more; of naturals, and of a part of them. *)
LEMMA SumOfNone == SumFunction([x \in {} |-> x]) = 0
<1>1. PICK h \in Sums({}, [x \in {} |-> x]) :
        \A T \in SUBSET {} : SumFunction([x \in T |-> [y \in {} |-> y][x]]) = h[T]
  BY FS_EmptySet, SumOfParts
<1>2. [x \in {} |-> [y \in {} |-> y][x]] = [x \in {} |-> x]
  OBVIOUS
<1> QED BY <1>1, <1>2 DEF Sums

LEMMA SumIsInt ==
  ASSUME NEW S, IsFiniteSet(S), NEW w, \A x \in S : w[x] \in Int
  PROVE  SumFunction([x \in S |-> w[x]]) \in Int
<1>1. PICK h \in Sums(S, w) : \A T \in SUBSET S : SumFunction([x \in T |-> w[x]]) = h[T]
  BY SumOfParts
<1>2. h[S] \in Int
  BY DEF Sums
<1> QED BY <1>1, <1>2

LEMMA SumGrows ==
  ASSUME NEW S, IsFiniteSet(S), NEW w, \A x \in S : w[x] \in Int,
         NEW x \in S, NEW T, T = S \ {x}
  PROVE  SumFunction([y \in S |-> w[y]]) = w[x] + SumFunction([y \in T |-> w[y]])
<1>1. PICK h \in Sums(S, w) : \A U \in SUBSET S : SumFunction([y \in U |-> w[y]]) = h[U]
  BY SumOfParts
<1>2. h[S] = w[x] + h[T]
  BY DEF Sums
<1> QED BY <1>1, <1>2

LEMMA SumOfNaturals ==
  ASSUME NEW S, IsFiniteSet(S), NEW w, \A x \in S : w[x] \in Nat, NEW T \in SUBSET S
  PROVE  /\ SumFunction([x \in S |-> w[x]]) \in Nat
         /\ SumFunction([x \in T |-> w[x]]) \in Nat
         /\ SumFunction([x \in T |-> w[x]]) <= SumFunction([x \in S |-> w[x]])
<1>1. PICK h \in Sums(S, w) : \A U \in SUBSET S : SumFunction([x \in U |-> w[x]]) = h[U]
  BY SumOfParts
<1>2. \A U \in SUBSET S : h[U] \in Int
  BY DEF Sums
(* A part that is least among those that break this is not empty, and taking a
   member away breaks it for a lesser one. *)
<1> DEFINE Low(U) == h[U] < 0 \/ h[U] < h[U \cap T]
           Bad == {n \in Nat : \E U \in SUBSET S : Cardinality(U) = n /\ Low(U)}
<1>3. ASSUME Bad # {} PROVE FALSE
  <2>1. PICK n \in Bad : \A m \in Bad : n <= m
    BY <1>3, Least
  <2>2. PICK U \in SUBSET S : Cardinality(U) = n /\ Low(U)
    OBVIOUS
  <2>3. U # {}
    <3>1. h[{}] = 0
      BY DEF Sums
    <3>2. CASE U = {}
      <4>1. U \cap T = {}
        BY <3>2
      <4> QED BY <2>2, <3>1, <3>2, <4>1
    <3> QED BY <3>2
  <2>4. PICK x \in U : TRUE
    BY <2>3
  <2>5. PICK V : V = U \ {x}
    OBVIOUS
  <2>6. Cardinality(V) = n - 1 /\ n - 1 \in Nat /\ V \in SUBSET S
    <3>1. IsFiniteSet(U)
      BY FS_Subset
    <3>2. Cardinality(V) = Cardinality(U) - 1 /\ IsFiniteSet(V)
      BY <2>5, <3>1, FS_RemoveElement
    <3>3. Cardinality(V) \in Nat
      BY <3>2, FS_CardinalityType
    <3> QED BY <2>2, <2>5, <3>2, <3>3
  <2>7. ~Low(V)
    <3> HIDE DEF Low
    <3> QED BY <2>1, <2>6
  <2>8. PICK a \in Nat : a = w[x]
    OBVIOUS
  <2>9. h[U] = a + h[V]
    BY <2>5, <2>8 DEF Sums
  <2>10. h[U \cap T] = (IF x \in T THEN a ELSE 0) + h[V \cap T]
    <3>1. CASE x \in T
      <4>1. x \in U \cap T /\ (U \cap T) \ {x} = V \cap T /\ U \cap T \in SUBSET S
        BY <2>5, <3>1
      <4>2. h[U \cap T] = w[x] + h[(U \cap T) \ {x}]
        BY <4>1 DEF Sums
      <4> QED BY <2>8, <3>1, <4>1, <4>2
    <3>2. CASE x \notin T
      <4>1. U \cap T = V \cap T /\ V \cap T \in SUBSET S
        BY <2>5, <3>2
      <4>2. PICK b \in Int : b = h[V \cap T]
        BY <1>2, <4>1
      <4>3. h[U \cap T] = b
        BY <4>1, <4>2
      <4> QED BY <3>2, <4>2, <4>3
    <3> QED BY <3>1, <3>2
  <2>11. V \cap T \in SUBSET S /\ U \cap T \in SUBSET S
    OBVIOUS
  <2>12. PICK c \in Int, d \in Int : c = h[V] /\ d = h[V \cap T]
    BY <1>2, <2>6, <2>11
  <2> QED BY <2>2, <2>7, <2>8, <2>9, <2>10, <2>12
<1>4. \A U \in SUBSET S : ~Low(U)
  <2> TAKE U \in SUBSET S
  <2>1. Cardinality(U) \in Nat
    BY FS_Subset, FS_CardinalityType
  <2> HIDE DEF Low
  <2> QED BY <1>3, <2>1
<1>5. S \cap T = T /\ T \cap T = T
  OBVIOUS
<1>6. S \in SUBSET S
  OBVIOUS
<1>7. ~Low(S) /\ ~Low(T)
  <2> HIDE DEF Low
  <2> QED BY <1>4, <1>6
<1>8. PICK a \in Int, b \in Int : a = h[S] /\ b = h[T]
  BY <1>2, <1>6
<1>9. ~(a < 0) /\ ~(b < 0) /\ ~(a < b)
  BY <1>5, <1>7, <1>8
<1> QED BY <1>1, <1>6, <1>8, <1>9

(* One member apart from the rest. *)
LEMMA SumWithout ==
  ASSUME NEW S, IsFiniteSet(S), NEW f \in [S -> Int], NEW x \in S,
         NEW T, T = S \ {x}, NEW g, g = [y \in T |-> f[y]]
  PROVE  /\ SumFunction(f) \in Int /\ SumFunction(g) \in Int
         /\ SumFunction(f) = f[x] + SumFunction(g)
<1>1. f = [y \in S |-> f[y]] /\ g = [y \in T |-> f[y]]
  OBVIOUS
<1>2. \A y \in S : f[y] \in Int
  OBVIOUS
<1>3. \A y \in T : f[y] \in Int
  OBVIOUS
<1>4. IsFiniteSet(T)
  BY FS_Subset
<1>5. SumFunction([y \in S |-> f[y]]) = f[x] + SumFunction([y \in T |-> f[y]])
  BY <1>2, SumGrows
<1>6. SumFunction([y \in S |-> f[y]]) \in Int
  BY <1>2, SumIsInt
<1>7. SumFunction([y \in T |-> f[y]]) \in Int
  BY <1>3, <1>4, SumIsInt
<1> QED BY <1>1, <1>5, <1>6, <1>7

(* A part and the rest. *)
LEMMA SumSplits ==
  ASSUME NEW S, IsFiniteSet(S), NEW w, \A x \in S : w[x] \in Int, NEW T \in SUBSET S,
         NEW R, R = S \ T
  PROVE  SumFunction([x \in S |-> w[x]])
           = SumFunction([x \in T |-> w[x]]) + SumFunction([x \in R |-> w[x]])
<1>1. PICK h \in Sums(S, w) : \A U \in SUBSET S : SumFunction([x \in U |-> w[x]]) = h[U]
  BY SumOfParts
<1>2. \A U \in SUBSET S : h[U] \in Int /\ h[U \cap T] \in Int /\ h[U \ T] \in Int
  BY DEF Sums
<1>3. h[{}] = 0 /\ \A U \in SUBSET S : \A x \in U : h[U] = w[x] + h[U \ {x}]
  BY DEF Sums
<1> DEFINE G == {U \in SUBSET S : h[U] = h[U \cap T] + h[U \ T]}
<1>4. {} \in G
  <2>1. {} \cap T = {} /\ {} \ T = {}
    OBVIOUS
  <2> QED BY <1>3, <2>1
<1>5. ASSUME NEW U \in SUBSET S, NEW x \in U, U \ {x} \in G PROVE U \in G
  <2>1. PICK V : V = U \ {x}
    OBVIOUS
  <2>2. V \in SUBSET S /\ h[V] = h[V \cap T] + h[V \ T]
    BY <1>5, <2>1
  <2>3. h[U] = w[x] + h[V] /\ w[x] \in Int
    BY <1>3, <2>1
  <2>4. PICK a \in Int : a = w[x]
    BY <2>3
  <2>5. V \in SUBSET S /\ U \in SUBSET S
    BY <2>2
  <2>6. PICK b \in Int, c \in Int : b = h[V \cap T] /\ c = h[V \ T]
    BY <1>2, <2>5
  <2>7. h[V] = b + c /\ h[U] = a + h[V]
    BY <2>2, <2>3, <2>4, <2>6
  <2>8. h[U] = a + (b + c)
    BY <2>7
  <2>9. h[U] = h[U \cap T] + h[U \ T]
    <3>1. CASE x \in T
      <4>1. U \ T = V \ T /\ (U \cap T) \ {x} = V \cap T /\ x \in U \cap T /\ U \cap T \in SUBSET S
        BY <2>1, <3>1
      <4>2. h[U \cap T] = a + b
        BY <1>3, <2>4, <2>6, <4>1
      <4>3. h[U \ T] = c
        BY <2>6, <4>1
      <4> QED BY <2>8, <4>2, <4>3
    <3>2. CASE x \notin T
      <4>1. U \cap T = V \cap T /\ (U \ T) \ {x} = V \ T /\ x \in U \ T /\ U \ T \in SUBSET S
        BY <2>1, <3>2
      <4>2. h[U \ T] = a + c
        BY <1>3, <2>4, <2>6, <4>1
      <4>3. h[U \cap T] = b
        BY <2>6, <4>1
      <4> QED BY <2>8, <4>2, <4>3
    <3> QED BY <3>1, <3>2
  <2> QED BY <2>5, <2>9
<1>6. \A U \in SUBSET S : U \in G
  <2> HIDE DEF G
  <2>1. \A U \in SUBSET S : U # {} => \E x \in U : U \ {x} \in G => U \in G
    BY <1>5
  <2> QED BY <1>4, <2>1, TakeAway
<1>7. S \cap T = T /\ S \in SUBSET S /\ S \ T = R /\ R \in SUBSET S
  OBVIOUS
<1> QED BY <1>1, <1>6, <1>7
=============================================================================
