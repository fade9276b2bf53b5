---------------------------- MODULE SumTheorems ----------------------------
(***************************************************************************)
(* What holds of the sums of the models (SumFunctionOnSet of Functions):   *)
(* the amounts of an account, of a client, of a month, of a day are sums   *)
(* over sets of orders, receipts and accounts, and what the screens say of *)
(* the same money agrees because sums can be regrouped.  And that some     *)
(* numbers have a first and a last.                                        *)
(*                                                                         *)
(* The library folds the elements one by one in an order of its choice,    *)
(* with a recursive function over the subsets.  That there is such a       *)
(* function, that it is one, and each law of sums is shown of a set that   *)
(* would be a smallest counterexample.                                     *)
(***************************************************************************)
EXTENDS Integers, FiniteSetTheorems, Functions, TLAPS

Chosen(s) == CHOOSE x \in s : TRUE

\* it has the sum over each subset of S, one element at a time.
Adds(it, f, S) ==
  it = [s \in SUBSET S |-> IF s = {} THEN 0 ELSE f[Chosen(s)] + it[s \ {Chosen(s)}]]

\* What the library computes.
LEMMA SumUnfolds ==
  ASSUME NEW f, NEW S
  PROVE  SumFunctionOnSet(f, S) = (CHOOSE it : Adds(it, f, S))[S]
BY DEF SumFunctionOnSet, FoldFunctionOnSet, MapThenFoldSet, Adds, Chosen

LEMMA ChosenIsThere == ASSUME NEW s, s # {} PROVE Chosen(s) \in s
BY DEF Chosen

\* Of some finite sets, one has none of the others within it.
LEMMA SmallestOfThem ==
  ASSUME NEW S, NEW Bad, Bad \subseteq FiniteSubsetsOf(S), Bad # {}
  PROVE  \E T \in Bad : \A s \in Bad : ~(s \subseteq T /\ s # T)
<1>1. IsWellFoundedOn(StrictSubsetOrdering(S), FiniteSubsetsOf(S))
  BY FS_StrictSubsetOrderingWellFounded
<1>2. PICK T \in Bad : \A s \in Bad : ~(<<s, T>> \in StrictSubsetOrdering(S))
  BY <1>1, WFMin
<1> QED BY <1>2 DEF StrictSubsetOrdering, FiniteSubsetsOf

LEMMA SmallerIsFinite ==
  ASSUME NEW S, NEW T, IsFiniteSet(S), T \subseteq S
  PROVE  IsFiniteSet(T) /\ T \in FiniteSubsetsOf(S)
BY FS_Subset DEF FiniteSubsetsOf

\* Two ways to add the same agree, on any set both know.
LEMMA OneWayToAdd ==
  ASSUME NEW f, NEW A, NEW B, NEW a, NEW b, Adds(a, f, A), Adds(b, f, B),
         NEW S, IsFiniteSet(S), S \subseteq A, S \subseteq B
  PROVE  a[S] = b[S]
<1> DEFINE Bad == {s \in SUBSET S : a[s] # b[s]}
<1> SUFFICES ASSUME Bad # {} PROVE FALSE
  OBVIOUS
<1>1. Bad \subseteq FiniteSubsetsOf(S)
  BY SmallerIsFinite
<1>2. PICK T \in Bad : \A s \in Bad : ~(s \subseteq T /\ s # T)
  <2> HIDE DEF Bad
  <2> QED BY <1>1, SmallestOfThem
<1>3. a[T] = (IF T = {} THEN 0 ELSE f[Chosen(T)] + a[T \ {Chosen(T)}])
  BY <1>2 DEF Adds
<1>4. b[T] = (IF T = {} THEN 0 ELSE f[Chosen(T)] + b[T \ {Chosen(T)}])
  BY <1>2 DEF Adds
<1>5. T # {}
  BY <1>2, <1>3, <1>4
<1>6. a[T \ {Chosen(T)}] = b[T \ {Chosen(T)}]
  BY <1>2, <1>5, ChosenIsThere
<1> QED BY <1>2, <1>3, <1>4, <1>5, <1>6

\* The recursion is one: of a smallest set without such a function one could be made of
\* what the smaller ones have.
LEMMA ThereIsAWay ==
  ASSUME NEW f, NEW S, IsFiniteSet(S)
  PROVE  \E it : Adds(it, f, S)
<1> DEFINE Bad == {s \in SUBSET S : ~ \E it : Adds(it, f, s)}
           Sum(s) == SumFunctionOnSet(f, s)
<1> SUFFICES ASSUME Bad # {} PROVE FALSE
  OBVIOUS
<1>1. Bad \subseteq FiniteSubsetsOf(S)
  BY SmallerIsFinite
<1>2. PICK T \in Bad : \A s \in Bad : ~(s \subseteq T /\ s # T)
  <2> HIDE DEF Bad
  <2> QED BY <1>1, SmallestOfThem
<1>3. IsFiniteSet(T)
  BY <1>2, SmallerIsFinite
<1>4. ASSUME NEW s \in SUBSET T, s # T
      PROVE  Sum(s) = IF s = {} THEN 0 ELSE f[Chosen(s)] + Sum(s \ {Chosen(s)})
  <2>1. \E it : Adds(it, f, s)
    BY <1>2, <1>4
  <2> DEFINE a == CHOOSE it : Adds(it, f, s)
  <2>2. Adds(a, f, s)
    BY <2>1
  <2>3. Sum(s) = a[s]
    BY SumUnfolds
  <2> HIDE DEF a, Sum
  <2>4. a[s] = IF s = {} THEN 0 ELSE f[Chosen(s)] + a[s \ {Chosen(s)}]
    BY <2>2 DEF Adds
  <2>5. ASSUME s # {} PROVE a[s \ {Chosen(s)}] = Sum(s \ {Chosen(s)})
    <3> DEFINE r == s \ {Chosen(s)}
               b == CHOOSE it : Adds(it, f, r)
    <3>1. r \in SUBSET T /\ r # T /\ r \subseteq s
      BY <1>4
    <3>2. \E it : Adds(it, f, r)
      BY <1>2, <3>1
    <3>3. Adds(b, f, r)
      BY <3>2
    <3>4. Sum(r) = b[r]
      BY SumUnfolds DEF Sum
    <3>5. IsFiniteSet(r)
      BY <1>3, <3>1, SmallerIsFinite
    <3> HIDE DEF b, r
    <3>6. a[r] = b[r]
      BY <2>2, <3>1, <3>3, <3>5, OneWayToAdd
    <3> QED BY <3>4, <3>6 DEF r
  <2> QED BY <2>3, <2>4, <2>5
<1> DEFINE whole == IF T = {} THEN 0 ELSE f[Chosen(T)] + Sum(T \ {Chosen(T)})
           it == [s \in SUBSET T |-> IF s = T THEN whole ELSE Sum(s)]
<1>5. \A s \in SUBSET T : it[s] = IF s = {} THEN 0 ELSE f[Chosen(s)] + it[s \ {Chosen(s)}]
  <2> SUFFICES ASSUME NEW s \in SUBSET T
               PROVE  it[s] = IF s = {} THEN 0 ELSE f[Chosen(s)] + it[s \ {Chosen(s)}]
    OBVIOUS
  <2>1. s # {} => /\ s \ {Chosen(s)} \in SUBSET T /\ s \ {Chosen(s)} # T
                  /\ it[s \ {Chosen(s)}] = Sum(s \ {Chosen(s)})
    <3> SUFFICES ASSUME s # {} PROVE s \ {Chosen(s)} \in SUBSET T /\ s \ {Chosen(s)} # T
      OBVIOUS
    <3>1. Chosen(s) \in s
      BY ChosenIsThere
    <3> QED BY <3>1
  <2> HIDE DEF Sum
  <2>2. CASE s = T
    BY <2>1, <2>2
  <2>3. CASE s # T
    BY <1>4, <2>1, <2>3
  <2> QED BY <2>2, <2>3
<1> HIDE DEF whole, Sum
<1>6. it = [s \in SUBSET T |-> IF s = {} THEN 0 ELSE f[Chosen(s)] + it[s \ {Chosen(s)}]]
  <2> DEFINE other == [s \in SUBSET T |-> IF s = {} THEN 0 ELSE f[Chosen(s)] + it[s \ {Chosen(s)}]]
  <2>1. \A s \in SUBSET T : it[s] = other[s]
    BY <1>5
  <2> QED BY <2>1
<1> HIDE DEF it
<1>7. Adds(it, f, T)
  BY <1>6 DEF Adds
<1> QED BY <1>2, <1>7

-----------------------------------------------------------------------------
(* The laws of sums *)

LEMMA SumOfNothing == ASSUME NEW f PROVE SumFunctionOnSet(f, {}) = 0
<1>1. PICK it : Adds(it, f, {})
  BY ThereIsAWay, FS_EmptySet
<1>2. Adds(CHOOSE i : Adds(i, f, {}), f, {})
  BY <1>1
<1> DEFINE a == CHOOSE i : Adds(i, f, {})
<1> HIDE DEF a
<1>3. a[{}] = 0
  BY <1>2 DEF Adds, a
<1> QED BY <1>3, SumUnfolds DEF a

LEMMA SumOfChosen ==
  ASSUME NEW f, NEW S, IsFiniteSet(S), S # {}
  PROVE  SumFunctionOnSet(f, S) = f[Chosen(S)] + SumFunctionOnSet(f, S \ {Chosen(S)})
<1> DEFINE r == S \ {Chosen(S)}
           a == CHOOSE it : Adds(it, f, S)
           b == CHOOSE it : Adds(it, f, r)
<1>1. Adds(a, f, S)
  BY ThereIsAWay
<1>2. IsFiniteSet(r) /\ r \subseteq S
  BY SmallerIsFinite
<1>3. Adds(b, f, r)
  BY <1>2, ThereIsAWay
<1>4. SumFunctionOnSet(f, S) = a[S] /\ SumFunctionOnSet(f, r) = b[r]
  BY SumUnfolds
<1> HIDE DEF a, b
<1>5. a[S] = f[Chosen(S)] + a[r]
  BY <1>1 DEF Adds
<1> HIDE DEF r
<1>6. a[r] = b[r]
  BY <1>1, <1>2, <1>3, OneWayToAdd
<1> QED BY <1>4, <1>5, <1>6 DEF r

\* Only the values at the elements matter.
LEMMA SumsAlike ==
  ASSUME NEW S, IsFiniteSet(S), NEW f, NEW g, \A x \in S : f[x] = g[x]
  PROVE  SumFunctionOnSet(f, S) = SumFunctionOnSet(g, S)
<1> DEFINE Bad == {s \in SUBSET S : SumFunctionOnSet(f, s) # SumFunctionOnSet(g, s)}
<1> SUFFICES ASSUME Bad # {} PROVE FALSE
  OBVIOUS
<1>1. Bad \subseteq FiniteSubsetsOf(S)
  BY SmallerIsFinite
<1>2. PICK T \in Bad : \A s \in Bad : ~(s \subseteq T /\ s # T)
  <2> HIDE DEF Bad
  <2> QED BY <1>1, SmallestOfThem
<1>3. T # {} /\ IsFiniteSet(T)
  BY <1>2, SumOfNothing, SmallerIsFinite
<1>4. Chosen(T) \in T
  BY <1>3, ChosenIsThere
<1>5. T \ {Chosen(T)} \in SUBSET S /\ T \ {Chosen(T)} # T
  BY <1>2, <1>4
<1>6. SumFunctionOnSet(f, T \ {Chosen(T)}) = SumFunctionOnSet(g, T \ {Chosen(T)})
  BY <1>2, <1>5
<1>7. f[Chosen(T)] = g[Chosen(T)]
  BY <1>2, <1>4
<1> QED BY <1>2, <1>3, <1>6, <1>7, SumOfChosen

LEMMA SumIsInt ==
  ASSUME NEW S, IsFiniteSet(S), NEW f, \A x \in S : f[x] \in Int
  PROVE  SumFunctionOnSet(f, S) \in Int
<1> DEFINE Bad == {s \in SUBSET S : SumFunctionOnSet(f, s) \notin Int}
<1> SUFFICES ASSUME Bad # {} PROVE FALSE
  OBVIOUS
<1>1. Bad \subseteq FiniteSubsetsOf(S)
  BY SmallerIsFinite
<1>2. PICK T \in Bad : \A s \in Bad : ~(s \subseteq T /\ s # T)
  <2> HIDE DEF Bad
  <2> QED BY <1>1, SmallestOfThem
<1>3. T # {} /\ IsFiniteSet(T)
  <2>1. SumFunctionOnSet(f, {}) \in Int
    BY SumOfNothing
  <2> QED BY <1>2, <2>1, SmallerIsFinite
<1>4. Chosen(T) \in T
  BY <1>3, ChosenIsThere
<1>5. T \ {Chosen(T)} \in SUBSET S /\ T \ {Chosen(T)} # T
  BY <1>2, <1>4
<1>6. SumFunctionOnSet(f, T \ {Chosen(T)}) \in Int
  BY <1>2, <1>5
<1>7. f[Chosen(T)] \in Int
  BY <1>2, <1>4
<1> QED BY <1>2, <1>3, <1>6, <1>7, SumOfChosen

\* Any element may be taken first.
LEMMA SumWithout ==
  ASSUME NEW S, IsFiniteSet(S), NEW f, \A x \in S : f[x] \in Int, NEW e \in S
  PROVE  SumFunctionOnSet(f, S) = f[e] + SumFunctionOnSet(f, S \ {e})
<1> DEFINE Sum(s) == SumFunctionOnSet(f, s)
           Bad == {s \in SUBSET S : \E x \in s : Sum(s) # f[x] + Sum(s \ {x})}
<1> SUFFICES ASSUME Bad # {} PROVE FALSE
  OBVIOUS
<1>1. Bad \subseteq FiniteSubsetsOf(S)
  BY SmallerIsFinite
<1>2. PICK T \in Bad : \A s \in Bad : ~(s \subseteq T /\ s # T)
  <2> HIDE DEF Bad
  <2> QED BY <1>1, SmallestOfThem
<1>3. PICK x \in T : Sum(T) # f[x] + Sum(T \ {x})
  BY <1>2
<1>4. IsFiniteSet(T) /\ T \subseteq S
  BY <1>2, SmallerIsFinite
<1> DEFINE c == Chosen(T)
<1>5. c \in T /\ Sum(T) = f[c] + Sum(T \ {c})
  BY <1>3, <1>4, ChosenIsThere, SumOfChosen
<1> HIDE DEF c
<1>6. x # c
  BY <1>3, <1>5
<1>7. \A s \in SUBSET S : s \subseteq T /\ s # T => \A y \in s : Sum(s) = f[y] + Sum(s \ {y})
  BY <1>2
<1> HIDE DEF Sum
<1>8. Sum(T \ {c}) = f[x] + Sum((T \ {c}) \ {x})
  BY <1>3, <1>4, <1>5, <1>6, <1>7
<1>9. Sum(T \ {x}) = f[c] + Sum((T \ {x}) \ {c})
  BY <1>3, <1>4, <1>5, <1>6, <1>7
<1>10. (T \ {x}) \ {c} = (T \ {c}) \ {x}
  OBVIOUS
<1>11. f[x] \in Int /\ f[c] \in Int
  BY <1>3, <1>4, <1>5
<1>12. Sum((T \ {c}) \ {x}) \in Int
  <2>1. IsFiniteSet((T \ {c}) \ {x}) /\ (T \ {c}) \ {x} \subseteq S
    BY <1>4, SmallerIsFinite
  <2> QED BY <2>1, SumIsInt DEF Sum
<1>13. Sum((T \ {x}) \ {c}) = Sum((T \ {c}) \ {x})
  BY <1>10
<1>14. f[c] + (f[x] + Sum((T \ {c}) \ {x})) = f[x] + (f[c] + Sum((T \ {c}) \ {x}))
  BY <1>11, <1>12
<1> QED BY <1>3, <1>5, <1>8, <1>9, <1>13, <1>14

LEMMA SumWith ==
  ASSUME NEW S, IsFiniteSet(S), NEW f, \A x \in S : f[x] \in Int, NEW e, e \notin S,
         f[e] \in Int
  PROVE  SumFunctionOnSet(f, S \cup {e}) = f[e] + SumFunctionOnSet(f, S)
<1>1. IsFiniteSet(S \cup {e}) /\ (S \cup {e}) \ {e} = S
  BY FS_AddElement
<1> QED BY <1>1, SumWithout

LEMMA SumOfOne ==
  ASSUME NEW e, NEW f, f[e] \in Int
  PROVE  SumFunctionOnSet(f, {e}) = f[e]
<1>1. IsFiniteSet({e}) /\ {e} \ {e} = {}
  BY FS_Singleton
<1>2. SumFunctionOnSet(f, {e}) = f[e] + SumFunctionOnSet(f, {e} \ {e})
  BY <1>1, SumWithout
<1> QED BY <1>1, <1>2, SumOfNothing

\* A sum of things that are not negative is not, and is 0 only if all of them are.
LEMMA SumIsNat ==
  ASSUME NEW S, IsFiniteSet(S), NEW f, \A x \in S : f[x] \in Nat
  PROVE  /\ SumFunctionOnSet(f, S) \in Nat
         /\ SumFunctionOnSet(f, S) > 0 => \E x \in S : f[x] > 0
         /\ \A x \in S : f[x] =< SumFunctionOnSet(f, S)
<1> DEFINE Sum(s) == SumFunctionOnSet(f, s)
           Bad == {s \in SUBSET S : ~(Sum(s) \in Nat /\ (Sum(s) > 0 => \E x \in s : f[x] > 0))}
<1>1. ASSUME Bad # {} PROVE FALSE
  <2>1. Bad \subseteq FiniteSubsetsOf(S)
    BY SmallerIsFinite
  <2>2. PICK T \in Bad : \A s \in Bad : ~(s \subseteq T /\ s # T)
    <3> HIDE DEF Bad
    <3> QED BY <1>1, <2>1, SmallestOfThem
  <2>3. T # {} /\ IsFiniteSet(T)
    <3>1. Sum({}) \in Nat /\ ~(Sum({}) > 0)
      BY SumOfNothing
    <3> HIDE DEF Sum
    <3> QED BY <2>2, <3>1, SmallerIsFinite
  <2> DEFINE c == Chosen(T)
  <2>4. c \in T /\ Sum(T) = f[c] + Sum(T \ {c})
    BY <2>3, ChosenIsThere, SumOfChosen
  <2> HIDE DEF c, Sum
  <2>5. f[c] \in Nat /\ T \ {c} \in SUBSET S /\ T \ {c} # T
    BY <2>2, <2>4
  <2>6. Sum(T \ {c}) \in Nat /\ (Sum(T \ {c}) > 0 => \E x \in T \ {c} : f[x] > 0)
    BY <2>2, <2>5
  <2>7. Sum(T) \in Nat
    BY <2>4, <2>5, <2>6
  <2>8. ASSUME Sum(T) > 0 PROVE \E x \in T : f[x] > 0
    <3>1. f[c] > 0 \/ Sum(T \ {c}) > 0
      BY <2>4, <2>5, <2>6, <2>8
    <3> QED BY <2>4, <2>6, <3>1
  <2> QED BY <2>2, <2>7, <2>8
<1>2. \A s \in SUBSET S : Sum(s) \in Nat /\ (Sum(s) > 0 => \E x \in s : f[x] > 0)
  BY <1>1
<1>3. ASSUME NEW x \in S PROVE f[x] =< Sum(S)
  <2>1. \A y \in S : f[y] \in Int
    OBVIOUS
  <2>2. Sum(S) = f[x] + Sum(S \ {x})
    BY <2>1, SumWithout
  <2> HIDE DEF Sum
  <2>3. Sum(S \ {x}) \in Nat /\ f[x] \in Nat
    BY <1>2
  <2> QED BY <2>2, <2>3
<1> QED BY <1>2, <1>3

\* The sum of a union of sets with nothing in common.
LEMMA SumOfUnion ==
  ASSUME NEW A, IsFiniteSet(A), NEW B, IsFiniteSet(B), A \cap B = {},
         NEW f, \A x \in A \cup B : f[x] \in Int
  PROVE  SumFunctionOnSet(f, A \cup B) = SumFunctionOnSet(f, A) + SumFunctionOnSet(f, B)
<1> DEFINE Sum(s) == SumFunctionOnSet(f, s)
           Bad == {s \in SUBSET A : Sum(s \cup B) # Sum(s) + Sum(B)}
<1> SUFFICES ASSUME Bad # {} PROVE FALSE
  OBVIOUS
<1>1. Bad \subseteq FiniteSubsetsOf(A)
  BY SmallerIsFinite
<1>2. PICK T \in Bad : \A s \in Bad : ~(s \subseteq T /\ s # T)
  <2> HIDE DEF Bad
  <2> QED BY <1>1, SmallestOfThem
<1>3. IsFiniteSet(T) /\ T \subseteq A
  BY <1>2, SmallerIsFinite
<1>4. Sum(B) \in Int
  BY SumIsInt
<1>5. T # {}
  <2>1. Sum({} \cup B) = Sum(B) /\ Sum({}) = 0
    <3>1. {} \cup B = B
      OBVIOUS
    <3> QED BY <3>1, SumOfNothing
  <2> HIDE DEF Sum
  <2>2. Sum({} \cup B) = Sum({}) + Sum(B)
    BY <1>4, <2>1
  <2>3. T = {} => FALSE
    BY <1>2, <2>2
  <2> QED BY <2>3
<1>6. PICK e \in T : TRUE
  BY <1>5
<1>7. e \notin B /\ (T \cup B) \ {e} = (T \ {e}) \cup B /\ f[e] \in Int
  BY <1>3
<1>8. IsFiniteSet(T \cup B) /\ IsFiniteSet(T \ {e})
  BY <1>3, FS_Union, SmallerIsFinite
<1>9. Sum(T \cup B) = f[e] + Sum((T \ {e}) \cup B)
  BY <1>3, <1>7, <1>8, SumWithout
<1>10. Sum(T) = f[e] + Sum(T \ {e})
  BY <1>3, SumWithout
<1>11. Sum(T \ {e}) \in Int
  BY <1>3, <1>8, SumIsInt
<1> HIDE DEF Sum
<1>12. Sum((T \ {e}) \cup B) = Sum(T \ {e}) + Sum(B)
  BY <1>2, <1>3
<1>13. f[e] + (Sum(T \ {e}) + Sum(B)) = (f[e] + Sum(T \ {e})) + Sum(B)
  BY <1>4, <1>7, <1>11
<1> QED BY <1>2, <1>9, <1>10, <1>12, <1>13

\* Summing twice is summing both.
LEMMA SumOfBoth ==
  ASSUME NEW S, IsFiniteSet(S), NEW f, NEW g, NEW h,
         \A x \in S : f[x] \in Int /\ g[x] \in Int /\ h[x] = f[x] + g[x]
  PROVE  SumFunctionOnSet(h, S) = SumFunctionOnSet(f, S) + SumFunctionOnSet(g, S)
<1> DEFINE F(s) == SumFunctionOnSet(f, s)
           G(s) == SumFunctionOnSet(g, s)
           H(s) == SumFunctionOnSet(h, s)
           Bad == {s \in SUBSET S : H(s) # F(s) + G(s)}
<1> SUFFICES ASSUME Bad # {} PROVE FALSE
  OBVIOUS
<1>1. Bad \subseteq FiniteSubsetsOf(S)
  BY SmallerIsFinite
<1>2. PICK T \in Bad : \A s \in Bad : ~(s \subseteq T /\ s # T)
  <2> HIDE DEF Bad
  <2> QED BY <1>1, SmallestOfThem
<1>3. IsFiniteSet(T) /\ T \subseteq S
  BY <1>2, SmallerIsFinite
<1>4. F({}) = 0 /\ G({}) = 0 /\ H({}) = 0
  BY SumOfNothing
<1>5. T # {}
  <2> HIDE DEF F, G, H
  <2>1. H({}) = F({}) + G({})
    BY <1>4
  <2>2. T = {} => FALSE
    BY <1>2, <2>1
  <2> QED BY <2>2
<1> DEFINE c == Chosen(T)
<1>6. /\ c \in T /\ F(T) = f[c] + F(T \ {c}) /\ G(T) = g[c] + G(T \ {c})
      /\ H(T) = h[c] + H(T \ {c})
  BY <1>3, <1>5, ChosenIsThere, SumOfChosen
<1> HIDE DEF c
<1>7. F(T \ {c}) \in Int /\ G(T \ {c}) \in Int
  <2>1. IsFiniteSet(T \ {c}) /\ T \ {c} \subseteq S
    BY <1>3, SmallerIsFinite
  <2> QED BY <2>1, SumIsInt
<1> HIDE DEF F, G, H
<1>8. H(T \ {c}) = F(T \ {c}) + G(T \ {c})
  BY <1>2, <1>6
<1>9. f[c] \in Int /\ g[c] \in Int /\ h[c] = f[c] + g[c]
  BY <1>3, <1>6
<1>10. (f[c] + g[c]) + (F(T \ {c}) + G(T \ {c})) = (f[c] + F(T \ {c})) + (g[c] + G(T \ {c}))
  BY <1>7, <1>9
<1> QED BY <1>2, <1>6, <1>8, <1>9, <1>10

\* Those of the group k, if key says which group each is of.
Those(S, key, k) == {x \in S : key[x] = k}

\* The sum of the groups is the sum of all.
LEMMA SumOfGroups ==
  ASSUME NEW S, IsFiniteSet(S), NEW f, \A x \in S : f[x] \in Int,
         NEW K, IsFiniteSet(K), NEW key, \A x \in S : key[x] \in K,
         NEW g, \A k \in K : g[k] = SumFunctionOnSet(f, Those(S, key, k))
  PROVE  SumFunctionOnSet(g, K) = SumFunctionOnSet(f, S)
<1> DEFINE Of(ks) == {x \in S : key[x] \in ks}
           F(s) == SumFunctionOnSet(f, s)
           G(ks) == SumFunctionOnSet(g, ks)
           Bad == {ks \in SUBSET K : G(ks) # F(Of(ks))}
<1>1. ASSUME Bad # {} PROVE FALSE
  <2>1. Bad \subseteq FiniteSubsetsOf(K)
    BY SmallerIsFinite
  <2>2. PICK T \in Bad : \A s \in Bad : ~(s \subseteq T /\ s # T)
    <3> HIDE DEF Bad
    <3> QED BY <1>1, <2>1, SmallestOfThem
  <2>3. IsFiniteSet(T) /\ T \subseteq K
    BY <2>2, SmallerIsFinite
  <2>4. G({}) = 0 /\ F({}) = 0 /\ Of({}) = {}
    BY SumOfNothing
  <2>5. T # {}
    <3> HIDE DEF F, G, Of
    <3> QED BY <2>2, <2>4
  <2> DEFINE c == Chosen(T)
  <2>6. c \in T /\ G(T) = g[c] + G(T \ {c})
    BY <2>3, <2>5, ChosenIsThere, SumOfChosen
  <2> HIDE DEF c
  <2> DEFINE One == {x \in S : key[x] = c}
  <2>7. Of(T) = One \cup Of(T \ {c}) /\ One \cap Of(T \ {c}) = {}
    BY <2>6
  <2>8. IsFiniteSet(One) /\ IsFiniteSet(Of(T \ {c}))
    BY SmallerIsFinite
  <2>9. \A x \in One \cup Of(T \ {c}) : f[x] \in Int
    OBVIOUS
  <2>10. g[c] = F(One)
    BY <2>3, <2>6 DEF Those
  <2> HIDE DEF One, Of
  <2>11. F(Of(T)) = F(One) + F(Of(T \ {c}))
    <3> HIDE DEF F
    <3>1. F(One \cup Of(T \ {c})) = F(One) + F(Of(T \ {c}))
      BY <2>7, <2>8, <2>9, SumOfUnion DEF F
    <3> QED BY <2>7, <3>1
  <2> HIDE DEF F, G
  <2>12. G(T \ {c}) = F(Of(T \ {c}))
    BY <2>2, <2>3, <2>6
  <2> QED BY <2>2, <2>6, <2>10, <2>11, <2>12
<1>2. G(K) = F(Of(K))
  BY <1>1
<1>3. Of(K) = S
  OBVIOUS
<1> QED BY <1>2, <1>3

-----------------------------------------------------------------------------
(* The first and the last of some numbers *)

LEMMA LargestIsThere ==
  ASSUME NEW S, IsFiniteSet(S), S \subseteq Int, S # {}
  PROVE  \E m \in S : \A y \in S : m >= y
<1> DEFINE Bad == {s \in SUBSET S : s # {} /\ ~ \E m \in s : \A y \in s : m >= y}
<1>1. ASSUME Bad # {} PROVE FALSE
  <2>1. Bad \subseteq FiniteSubsetsOf(S)
    BY SmallerIsFinite
  <2>2. PICK T \in Bad : \A s \in Bad : ~(s \subseteq T /\ s # T)
    <3> HIDE DEF Bad
    <3> QED BY <1>1, <2>1, SmallestOfThem
  <2>3. PICK x \in T : TRUE
    BY <2>2
  <2>4. T \ {x} = {} \/ \E m \in T \ {x} : \A y \in T \ {x} : m >= y
    <3> DEFINE r == T \ {x}
    <3>1. r \subseteq T /\ r # T /\ r \in SUBSET S
      BY <2>2, <2>3
    <3>2. r \notin Bad
      <4> HIDE DEF Bad, r
      <4> QED BY <2>2, <3>1
    <3> QED BY <3>1, <3>2
  <2>5. CASE T \ {x} = {}
    BY <2>2, <2>3, <2>5
  <2>6. CASE \E m \in T \ {x} : \A y \in T \ {x} : m >= y
    <3>1. PICK m \in T \ {x} : \A y \in T \ {x} : m >= y
      BY <2>6
    <3>2. m \in Int /\ x \in Int /\ T \subseteq Int
      BY <2>2, <2>3, <3>1
    <3>3. CASE m >= x
      <4>1. \A y \in T : m >= y
        BY <3>1, <3>3
      <4> QED BY <2>2, <3>1, <4>1
    <3>4. CASE x >= m
      <4>1. \A y \in T : x >= y
        BY <3>1, <3>2, <3>4
      <4> QED BY <2>2, <2>3, <4>1
    <3> QED BY <3>2, <3>3, <3>4
  <2> QED BY <2>4, <2>5, <2>6
<1>2. S \notin Bad
  BY <1>1
<1> QED BY <1>2

LEMMA SmallestIsThere ==
  ASSUME NEW S, IsFiniteSet(S), S \subseteq Int, S # {}
  PROVE  \E m \in S : \A y \in S : m =< y
<1> DEFINE Bad == {s \in SUBSET S : s # {} /\ ~ \E m \in s : \A y \in s : m =< y}
<1>1. ASSUME Bad # {} PROVE FALSE
  <2>1. Bad \subseteq FiniteSubsetsOf(S)
    BY SmallerIsFinite
  <2>2. PICK T \in Bad : \A s \in Bad : ~(s \subseteq T /\ s # T)
    <3> HIDE DEF Bad
    <3> QED BY <1>1, <2>1, SmallestOfThem
  <2>3. PICK x \in T : TRUE
    BY <2>2
  <2>4. T \ {x} = {} \/ \E m \in T \ {x} : \A y \in T \ {x} : m =< y
    <3> DEFINE r == T \ {x}
    <3>1. r \subseteq T /\ r # T /\ r \in SUBSET S
      BY <2>2, <2>3
    <3>2. r \notin Bad
      <4> HIDE DEF Bad, r
      <4> QED BY <2>2, <3>1
    <3> QED BY <3>1, <3>2
  <2>5. CASE T \ {x} = {}
    BY <2>2, <2>3, <2>5
  <2>6. CASE \E m \in T \ {x} : \A y \in T \ {x} : m =< y
    <3>1. PICK m \in T \ {x} : \A y \in T \ {x} : m =< y
      BY <2>6
    <3>2. m \in Int /\ x \in Int /\ T \subseteq Int
      BY <2>2, <2>3, <3>1
    <3>3. CASE m =< x
      <4>1. \A y \in T : m =< y
        BY <3>1, <3>3
      <4> QED BY <2>2, <3>1, <4>1
    <3>4. CASE x =< m
      <4>1. \A y \in T : x =< y
        BY <3>1, <3>2, <3>4
      <4> QED BY <2>2, <2>3, <4>1
    <3> QED BY <3>2, <3>3, <3>4
  <2> QED BY <2>4, <2>5, <2>6
<1>2. S \notin Bad
  BY <1>1
<1> QED BY <1>2

\* What a function takes of finitely many is finite.
LEMMA ImageIsFinite ==
  ASSUME NEW S, IsFiniteSet(S), NEW f
  PROVE  IsFiniteSet({f[x] : x \in S})
<1> DEFINE T == {f[x] : x \in S}
           g == [x \in S |-> f[x]]
<1>1. g \in Surjection(S, T)
  BY DEF Surjection
<1> QED BY <1>1, FS_Surjection
=============================================================================
