---------------------------- MODULE SumTheorems ----------------------------
(***************************************************************************)
(* Sums of integers over finite sets, as the folds of the community        *)
(* modules compute them: whatever the order in which a sum is taken, a     *)
(* member can be split off, what is zero does not count, and what changes  *)
(* changes the sum by as much.                                             *)
(***************************************************************************)
EXTENDS Integers, Functions, FiniteSetTheorems, WellFoundedInduction, TLAPS

SumOf(f, S) == SumFunctionOnSet(f, S)

Some(s) == CHOOSE x \in s : TRUE

\* it holds the sums over all subsets of S.
SumsUpTo(f, S, it) ==
    /\ it \in [SUBSET S -> Int]
    /\ \A s \in SUBSET S : it[s] = IF s = {} THEN 0 ELSE f[Some(s)] + it[s \ {Some(s)}]

LEMMA SmallestNumber ==
    ASSUME NEW N \in SUBSET Nat, N # {}
    PROVE  \E n \in N : \A m \in N : ~ m < n
<1>1. PICK n \in N : \A m \in N : ~ (<<m, n>> \in OpToRel(<, Nat))
  BY NatLessThanWellFounded, WFMin
<1>2. ASSUME NEW m \in N PROVE ~ m < n
  <2>1. m < n => <<m, n>> \in OpToRel(<, Nat)
    BY DEF OpToRel
  <2> QED
    BY <1>1, <2>1
<1> QED
  BY <1>2

\* Every set of finite sets that is not empty has a smallest member.
LEMMA SmallestSet ==
    ASSUME NEW U, IsFiniteSet(U), NEW C \in SUBSET (SUBSET U), C # {}
    PROVE  \E s \in C : \A t \in C : ~ Cardinality(t) < Cardinality(s)
<1>1. \A s \in C : IsFiniteSet(s) /\ Cardinality(s) \in Nat
  BY FS_Subset, FS_CardinalityType
<1> DEFINE sizes == {Cardinality(s) : s \in C}
<1>2. sizes \in SUBSET Nat /\ sizes # {}
  BY <1>1
<1>3. PICK n \in sizes : \A m \in sizes : ~ m < n
  BY <1>2, SmallestNumber
<1> QED
  BY <1>3

LEMMA SomeIsIn == ASSUME NEW s, s # {} PROVE Some(s) \in s
  BY DEF Some

LEMMA OneLess ==
    ASSUME NEW s, IsFiniteSet(s), NEW x \in s
    PROVE  Cardinality(s \ {x}) < Cardinality(s) /\ IsFiniteSet(s \ {x})
<1>1. Cardinality(s) \in Nat /\ Cardinality(s \ {x}) = Cardinality(s) - 1 /\ IsFiniteSet(s \ {x})
  BY FS_CardinalityType, FS_RemoveElement
<1> QED
  BY <1>1

\* Two such tables agree on what both hold.
LEMMA SumsAgree ==
    ASSUME NEW U, IsFiniteSet(U), NEW f, NEW S, NEW T, NEW g, NEW h,
           SumsUpTo(f, S, g), SumsUpTo(f, T, h)
    PROVE  \A s \in SUBSET U : s \in SUBSET S /\ s \in SUBSET T => g[s] = h[s]
<1> DEFINE C == {t \in SUBSET U : t \in SUBSET S /\ t \in SUBSET T /\ g[t] # h[t]}
<1>1. SUFFICES ASSUME C # {} PROVE FALSE
  OBVIOUS
<1>2. PICK t \in C : \A u \in C : ~ Cardinality(u) < Cardinality(t)
  BY <1>1, SmallestSet
<1>3. t # {}
  BY DEF SumsUpTo
<1> DEFINE x == Some(t)
           u == t \ {x}
<1>4. x \in t
  BY <1>3, SomeIsIn
<1>5. Cardinality(u) < Cardinality(t)
  BY <1>4, OneLess, FS_Subset
<1>6. u \notin C
  BY <1>2, <1>5
<1>7. g[u] = h[u]
  BY <1>6
<1>8. g[t] = f[x] + g[u] /\ h[t] = f[x] + h[u]
  BY <1>3 DEF SumsUpTo
<1> QED
  BY <1>7, <1>8

LEMMA SumsExist ==
    ASSUME NEW U, IsFiniteSet(U), NEW f \in [U -> Int], NEW S \in SUBSET U
    PROVE  \E it : SumsUpTo(f, S, it)
<1> DEFINE C == {t \in SUBSET U : ~ \E it : SumsUpTo(f, t, it)}
<1>1. SUFFICES ASSUME C # {} PROVE FALSE
  OBVIOUS
<1>2. PICK T \in C : \A u \in C : ~ Cardinality(u) < Cardinality(T)
  BY <1>1, SmallestSet
<1> DEFINE Table(t) == CHOOSE it : SumsUpTo(f, t, it)
           Value(t) == Table(t)[t]
           it == [t \in SUBSET T |-> IF t = {} THEN 0 ELSE f[Some(t)] + Value(t \ {Some(t)})]
<1>3. ASSUME NEW t \in SUBSET T, NEW x \in T, x \notin t PROVE SumsUpTo(f, t, Table(t))
  <2>1. Cardinality(T \ {x}) < Cardinality(T) /\ IsFiniteSet(T) /\ IsFiniteSet(T \ {x})
    BY OneLess, FS_Subset
  <2>2. t \subseteq T \ {x}
    BY <1>3
  <2>3. Cardinality(t) <= Cardinality(T \ {x}) /\ IsFiniteSet(t)
    BY <2>1, <2>2, FS_Subset
  <2>4. Cardinality(t) \in Nat /\ Cardinality(T) \in Nat /\ Cardinality(T \ {x}) \in Nat
    BY <2>1, <2>3, FS_CardinalityType
  <2>5. Cardinality(t) < Cardinality(T)
    BY <2>1, <2>3, <2>4
  <2>6. t \notin C
    BY <1>2, <2>5
  <2>7. \E h : SumsUpTo(f, t, h)
    BY <2>6
  <2> QED
    BY <2>7
<1> HIDE DEF Table
<1>4. ASSUME NEW t \in SUBSET T, t # {}
      PROVE  LET u == t \ {Some(t)}
             IN  Value(u) \in Int /\ Value(u) = it[u]
  <2> DEFINE x == Some(t)
             u == t \ {x}
  <2>1. x \in t /\ u \in SUBSET T /\ x \in T /\ x \notin u
    BY <1>4, SomeIsIn
  <2>2. SumsUpTo(f, u, Table(u))
    BY <1>3, <2>1
  <2>3. Value(u) \in Int
    BY <2>2 DEF SumsUpTo
  <2>4. Value(u) = IF u = {} THEN 0 ELSE f[Some(u)] + Table(u)[u \ {Some(u)}]
    BY <2>2 DEF SumsUpTo
  <2>5. CASE u = {}
    BY <2>1, <2>3, <2>4, <2>5
  <2>6. CASE u # {}
    <3> DEFINE y == Some(u)
               v == u \ {y}
    <3>1. y \in u /\ v \in SUBSET T /\ y \in T /\ y \notin v /\ v \in SUBSET u
      BY <2>1, <2>6, SomeIsIn
    <3>2. SumsUpTo(f, v, Table(v))
      BY <1>3, <3>1
    <3>3. Table(u)[v] = Table(v)[v]
      <4>1. u \in SUBSET U /\ v \in SUBSET U /\ v \in SUBSET u /\ v \in SUBSET v
        BY <2>1, <3>1
      <4> HIDE DEF u, v
      <4> QED
        BY <2>2, <3>2, <4>1, SumsAgree
    <3>4. it[u] = f[y] + Value(v)
      BY <2>1, <2>6
    <3>5. Value(u) = f[y] + Table(u)[v]
      BY <2>4, <2>6
    <3> QED
      BY <2>3, <3>3, <3>4, <3>5
  <2> QED
    BY <2>5, <2>6
<1>5. ASSUME NEW t \in SUBSET T
      PROVE  it[t] \in Int /\ it[t] = IF t = {} THEN 0 ELSE f[Some(t)] + it[t \ {Some(t)}]
  <2>1. CASE t = {}
    BY <2>1
  <2>2. CASE t # {}
    <3>1. Some(t) \in U
      BY <2>2, SomeIsIn
    <3>2. Value(t \ {Some(t)}) \in Int /\ Value(t \ {Some(t)}) = it[t \ {Some(t)}]
      BY <1>4, <2>2
    <3>3. it[t] = f[Some(t)] + Value(t \ {Some(t)})
      BY <2>2
    <3>4. f[Some(t)] \in Int
      BY <3>1
    <3> HIDE DEF it, Value
    <3> QED
      BY <2>2, <3>2, <3>3, <3>4
  <2> QED
    BY <2>1, <2>2
<1>6. SumsUpTo(f, T, it)
  <2>1. it = [t \in SUBSET T |-> it[t]]
    OBVIOUS
  <2> HIDE DEF it
  <2>2. it \in [SUBSET T -> Int]
    BY <1>5, <2>1
  <2> QED
    BY <1>5, <2>2 DEF SumsUpTo
<1> QED
  BY <1>6

LEMMA SumIsOfATable ==
    ASSUME NEW U, IsFiniteSet(U), NEW f \in [U -> Int], NEW S \in SUBSET U
    PROVE  \E it : SumsUpTo(f, S, it) /\ SumOf(f, S) = it[S]
<1> DEFINE Sums(it) == it = [s \in SUBSET S |->
               IF s = {} THEN 0
               ELSE f[CHOOSE x \in s : TRUE] + it[s \ {CHOOSE x \in s : TRUE}]]
<1>1. SumOf(f, S) = (CHOOSE it : Sums(it))[S]
  BY DEF SumOf, SumFunctionOnSet, FoldFunctionOnSet, MapThenFoldSet
<1>2. PICK h : SumsUpTo(f, S, h)
  BY SumsExist
<1>3. Sums(h)
  BY <1>2 DEF SumsUpTo, Some
<1>4. PICK it : it = CHOOSE x : Sums(x)
  OBVIOUS
<1> HIDE DEF Sums
<1>5. Sums(it)
  BY <1>3, <1>4
<1> USE DEF Sums
<1> QED
  <2>1. \A s \in SUBSET S : it[s] = IF s = {} THEN 0 ELSE f[Some(s)] + it[s \ {Some(s)}]
    BY <1>5 DEF Some
  <2> DEFINE C == {t \in SUBSET S : it[t] # h[t]}
  <2>2. C = {}
    <3>1. SUFFICES ASSUME C # {} PROVE FALSE
      OBVIOUS
    <3>2. IsFiniteSet(S)
      BY FS_Subset
    <3>3. PICK t \in C : \A u \in C : ~ Cardinality(u) < Cardinality(t)
      BY <3>1, <3>2, SmallestSet
    <3>4. t # {}
      BY <2>1, <1>2 DEF SumsUpTo
    <3> DEFINE x == Some(t)
               u == t \ {x}
    <3>5. x \in t /\ u \in SUBSET S
      BY <3>4, SomeIsIn
    <3>6. Cardinality(u) < Cardinality(t)
      BY <3>2, <3>5, OneLess, FS_Subset
    <3>7. it[u] = h[u]
      BY <3>3, <3>5, <3>6
    <3>8. it[t] = f[x] + it[u] /\ h[t] = f[x] + h[u]
      BY <1>2, <2>1, <3>4 DEF SumsUpTo
    <3> QED
      BY <3>3, <3>7, <3>8
  <2>3. it = [s \in SUBSET S |-> it[s]] /\ h = [s \in SUBSET S |-> h[s]]
    BY <1>2, <1>5 DEF SumsUpTo
  <2>4. \A s \in SUBSET S : it[s] = h[s]
    BY <2>2
  <2>5. it = h
    BY <2>3, <2>4
  <2> QED
    BY <1>1, <1>2, <1>4, <2>5

\* A table holds the sums, of S and of its subsets.
LEMMA SumsAreTabled ==
    ASSUME NEW U, IsFiniteSet(U), NEW f \in [U -> Int]
    PROVE  \E it : SumsUpTo(f, U, it) /\ \A S \in SUBSET U : SumOf(f, S) = it[S]
<1>1. PICK it : SumsUpTo(f, U, it)
  BY SumsExist
<1>2. ASSUME NEW S \in SUBSET U PROVE SumOf(f, S) = it[S]
  <2>1. PICK h : SumsUpTo(f, S, h) /\ SumOf(f, S) = h[S]
    BY SumIsOfATable
  <2>2. S \in SUBSET S
    OBVIOUS
  <2> QED
    BY <1>1, <2>1, <2>2, SumsAgree
<1> QED
  BY <1>1, <1>2

LEMMA SumOfNothing ==
    ASSUME NEW U, IsFiniteSet(U), NEW f \in [U -> Int]
    PROVE  SumOf(f, {}) = 0
<1>1. PICK it : SumsUpTo(f, U, it) /\ \A S \in SUBSET U : SumOf(f, S) = it[S]
  BY SumsAreTabled
<1> QED
  BY <1>1 DEF SumsUpTo

LEMMA SumType ==
    ASSUME NEW U, IsFiniteSet(U), NEW f \in [U -> Int], NEW S \in SUBSET U
    PROVE  SumOf(f, S) \in Int
<1>1. PICK it : SumsUpTo(f, U, it) /\ \A T \in SUBSET U : SumOf(f, T) = it[T]
  BY SumsAreTabled
<1> QED
  BY <1>1 DEF SumsUpTo

\* Any member can be taken out first.
LEMMA SumSplits ==
    ASSUME NEW U, IsFiniteSet(U), NEW f \in [U -> Int], NEW S \in SUBSET U, NEW x \in S
    PROVE  SumOf(f, S) = f[x] + SumOf(f, S \ {x})
<1>1. PICK it : SumsUpTo(f, U, it) /\ \A T \in SUBSET U : SumOf(f, T) = it[T]
  BY SumsAreTabled
<1> DEFINE C == {t \in SUBSET U : \E e \in t : it[t] # f[e] + it[t \ {e}]}
<1>2. C = {}
  <2>1. SUFFICES ASSUME C # {} PROVE FALSE
    OBVIOUS
  <2>2. PICK t \in C : \A u \in C : ~ Cardinality(u) < Cardinality(t)
    BY <2>1, SmallestSet
  <2>3. PICK e \in t : it[t] # f[e] + it[t \ {e}]
    OBVIOUS
  <2>4. PICK y \in t : y = Some(t) /\ it[t] = f[y] + it[t \ {y}]
    BY <1>1, <2>3, SomeIsIn DEF SumsUpTo
  <2>5. t \in SUBSET U /\ IsFiniteSet(t) /\ e # y
    BY <2>3, <2>4, FS_Subset
  <2>6. t \ {y} \notin C /\ t \ {e} \notin C
    BY <2>2, <2>5, OneLess
  <2>7. PICK w : w = (t \ {y}) \ {e}
    OBVIOUS
  <2>8. w = (t \ {e}) \ {y} /\ w \in SUBSET U
    BY <2>5, <2>7
  <2>9. it[t \ {y}] = f[e] + it[w]
    BY <2>5, <2>6, <2>7
  <2>10. it[t \ {e}] = f[y] + it[w]
    BY <2>5, <2>6, <2>8
  <2>11. f[e] \in Int /\ f[y] \in Int /\ it[w] \in Int
    BY <1>1, <2>5, <2>8 DEF SumsUpTo
  <2>12. PICK k \in Int, l \in Int, m \in Int : k = f[e] /\ l = f[y] /\ m = it[w]
    BY <2>11
  <2>13. l + (k + m) = k + (l + m)
    OBVIOUS
  <2> QED
    BY <2>3, <2>4, <2>9, <2>10, <2>12, <2>13
<1>3. it[S] = f[x] + it[S \ {x}]
  BY <1>2
<1> QED
  BY <1>1, <1>3

\* Only the members of the set count.
LEMMA SumOfAlike ==
    ASSUME NEW U, IsFiniteSet(U), NEW f \in [U -> Int], NEW V, IsFiniteSet(V), NEW g \in [V -> Int],
           NEW S, S \subseteq U, S \subseteq V, \A x \in S : f[x] = g[x]
    PROVE  SumOf(f, S) = SumOf(g, S)
<1> DEFINE C == {t \in SUBSET U : t \subseteq S /\ SumOf(f, t) # SumOf(g, t)}
<1>1. SUFFICES ASSUME C # {} PROVE FALSE
  OBVIOUS
<1>2. PICK t \in C : \A u \in C : ~ Cardinality(u) < Cardinality(t)
  BY <1>1, SmallestSet
<1>3. t # {}
  BY SumOfNothing
<1>4. PICK x \in t : TRUE
  BY <1>3
<1>5. Cardinality(t \ {x}) < Cardinality(t)
  BY OneLess, FS_Subset
<1>6. SumOf(f, t \ {x}) = SumOf(g, t \ {x})
  BY <1>2, <1>5
<1>7. SumOf(f, t) = f[x] + SumOf(f, t \ {x})
  BY SumSplits
<1>8. SumOf(g, t) = g[x] + SumOf(g, t \ {x})
  BY SumSplits
<1> QED
  BY <1>6, <1>7, <1>8

LEMMA SumOfSame ==
    ASSUME NEW U, IsFiniteSet(U), NEW f \in [U -> Int], NEW g \in [U -> Int],
           NEW S \in SUBSET U, \A x \in S : f[x] = g[x]
    PROVE  SumOf(f, S) = SumOf(g, S)
<1>1. S \subseteq U
  OBVIOUS
<1> QED
  BY <1>1, SumOfAlike

\* What two members exchange leaves the sum as it is.
LEMMA SumOfExchange ==
    ASSUME NEW U, IsFiniteSet(U), NEW f \in [U -> Int], NEW g \in [U -> Int],
           NEW S \in SUBSET U, NEW a \in S, NEW b \in S, a # b,
           g[a] + g[b] = f[a] + f[b],
           \A x \in S : x # a /\ x # b => f[x] = g[x]
    PROVE  SumOf(f, S) = SumOf(g, S)
<1>1. PICK T \in SUBSET U : T = (S \ {a}) \ {b}
  OBVIOUS
<1>2. b \in S \ {a} /\ S \ {a} \in SUBSET U
  OBVIOUS
<1>3. /\ SumOf(f, S) = f[a] + SumOf(f, S \ {a}) /\ SumOf(g, S) = g[a] + SumOf(g, S \ {a})
      /\ SumOf(f, S \ {a}) = f[b] + SumOf(f, T) /\ SumOf(g, S \ {a}) = g[b] + SumOf(g, T)
  BY <1>1, <1>2, SumSplits
<1>4. SumOf(f, T) = SumOf(g, T)
  BY <1>1, SumOfSame
<1>5. f[a] \in Int /\ f[b] \in Int /\ g[a] \in Int /\ g[b] \in Int /\ SumOf(f, T) \in Int
  BY SumType
<1> QED
  BY <1>3, <1>4, <1>5

\* What comes in opposite pairs sums to nothing.

\* What is zero does not count.
LEMMA SumOfZeros ==
    ASSUME NEW U, IsFiniteSet(U), NEW f \in [U -> Int], NEW S \in SUBSET U,
           \A x \in U : x \notin S => f[x] = 0
    PROVE  SumOf(f, U) = SumOf(f, S)
<1> DEFINE C == {t \in SUBSET U : S \subseteq t /\ SumOf(f, t) # SumOf(f, S)}
<1>1. SUFFICES ASSUME C # {} PROVE FALSE
  OBVIOUS
<1>2. PICK t \in C : \A u \in C : ~ Cardinality(u) < Cardinality(t)
  <2>1. C \in SUBSET (SUBSET U)
    OBVIOUS
  <2> HIDE DEF C
  <2> QED
    BY <1>1, <2>1, SmallestSet
<1>3. PICK x \in t : x \notin S
  OBVIOUS
<1>4. Cardinality(t \ {x}) < Cardinality(t)
  BY OneLess, FS_Subset
<1>5. SumOf(f, t \ {x}) = SumOf(f, S)
  BY <1>2, <1>3, <1>4
<1>6. SumOf(f, t) = f[x] + SumOf(f, t \ {x})
  BY SumSplits
<1>7. f[x] = 0 /\ SumOf(f, S) \in Int
  BY <1>3, SumType
<1> QED
  BY <1>5, <1>6, <1>7

\* Two members change, and the sum by as much as they do.
LEMMA SumOfTwoChanges ==
    ASSUME NEW U, IsFiniteSet(U), NEW f \in [U -> Int], NEW g \in [U -> Int],
           NEW a \in U, NEW b \in U, a # b,
           \A x \in U : x # a /\ x # b => f[x] = g[x]
    PROVE  SumOf(g, U) = SumOf(f, U) + (g[a] - f[a]) + (g[b] - f[b])
<1>1. PICK T \in SUBSET U : T = (U \ {a}) \ {b}
  OBVIOUS
<1>2. b \in U \ {a} /\ U \ {a} \in SUBSET U /\ U \in SUBSET U
  OBVIOUS
<1>3. /\ SumOf(f, U) = f[a] + SumOf(f, U \ {a}) /\ SumOf(g, U) = g[a] + SumOf(g, U \ {a})
      /\ SumOf(f, U \ {a}) = f[b] + SumOf(f, T) /\ SumOf(g, U \ {a}) = g[b] + SumOf(g, T)
  BY <1>1, <1>2, SumSplits
<1>4. SumOf(f, T) = SumOf(g, T)
  BY <1>1, SumOfSame
<1>5. f[a] \in Int /\ f[b] \in Int /\ g[a] \in Int /\ g[b] \in Int /\ SumOf(f, T) \in Int
  BY SumType
<1> QED
  BY <1>3, <1>4, <1>5

\* What comes in opposite pairs sums to nothing.
LEMMA SumOfOpposites ==
    ASSUME NEW U, IsFiniteSet(U), NEW f \in [U -> Int], NEW S \in SUBSET U, NEW p,
           \A c \in S : f[c] # 0 =>
              p[c] \in S /\ p[c] # c /\ f[p[c]] = -f[c] /\ p[p[c]] = c
    PROVE  SumOf(f, S) = 0
<1> DEFINE Paired(t) == \A c \in t : f[c] # 0 =>
                           p[c] \in t /\ p[c] # c /\ f[p[c]] = -f[c] /\ p[p[c]] = c
           C == {t \in SUBSET U : Paired(t) /\ SumOf(f, t) # 0}
<1>1. SUFFICES ASSUME C # {} PROVE FALSE
  OBVIOUS
<1>2. PICK t \in C : \A u \in C : ~ Cardinality(u) < Cardinality(t)
  BY <1>1, SmallestSet
<1>3. t \in SUBSET U /\ Paired(t) /\ SumOf(f, t) # 0 /\ IsFiniteSet(t)
  BY FS_Subset
<1>4. PICK x \in t : TRUE
  BY <1>3, SumOfNothing
<1>5. SumOf(f, t) = f[x] + SumOf(f, t \ {x})
  BY <1>3, SumSplits
<1>6. CASE f[x] = 0
  <2>1. Paired(t \ {x})
    BY <1>3, <1>6
  <2>2. t \ {x} \notin C
    BY <1>2, <1>3, OneLess
  <2>3. SumOf(f, t \ {x}) = 0
    BY <1>3, <2>1, <2>2
  <2> QED
    BY <1>3, <1>5, <1>6, <2>3
<1>7. CASE f[x] # 0
  <2>1. PICK y \in t : y = p[x] /\ y # x /\ f[y] = -f[x] /\ p[y] = x
    BY <1>3, <1>7
  <2>2. PICK u \in SUBSET U : u = (t \ {x}) \ {y}
    BY <1>3
  <2>3. Paired(u)
    <3> SUFFICES ASSUME NEW c \in u, f[c] # 0
                 PROVE p[c] \in u /\ p[c] # c /\ f[p[c]] = -f[c] /\ p[p[c]] = c
      OBVIOUS
    <3>1. c \in t /\ c # x /\ c # y
      BY <2>2
    <3>2. p[c] \in t /\ p[c] # c /\ f[p[c]] = -f[c] /\ p[p[c]] = c
      BY <1>3, <3>1
    <3>3. p[c] # x /\ p[c] # y
      BY <2>1, <3>1, <3>2
    <3> QED
      BY <2>2, <3>2, <3>3
  <2>4. Cardinality(u) < Cardinality(t)
    <3>1. /\ Cardinality(t \ {x}) < Cardinality(t) /\ IsFiniteSet(t \ {x})
          /\ y \in t \ {x}
      BY <1>3, <2>1, OneLess
    <3>2. Cardinality(u) < Cardinality(t \ {x}) /\ IsFiniteSet(u)
      BY <2>2, <3>1, OneLess
    <3> QED
      BY <1>3, <3>1, <3>2, FS_CardinalityType
  <2>5. SumOf(f, u) = 0
    BY <1>2, <2>3, <2>4
  <2>6. SumOf(f, t \ {x}) = f[y] + SumOf(f, u)
    <3>1. y \in t \ {x} /\ t \ {x} \in SUBSET U
      BY <1>3, <2>1
    <3> QED
      BY <2>2, <3>1, SumSplits
  <2>7. f[x] \in Int
    BY <1>3
  <2> QED
    BY <1>3, <1>5, <2>1, <2>5, <2>6, <2>7
<1> QED
  BY <1>6, <1>7
=============================================================================
