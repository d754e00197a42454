---------------------------- MODULE FastPathProofs ----------------------------
(***************************************************************************)
(* Proofs about FastPath: no turn of the wheel is lost or doubled, and     *)
(* samples arrive once and in order, for any number of buttons, any        *)
(* capacity of the FIFO and any bounds.                                    *)
(*                                                                         *)
(* Both speak of the reports on their way, which are the concatenation of  *)
(* the packets in the FIFO, and the first of sums over them: the first     *)
(* half of the module has the lemmas on sums and concatenations, by        *)
(* induction over their lengths.                                           *)
(***************************************************************************)
EXTENDS FastPath, FiniteSetTheorems, SequenceTheorems, TLAPS

-----------------------------------------------------------------------------
(* Induction over the natural numbers, and over the subsets of a finite    *)
(* set, in the form of a set that contains them all.                       *)

LEMMA LeastNatural ==
    ASSUME NEW T, T \subseteq Nat, T # {}
    PROVE  \E x \in T : \A y \in T : ~(y < x)
<1>1. \E x \in T : \A y \in T : <<y, x>> \notin OpToRel(<, Nat)
  <2> DEFINE R == OpToRel(<, Nat)
  <2>1. IsWellFoundedOn(R, Nat)
    BY NatLessThanWellFounded
  <2> HIDE DEF R
  <2>2. \E x \in T : \A y \in T : ~(<<y, x>> \in R)
    BY <2>1, WFMin
  <2> QED BY <2>2 DEF R
<1>2. PICK x \in T : \A y \in T : <<y, x>> \notin OpToRel(<, Nat)
  BY <1>1
<1>3. ASSUME NEW y \in T PROVE ~(y < x)
  BY <1>2 DEF OpToRel
<1> QED BY <1>3

LEMMA Induction ==
    ASSUME NEW T, 0 \in T, \A n \in Nat : n \in T => n + 1 \in T
    PROVE  \A n \in Nat : n \in T
<1> SUFFICES ASSUME \E n \in Nat : n \notin T PROVE FALSE
  OBVIOUS
<1>1. PICK n \in Nat \ T : \A m \in Nat \ T : ~(m < n)
  BY LeastNatural
<1>2. n # 0 /\ n - 1 \in Nat /\ n - 1 < n
  BY <1>1
<1>3. n - 1 \in T
  BY <1>1, <1>2
<1> QED BY <1>1, <1>2, <1>3

\* Subsets of a finite set, the smaller ones first.
LEMMA FiniteInduction ==
    ASSUME NEW S, IsFiniteSet(S), NEW G,
           {} \in G, \A T \in SUBSET S : T # {} /\ (\A x \in T : T \ {x} \in G) => T \in G
    PROVE  S \in G
<1> DEFINE N == {n \in Nat : \A T \in SUBSET S : Cardinality(T) = n => T \in G}
<1>1. \A T \in SUBSET S : IsFiniteSet(T) /\ Cardinality(T) \in Nat
  BY FS_Subset, FS_CardinalityType
<1>2. 0 \in N
  BY <1>1, FS_EmptySet
<1>3. ASSUME NEW n \in Nat, n \in N PROVE n + 1 \in N
  <2> SUFFICES ASSUME NEW T \in SUBSET S, Cardinality(T) = n + 1 PROVE T \in G
    OBVIOUS
  <2>1. T # {}
    BY <1>1, FS_EmptySet
  <2>2. ASSUME NEW x \in T PROVE T \ {x} \in G
    <3>1. Cardinality(T \ {x}) = n
      BY <1>1, FS_RemoveElement
    <3> QED BY <1>3, <3>1
  <2> QED BY <2>1, <2>2
<1> HIDE DEF N
<1>4. \A n \in Nat : n \in N
  BY <1>2, <1>3, Induction
<1> QED BY <1>1, <1>4 DEF N

-----------------------------------------------------------------------------
(* SumFunction: the sum over a sequence.                                   *)

Pick(s) == CHOOSE x \in s : TRUE
SumStep(f, g, s) == IF s = {} THEN 0 ELSE f[Pick(s)] + g[s \ {Pick(s)}]

IsSum(f, S, g) == g = [s \in SUBSET S |-> SumStep(f, g, s)]

LEMMA PickIn == \A s : s # {} => Pick(s) \in s
  BY DEF Pick

\* The recursive function behind the sum exists.
LEMMA SumExists ==
    ASSUME NEW f, NEW S, IsFiniteSet(S)
    PROVE  \E g : g = [s \in SUBSET S |-> SumStep(f, g, s)]
<1> DEFINE K(n) == {s \in SUBSET S : Cardinality(s) <= n}
           N == {n \in Nat : \E g : g = [s \in K(n) |-> SumStep(f, g, s)]}
<1>1. \A T \in SUBSET S : IsFiniteSet(T) /\ Cardinality(T) \in Nat /\ Cardinality(T) <= Cardinality(S)
  BY FS_Subset, FS_CardinalityType
<1>2. 0 \in N
  <2> DEFINE g == [s \in K(0) |-> 0]
  <2>1. \A s \in K(0) : s = {}
    BY <1>1, FS_EmptySet
  <2>2. g = [s \in K(0) |-> SumStep(f, g, s)]
    BY <2>1 DEF SumStep
  <2> HIDE DEF g
  <2> QED BY <2>2
<1>3. ASSUME NEW n \in Nat, n \in N PROVE n + 1 \in N
  <2>1. PICK g : g = [s \in K(n) |-> SumStep(f, g, s)]
    BY <1>3
  <2> DEFINE h == [s \in K(n + 1) |-> SumStep(f, g, s)]
  <2>2. \A s \in K(n) : s \in K(n + 1) /\ h[s] = g[s]
    BY <1>1, <2>1
  <2>3. ASSUME NEW s \in K(n + 1) PROVE SumStep(f, g, s) = SumStep(f, h, s)
    <3>1. CASE s = {}
      BY <3>1 DEF SumStep
    <3>2. CASE s # {}
      <4>1. Pick(s) \in s
        BY <3>2, PickIn
      <4>2. s \ {Pick(s)} \in K(n)
        BY <1>1, <4>1, FS_RemoveElement
      <4> QED BY <2>2, <3>2, <4>2 DEF SumStep
    <3> QED BY <3>1, <3>2
  <2>4. h = [s \in K(n + 1) |-> SumStep(f, h, s)]
    BY <2>3
  <2> HIDE DEF h
  <2> QED BY <2>4
<1> HIDE DEF N
<1>4. Cardinality(S) \in N
  BY <1>2, <1>3, Induction, FS_CardinalityType
<1>5. K(Cardinality(S)) = SUBSET S
  BY <1>1
<1> QED BY <1>4, <1>5 DEF N

LEMMA SumDef ==
    ASSUME NEW f, NEW S, IsFiniteSet(S)
    PROVE  \E g : IsSum(f, S, g) /\ SumFunctionOnSet(f, S) = g[S]
<1> DEFINE it == CHOOSE g : g = [s \in SUBSET S |-> SumStep(f, g, s)]
<1>1. it = [s \in SUBSET S |-> SumStep(f, it, s)]
  BY SumExists
<1>2. SumFunctionOnSet(f, S) = it[S]
  BY DEF SumFunctionOnSet, FoldFunctionOnSet, MapThenFoldSet, SumStep, Pick
<1> HIDE DEF it
<1> QED BY <1>1, <1>2 DEF IsSum

LEMMA SumUnique ==
    ASSUME NEW f, NEW S, IsFiniteSet(S), NEW U \in SUBSET S, NEW g, NEW h,
           IsSum(f, S, g), IsSum(f, U, h)
    PROVE  g[U] = h[U]
<1> DEFINE G == {T \in SUBSET U : g[T] = h[T]}
<1>1. {} \in G
  BY DEF SumStep, IsSum
<1>2. ASSUME NEW T \in SUBSET U, T # {}, \A x \in T : T \ {x} \in G PROVE T \in G
  <2>1. Pick(T) \in T
    BY <1>2, PickIn
  <2>2. g[T \ {Pick(T)}] = h[T \ {Pick(T)}]
    BY <1>2, <2>1
  <2>3. g[T] = SumStep(f, g, T) /\ h[T] = SumStep(f, h, T)
    BY DEF IsSum
  <2> QED BY <1>2, <2>2, <2>3 DEF SumStep
<1> HIDE DEF G
<1>3. U \in G
  BY <1>1, <1>2, FiniteInduction, FS_Subset
<1> QED BY <1>3 DEF G

LEMMA SumOne ==
    ASSUME NEW f, NEW S, IsFiniteSet(S), S # {}
    PROVE  SumFunctionOnSet(f, S) = f[Pick(S)] + SumFunctionOnSet(f, S \ {Pick(S)})
<1>1. PICK g : IsSum(f, S, g) /\ SumFunctionOnSet(f, S) = g[S]
  BY SumDef
<1> DEFINE U == S \ {Pick(S)}
<1>2. U \in SUBSET S /\ IsFiniteSet(U)
  BY FS_Subset
<1> HIDE DEF U
<1>3. PICK h : IsSum(f, U, h) /\ SumFunctionOnSet(f, U) = h[U]
  BY <1>2, SumDef
<1>4. g[U] = h[U]
  BY <1>1, <1>2, <1>3, SumUnique
<1>5. g[S] = SumStep(f, g, S)
  BY <1>1 DEF IsSum
<1> QED BY <1>1, <1>3, <1>4, <1>5 DEF SumStep, U

LEMMA SumEmpty == ASSUME NEW f PROVE SumFunctionOnSet(f, {}) = 0
<1>1. IsFiniteSet({})
  BY FS_EmptySet
<1>2. PICK g : IsSum(f, {}, g) /\ SumFunctionOnSet(f, {}) = g[{}]
  BY <1>1, SumDef
<1> QED BY <1>2 DEF SumStep, IsSum

LEMMA SumType ==
    ASSUME NEW f, NEW S, IsFiniteSet(S), \A x \in S : f[x] \in Int
    PROVE  SumFunctionOnSet(f, S) \in Int
<1> DEFINE G == {T \in SUBSET S : SumFunctionOnSet(f, T) \in Int}
<1>1. {} \in G
  BY SumEmpty
<1>2. ASSUME NEW T \in SUBSET S, T # {}, \A x \in T : T \ {x} \in G PROVE T \in G
  <2> DEFINE p == Pick(T)
  <2>1. p \in T /\ IsFiniteSet(T)
    BY <1>2, PickIn, FS_Subset
  <2>2. \A e : SumFunctionOnSet(e, T) = e[p] + SumFunctionOnSet(e, T \ {p})
    BY <1>2, <2>1, SumOne
  <2> HIDE DEF p
  <2> QED BY <1>2, <2>1, <2>2
<1> HIDE DEF G
<1>3. S \in G
  BY <1>1, <1>2, FiniteInduction
<1> QED BY <1>3 DEF G

LEMMA SumAgree ==
    ASSUME NEW f, NEW g, NEW S, IsFiniteSet(S), \A x \in S : f[x] = g[x]
    PROVE  SumFunctionOnSet(f, S) = SumFunctionOnSet(g, S)
<1> DEFINE G == {T \in SUBSET S : SumFunctionOnSet(f, T) = SumFunctionOnSet(g, T)}
<1>1. {} \in G
  BY SumEmpty
<1>2. ASSUME NEW T \in SUBSET S, T # {}, \A x \in T : T \ {x} \in G PROVE T \in G
  <2> DEFINE p == Pick(T)
  <2>1. p \in T /\ IsFiniteSet(T)
    BY <1>2, PickIn, FS_Subset
  <2>2. \A e : SumFunctionOnSet(e, T) = e[p] + SumFunctionOnSet(e, T \ {p})
    BY <1>2, <2>1, SumOne
  <2> HIDE DEF p
  <2> QED BY <1>2, <2>1, <2>2
<1> HIDE DEF G
<1>3. S \in G
  BY <1>1, <1>2, FiniteInduction
<1> QED BY <1>3 DEF G

LEMMA SumWithout ==
    ASSUME NEW f, NEW S, IsFiniteSet(S), \A x \in S : f[x] \in Int
    PROVE  \A x \in S : SumFunctionOnSet(f, S) = f[x] + SumFunctionOnSet(f, S \ {x})
<1> DEFINE Sum(T) == SumFunctionOnSet(f, T)
           G == {T \in SUBSET S : \A x \in T : Sum(T) = f[x] + Sum(T \ {x})}
<1>1. {} \in G
  OBVIOUS
<1>2. ASSUME NEW T \in SUBSET S, T # {}, \A x \in T : T \ {x} \in G PROVE T \in G
  <2> SUFFICES ASSUME NEW x \in T PROVE Sum(T) = f[x] + Sum(T \ {x})
    OBVIOUS
  <2> DEFINE p == Pick(T)
  <2>1. p \in T /\ IsFiniteSet(T)
    BY <1>2, PickIn, FS_Subset
  <2>2. Sum(T) = f[p] + Sum(T \ {p})
    BY <1>2, <2>1, SumOne
  <2> HIDE DEF p
  <2>3. CASE x = p
    BY <2>2, <2>3
  <2>4. CASE x # p
    <3>1. Sum(T \ {p}) = f[x] + Sum((T \ {p}) \ {x})
      BY <1>2, <2>1, <2>4
    <3>2. Sum(T \ {x}) = f[p] + Sum((T \ {x}) \ {p})
      BY <1>2, <2>1, <2>4
    <3>3. (T \ {p}) \ {x} = (T \ {x}) \ {p}
      OBVIOUS
    <3> DEFINE r == Sum((T \ {x}) \ {p})
    <3>4. r \in Int /\ f[x] \in Int /\ f[p] \in Int
      BY <2>1, FS_Subset, SumType
    <3>5. Sum(T \ {p}) = f[x] + r /\ Sum(T \ {x}) = f[p] + r
      BY <3>1, <3>2, <3>3
    <3> HIDE DEF r, Sum
    <3> QED BY <2>2, <3>4, <3>5
  <2> QED BY <2>3, <2>4
<1> HIDE DEF G
<1>3. S \in G
  BY <1>1, <1>2, FiniteInduction
<1> QED BY <1>3 DEF G

LEMMA SumAppend ==
    ASSUME NEW s \in Seq(Int), NEW e \in Int
    PROVE  SumFunction(Append(s, e)) = SumFunction(s) + e
<1> DEFINE n == Len(s)
           t == Append(s, e)
<1>1. /\ n \in Nat /\ t \in Seq(Int) /\ Len(t) = n + 1 /\ t[n + 1] = e
      /\ \A i \in 1 .. n : t[i] = s[i]
  BY AppendProperties, LenProperties
<1>2. /\ DOMAIN s = 1 .. n /\ DOMAIN t = 1 .. n + 1 /\ \A i \in 1 .. n : s[i] \in Int
      /\ \A i \in 1 .. n + 1 : t[i] \in Int
  BY <1>1, LenProperties, ElementOfSeq
<1> HIDE DEF n, t
<1>3. IsFiniteSet(1 .. n + 1) /\ IsFiniteSet(1 .. n)
  BY <1>1, FS_Interval
<1>4. SumFunctionOnSet(t, 1 .. n + 1) = t[n + 1] + SumFunctionOnSet(t, (1 .. n + 1) \ {n + 1})
  <2>1. n + 1 \in 1 .. n + 1
    BY <1>1
  <2> HIDE DEF n
  <2> QED BY <2>1, <1>2, <1>3, SumWithout
<1>5. (1 .. n + 1) \ {n + 1} = 1 .. n
  BY <1>1
<1>6. SumFunctionOnSet(t, 1 .. n) = SumFunctionOnSet(s, 1 .. n)
  BY <1>1, <1>3, SumAgree
<1>7. SumFunctionOnSet(s, 1 .. n) \in Int
  BY <1>2, <1>3, SumType
<1>8. SumFunction(t) = SumFunctionOnSet(t, 1 .. n + 1) /\ SumFunction(s) = SumFunctionOnSet(s, 1 .. n)
  BY <1>2 DEF SumFunction
<1>9. SumFunction(t) = e + SumFunction(s)
  BY <1>1, <1>4, <1>5, <1>6, <1>8, Zenon
<1>10. SumFunction(t) = SumFunction(s) + e
  BY <1>7, <1>8, <1>9
<1> QED BY <1>10 DEF t

LEMMA SumSeqType == ASSUME NEW s \in Seq(Int) PROVE SumFunction(s) \in Int
<1>1. DOMAIN s = 1 .. Len(s) /\ Len(s) \in Nat /\ \A i \in 1 .. Len(s) : s[i] \in Int
  BY LenProperties, ElementOfSeq
<1>2. IsFiniteSet(1 .. Len(s))
  BY <1>1, FS_Interval
<1> QED BY <1>1, <1>2, SumType DEF SumFunction

LEMMA SumEmptySeq == SumFunction(<<>>) = 0
<1>1. DOMAIN <<>> = {}
  OBVIOUS
<1> QED BY <1>1, SumEmpty DEF SumFunction

LEMMA SumConcat ==
    ASSUME NEW s \in Seq(Int), NEW t \in Seq(Int)
    PROVE  SumFunction(s \o t) = SumFunction(s) + SumFunction(t)
<1> DEFINE N == {n \in Nat : \A u \in Seq(Int) :
                     Len(u) = n => SumFunction(s \o u) = SumFunction(s) + SumFunction(u)}
<1>1. 0 \in N
  <2> SUFFICES ASSUME NEW u \in Seq(Int), Len(u) = 0
               PROVE  SumFunction(s \o u) = SumFunction(s) + SumFunction(u)
    OBVIOUS
  <2>1. u = <<>>
    BY EmptySeq
  <2>2. s \o u = s
    BY <2>1, ConcatEmptySeq
  <2> QED BY <2>1, <2>2, SumEmptySeq, SumSeqType
<1>2. ASSUME NEW n \in Nat, n \in N PROVE n + 1 \in N
  <2> SUFFICES ASSUME NEW u \in Seq(Int), Len(u) = n + 1
               PROVE  SumFunction(s \o u) = SumFunction(s) + SumFunction(u)
    OBVIOUS
  <2>1. u # <<>>
    BY EmptySeq
  <2>2. PICK v \in Seq(Int), e \in Int : u = Append(v, e)
    BY <2>1, SequenceEmptyOrAppend
  <2>3. Len(v) = n
    BY <2>2, AppendProperties, LenProperties
  <2>4. s \o u = Append(s \o v, e)
    <3>1. u = v \o <<e>> /\ <<e>> \in Seq(Int)
      BY <2>2, AppendIsConcat
    <3>2. s \o v \in Seq(Int)
      BY ConcatProperties
    <3>3. Append(s \o v, e) = (s \o v) \o <<e>>
      BY <3>2, AppendIsConcat
    <3>4. s \o (v \o <<e>>) = (s \o v) \o <<e>>
      BY <3>1, ConcatAssociative
    <3> QED BY <3>1, <3>3, <3>4
  <2>5. SumFunction(s \o u) = SumFunction(s \o v) + e
    BY <2>4, SumAppend, ConcatProperties
  <2>6. SumFunction(u) = SumFunction(v) + e
    BY <2>2, SumAppend
  <2>7. SumFunction(s \o v) = SumFunction(s) + SumFunction(v)
    BY <1>2, <2>3
  <2>8. SumFunction(s) \in Int /\ SumFunction(v) \in Int
    BY SumSeqType
  <2> QED BY <2>5, <2>6, <2>7, <2>8
<1> HIDE DEF N
<1>3. Len(t) \in N
  BY <1>1, <1>2, Induction, LenProperties
<1> QED BY <1>3 DEF N

-----------------------------------------------------------------------------
(* FlattenSeq: the concatenation of the sequences of a sequence.           *)

Cat(a, b) == a \o b
FlatStep(s, f, i) == IF i = 1 THEN s[i] ELSE Cat(f[i - 1], s[i])
IsFlat(s, n, f) == f = [i \in 1 .. n |-> FlatStep(s, f, i)]

LEMMA FlatExists ==
    ASSUME NEW s, NEW n \in Nat
    PROVE  \E f : IsFlat(s, n, f)
<1> DEFINE N == {k \in Nat : \E f : IsFlat(s, k, f)}
<1>1. 0 \in N
  <2> DEFINE f == [i \in 1 .. 0 |-> 0]
  <2>1. IsFlat(s, 0, f)
    BY DEF IsFlat
  <2> HIDE DEF f
  <2> QED BY <2>1
<1>2. ASSUME NEW k \in Nat, k \in N PROVE k + 1 \in N
  <2>1. PICK f : IsFlat(s, k, f)
    BY <1>2
  <2> DEFINE g == [i \in 1 .. k + 1 |-> FlatStep(s, f, i)]
  <2>2. \A i \in 1 .. k : g[i] = f[i]
    BY <2>1 DEF IsFlat
  <2>3. \A i \in 1 .. k + 1 : FlatStep(s, f, i) = FlatStep(s, g, i)
    <3> SUFFICES ASSUME NEW i \in 1 .. k + 1, i # 1 PROVE f[i - 1] = g[i - 1]
      BY DEF FlatStep
    <3>1. i - 1 \in 1 .. k
      OBVIOUS
    <3> QED BY <2>2, <3>1
  <2>4. IsFlat(s, k + 1, g)
    BY <2>3 DEF IsFlat
  <2> HIDE DEF g
  <2> QED BY <2>4
<1> HIDE DEF N
<1>3. n \in N
  BY <1>1, <1>2, Induction
<1> QED BY <1>3 DEF N

LEMMA FlatDef ==
    ASSUME NEW S, NEW s \in Seq(S), s # <<>>
    PROVE  \E f : IsFlat(s, Len(s), f) /\ FlattenSeq(s) = f[Len(s)]
<1> DEFINE it == CHOOSE f : f = [i \in 1 .. Len(s) |-> FlatStep(s, f, i)]
<1>1. Len(s) \in Nat /\ Len(s) # 0
  BY EmptySeq, LenProperties
<1>2. \E f : f = [i \in 1 .. Len(s) |-> FlatStep(s, f, i)]
  BY <1>1, FlatExists DEF IsFlat
<1>3. it = [i \in 1 .. Len(s) |-> FlatStep(s, it, i)]
  BY <1>2
<1>4. FlattenSeq(s) = it[Len(s)]
  BY <1>1 DEF FlattenSeq, FlatStep, Cat
<1> HIDE DEF it
<1> QED BY <1>3, <1>4 DEF IsFlat


LEMMA FlatAgree ==
    ASSUME NEW s, NEW t, NEW n \in Nat, NEW m \in Nat, n <= m, \A i \in 1 .. n : s[i] = t[i],
           NEW f, NEW g, IsFlat(s, n, f), IsFlat(t, m, g)
    PROVE  \A i \in 1 .. n : f[i] = g[i]
<1> DEFINE N == {k \in Nat : k \in 1 .. n => f[k] = g[k]}
<1>1. 0 \in N
  OBVIOUS
<1>2. ASSUME NEW k \in Nat, k \in N PROVE k + 1 \in N
  <2> SUFFICES ASSUME k + 1 \in 1 .. n PROVE f[k + 1] = g[k + 1]
    OBVIOUS
  <2>1. f[k + 1] = FlatStep(s, f, k + 1) /\ g[k + 1] = FlatStep(t, g, k + 1)
    <3>1. k + 1 \in 1 .. n /\ k + 1 \in 1 .. m
      OBVIOUS
    <3> QED BY <3>1 DEF IsFlat
  <2>2. CASE k = 0
    BY <2>1, <2>2 DEF FlatStep
  <2>3. CASE k # 0
    <3>1. k \in 1 .. n /\ (k + 1) - 1 = k /\ k + 1 # 1
      BY <2>3
    <3>2. f[k] = g[k]
      BY <1>2, <3>1
    <3> QED BY <2>1, <3>1, <3>2 DEF FlatStep
  <2> QED BY <2>2, <2>3
<1> HIDE DEF N
<1>3. \A k \in Nat : k \in N
  BY <1>1, <1>2, Induction
<1> QED BY <1>3 DEF N

LEMMA FlatEmpty == FlattenSeq(<<>>) = <<>>
<1>1. Len(<<>>) = 0
  OBVIOUS
<1> QED BY <1>1 DEF FlattenSeq

SameFirst(s, t, n) == \A i \in 1 .. n : s[i] = t[i]

LEMMA FlatGrow ==
    ASSUME NEW s, NEW t, NEW n \in Nat, NEW k \in Nat, n # 0, k = n + 1, SameFirst(s, t, n),
           NEW f, NEW g, IsFlat(s, n, f), IsFlat(t, k, g)
    PROVE  g[k] = Cat(f[n], t[k])
<1>1. n <= k /\ \A i \in 1 .. n : s[i] = t[i]
  BY DEF SameFirst
<1>2. \A i \in 1 .. n : f[i] = g[i]
  BY <1>1, FlatAgree
<1>3. n \in 1 .. n /\ k \in 1 .. k /\ k # 1 /\ k - 1 = n
  OBVIOUS
<1>4. g[k] = FlatStep(t, g, k)
  BY <1>3 DEF IsFlat
<1>5. g[k] = Cat(g[n], t[k])
  BY <1>3, <1>4 DEF FlatStep
<1> QED BY <1>2, <1>3, <1>5

LEMMA FlatNext ==
    ASSUME NEW R, NEW s \in Seq(Seq(R)), NEW t \in Seq(Seq(R)), NEW n \in Nat, NEW k \in Nat,
           n # 0, k = n + 1, Len(s) = n, Len(t) = k, SameFirst(s, t, n)
    PROVE  FlattenSeq(t) = Cat(FlattenSeq(s), t[k])
<1>1. s # <<>> /\ t # <<>>
  BY EmptySeq
<1>2. PICK f : IsFlat(s, n, f) /\ FlattenSeq(s) = f[n]
  BY <1>1, FlatDef
<1>3. PICK g : IsFlat(t, k, g) /\ FlattenSeq(t) = g[k]
  BY <1>1, FlatDef
<1>4. g[k] = Cat(f[n], t[k])
  BY <1>2, <1>3, FlatGrow
<1>5. FlattenSeq(s) = f[n] /\ FlattenSeq(t) = g[k]
  BY <1>2, <1>3
<1> QED BY ONLY <1>4, <1>5, Zenon

LEMMA FlatAppend ==
    ASSUME NEW R, NEW s \in Seq(Seq(R)), NEW e \in Seq(R)
    PROVE  FlattenSeq(Append(s, e)) = FlattenSeq(s) \o e
<1> DEFINE t == Append(s, e)
           n == Len(s)
           k == n + 1
<1>1. /\ t \in Seq(Seq(R)) /\ t # <<>> /\ Len(t) = k /\ n \in Nat /\ k \in Nat /\ k = n + 1
      /\ t[k] = e /\ SameFirst(s, t, n)
  BY AppendProperties, LenProperties DEF SameFirst
<1>2. CASE s = <<>>
  <2>1. n = 0
    BY <1>2
  <2> HIDE DEF t
  <2>2. PICK g : IsFlat(t, k, g) /\ FlattenSeq(t) = g[k]
    BY <1>1, FlatDef
  <2>3. FlattenSeq(t) = e
    BY <1>1, <2>1, <2>2 DEF FlatStep, IsFlat
  <2>4. FlattenSeq(s) \o e = e
    BY <1>2, FlatEmpty, ConcatEmptySeq
  <2> QED BY <2>3, <2>4 DEF t
<1>3. CASE s # <<>>
  <2>1. n # 0 /\ Len(s) = n
    BY <1>3, EmptySeq
  <2> HIDE DEF t, n, k
  <2>2. FlattenSeq(t) = Cat(FlattenSeq(s), t[k])
    BY <1>1, <2>1, FlatNext
  <2> QED BY <1>1, <2>2 DEF t, Cat
<1> QED BY <1>2, <1>3

LEMMA SequenceInduction ==
    ASSUME NEW S, NEW G, <<>> \in G, \A s \in Seq(S) : \A e \in S : s \in G => Append(s, e) \in G
    PROVE  \A s \in Seq(S) : s \in G
<1> DEFINE N == {n \in Nat : \A s \in Seq(S) : Len(s) = n => s \in G}
<1>1. 0 \in N
  BY EmptySeq
<1>2. ASSUME NEW n \in Nat, n \in N PROVE n + 1 \in N
  <2> SUFFICES ASSUME NEW s \in Seq(S), Len(s) = n + 1 PROVE s \in G
    OBVIOUS
  <2>1. s # <<>>
    BY EmptySeq
  <2>2. PICK u \in Seq(S), e \in S : s = Append(u, e)
    BY <2>1, SequenceEmptyOrAppend
  <2>3. Len(u) = n
    BY <2>2, AppendProperties, LenProperties
  <2> QED BY <1>2, <2>2, <2>3
<1> HIDE DEF N
<1>3. \A n \in Nat : n \in N
  BY <1>1, <1>2, Induction
<1> QED BY <1>3, LenProperties DEF N

LEMMA FlatType ==
    ASSUME NEW R, NEW s \in Seq(Seq(R))
    PROVE  FlattenSeq(s) \in Seq(R)
<1> DEFINE G == {u \in Seq(Seq(R)) : FlattenSeq(u) \in Seq(R)}
<1>1. <<>> \in G
  BY FlatEmpty, EmptySeq
<1>2. ASSUME NEW u \in Seq(Seq(R)), NEW e \in Seq(R), u \in G PROVE Append(u, e) \in G
  <2>1. Append(u, e) \in Seq(Seq(R)) /\ FlattenSeq(Append(u, e)) = FlattenSeq(u) \o e
    BY FlatAppend, AppendProperties
  <2>2. FlattenSeq(u) \o e \in Seq(R)
    BY <1>2, ConcatProperties
  <2> QED BY <2>1, <2>2
<1> HIDE DEF G
<1>3. s \in G
  BY <1>1, <1>2, SequenceInduction
<1> QED BY <1>3 DEF G

LEMMA ConcatThree ==
    ASSUME NEW R, NEW a \in Seq(R), NEW b \in Seq(R), NEW c \in Seq(R)
    PROVE  (a \o b) \o c = a \o (b \o c)
  OBVIOUS

LEMMA FlatHead ==
    ASSUME NEW R, NEW s \in Seq(Seq(R)), s # <<>>
    PROVE  FlattenSeq(s) = Head(s) \o FlattenSeq(Tail(s))
<1> DEFINE G == {u \in Seq(Seq(R)) : u # <<>> => FlattenSeq(u) = Head(u) \o FlattenSeq(Tail(u))}
<1>1. <<>> \in G
  OBVIOUS
<1>2. ASSUME NEW u \in Seq(Seq(R)), NEW e \in Seq(R), u \in G PROVE Append(u, e) \in G
  <2> DEFINE t == Append(u, e)
  <2>1. t \in Seq(Seq(R)) /\ FlattenSeq(t) = FlattenSeq(u) \o e
    BY FlatAppend
  <2>2. /\ Head(t) = IF u = <<>> THEN e ELSE Head(u)
        /\ Tail(t) = IF u = <<>> THEN <<>> ELSE Append(Tail(u), e)
    BY HeadTailAppend
  <2> HIDE DEF t
  <2>3. FlattenSeq(t) = Head(t) \o FlattenSeq(Tail(t))
    <3>1. CASE u = <<>>
      <4>1. FlattenSeq(t) = e
        BY <2>1, <3>1, FlatEmpty, ConcatEmptySeq
      <4>2. Head(t) \o FlattenSeq(Tail(t)) = e
        BY <2>2, <3>1, FlatEmpty, ConcatEmptySeq
      <4> QED BY <4>1, <4>2
    <3>2. CASE u # <<>>
      <4>1. Head(u) \in Seq(R) /\ Tail(u) \in Seq(Seq(R))
        BY <3>2, HeadTailProperties
      <4>2. FlattenSeq(Tail(u)) \in Seq(R)
        BY <4>1, FlatType
      <4>3. FlattenSeq(Append(Tail(u), e)) = FlattenSeq(Tail(u)) \o e
        BY <4>1, FlatAppend
      <4>4. FlattenSeq(u) = Head(u) \o FlattenSeq(Tail(u))
        BY <1>2, <3>2
      <4> DEFINE a == Head(u)
                 b == FlattenSeq(Tail(u))
      <4>5. (a \o b) \o e = a \o (b \o e)
        <5>1. a \in Seq(R) /\ b \in Seq(R)
          BY <4>1, <4>2
        <5> HIDE DEF a, b
        <5> QED BY <5>1
      <4> QED BY <2>1, <2>2, <3>2, <4>3, <4>4, <4>5
    <3> QED BY <3>1, <3>2
  <2> QED BY <2>1, <2>3 DEF t
<1> HIDE DEF G
<1>3. s \in G
  BY <1>1, <1>2, SequenceInduction
<1> QED BY <1>3 DEF G
-----------------------------------------------------------------------------
(* The reports: the turns of the wheel in them, and those of a FIFO.       *)

LEMMA ConstantTypes ==
    /\ Divider \in Nat \ {0} /\ WheelLimit \in Nat \ {0} /\ Capacity \in Nat \ {0}
    /\ MaxSamples \in Nat /\ MaxInputs \in Nat /\ MaxFaults \in Nat /\ Turns \subseteq Int
  BY SizesAssumption

LEMMA ReportType ==
    ASSUME NEW r \in Reports
    PROVE  r.id \in Nat /\ r.id <= MaxSamples /\ r.wheel \in Int
  BY ConstantTypes DEF Reports

LEMMA WheelsType ==
    ASSUME NEW s \in Seq(Reports)
    PROVE  LET w == [i \in DOMAIN s |-> s[i].wheel]
           IN  /\ w \in Seq(Int) /\ DOMAIN w = DOMAIN s /\ Len(w) = Len(s)
               /\ Len(s) \in Nat /\ DOMAIN s = 1 .. Len(s)
<1>1. Len(s) \in Nat /\ DOMAIN s = 1 .. Len(s) /\ \A i \in 1 .. Len(s) : s[i] \in Reports
  BY LenProperties, ElementOfSeq
<1>2. \A i \in 1 .. Len(s) : s[i].wheel \in Int
  BY <1>1, ReportType
<1> QED BY <1>1, <1>2

LEMMA WheelOfType == ASSUME NEW s \in Seq(Reports) PROVE WheelOf(s) \in Int
  BY WheelsType, SumSeqType DEF WheelOf

LEMMA WheelOfEmpty == WheelOf(<<>>) = 0
<1>1. [i \in DOMAIN <<>> |-> <<>>[i].wheel] = <<>>
  OBVIOUS
<1> QED BY <1>1, SumEmptySeq DEF WheelOf

LEMMA WheelOfOne == ASSUME NEW r \in Reports PROVE WheelOf(<<r>>) = r.wheel
<1>1. [i \in DOMAIN <<r>> |-> <<r>>[i].wheel] = Append(<<>>, r.wheel)
  OBVIOUS
<1> DEFINE w == r.wheel
           e == <<>>
<1>2. w \in Int /\ e \in Seq(Int)
  BY ReportType
<1> HIDE DEF w, e
<1>3. SumFunction(Append(e, w)) = SumFunction(e) + w
  BY <1>2, SumAppend
<1>4. SumFunction(e) = 0
  BY SumEmptySeq DEF e
<1>5. SumFunction(Append(e, w)) = w
  BY <1>2, <1>3, <1>4
<1> QED BY <1>1, <1>5 DEF WheelOf, w, e

LEMMA WheelOfCat ==
    ASSUME NEW s \in Seq(Reports), NEW t \in Seq(Reports)
    PROVE  WheelOf(Cat(s, t)) = WheelOf(s) + WheelOf(t)
<1> DEFINE u == s \o t
           a == [i \in DOMAIN s |-> s[i].wheel]
           b == [i \in DOMAIN t |-> t[i].wheel]
           c == [i \in DOMAIN u |-> u[i].wheel]
           d == a \o b
<1>1. /\ a \in Seq(Int) /\ b \in Seq(Int) /\ Len(a) = Len(s) /\ Len(b) = Len(t)
      /\ Len(s) \in Nat /\ Len(t) \in Nat
      /\ DOMAIN s = 1 .. Len(s) /\ DOMAIN t = 1 .. Len(t)
  BY WheelsType
<1>2. /\ u \in Seq(Reports) /\ Len(u) = Len(s) + Len(t)
      /\ \A i \in 1 .. Len(s) + Len(t) :
            u[i] = IF i <= Len(s) THEN s[i] ELSE t[i - Len(s)]
  BY ConcatProperties
<1> HIDE DEF u
<1>3. c \in Seq(Int) /\ DOMAIN u = 1 .. Len(u) /\ Len(c) = Len(s) + Len(t)
  BY <1>2, WheelsType
<1>4. \A i \in 1 .. Len(s) + Len(t) :
         c[i] = IF i <= Len(s) THEN a[i] ELSE b[i - Len(s)]
  BY <1>1, <1>2, <1>3
<1> HIDE DEF a, b, c
<1>5. /\ d \in Seq(Int) /\ Len(d) = Len(a) + Len(b)
      /\ \A i \in 1 .. Len(a) + Len(b) : d[i] = IF i <= Len(a) THEN a[i] ELSE b[i - Len(a)]
  BY <1>1, ConcatProperties
<1>6. SumFunction(d) = SumFunction(a) + SumFunction(b)
  BY <1>1, SumConcat
<1> HIDE DEF d
<1>7. c = d
  BY <1>1, <1>3, <1>4, <1>5, SeqEqual
<1> QED BY <1>6, <1>7 DEF WheelOf, Cat, a, b, c, u

LEMMA FifoEmpty == InFifo(<<>>) = <<>>
<1>1. [i \in 1 .. Len(<<>>) |-> <<>>[i].reports] = <<>>
  OBVIOUS
<1> QED BY <1>1, FlatEmpty DEF InFifo

Contents(f) == [i \in 1 .. Len(f) |-> f[i].reports]

LEMMA ContentsType == ASSUME NEW f \in Seq(Packets) PROVE Contents(f) \in Seq(Seq(Reports))
<1>1. Len(f) \in Nat /\ \A i \in 1 .. Len(f) : f[i] \in Packets
  BY LenProperties, ElementOfSeq
<1>2. \A i \in 1 .. Len(f) : f[i].reports \in Seq(Reports)
  BY <1>1 DEF Packets
<1> QED BY <1>1, <1>2, IsASeq DEF Contents

LEMMA FifoType == ASSUME NEW f \in Seq(Packets) PROVE InFifo(f) \in Seq(Reports)
  BY ContentsType, FlatType DEF InFifo, Contents

LEMMA FifoAppend ==
    ASSUME NEW f \in Seq(Packets), NEW p \in Packets
    PROVE  InFifo(Append(f, p)) = Cat(InFifo(f), p.reports)
<1>1. Contents(f) \in Seq(Seq(Reports)) /\ p.reports \in Seq(Reports)
  BY ContentsType DEF Packets
<1>2. Contents(Append(f, p)) = Append(Contents(f), p.reports)
  BY DEF Contents
<1> DEFINE c == Contents(f)
           r == p.reports
<1>3. FlattenSeq(Append(c, r)) = Cat(FlattenSeq(c), r)
  <2> HIDE DEF c, r
  <2> QED BY <1>1, FlatAppend DEF c, r, Cat
<1> QED BY <1>2, <1>3 DEF InFifo, Contents

LEMMA FifoOne == ASSUME NEW p \in Packets PROVE InFifo(<<p>>) = p.reports
<1>1. <<p>> = Append(<<>>, p) /\ <<>> \in Seq(Packets)
  OBVIOUS
<1>2. InFifo(<<p>>) = Cat(<<>>, p.reports)
  BY <1>1, FifoAppend, FifoEmpty
<1>3. p.reports \in Seq(Reports)
  BY DEF Packets
<1> QED BY <1>2, <1>3, ConcatEmptySeq DEF Cat

LEMMA FifoHead ==
    ASSUME NEW f \in Seq(Packets), f # <<>>
    PROVE  InFifo(f) = Cat(Head(f).reports, InFifo(Tail(f)))
<1> DEFINE c == Contents(f)
<1>1. c \in Seq(Seq(Reports)) /\ c # <<>>
  BY ContentsType DEF Contents
<1>2. Head(c) = Head(f).reports /\ Tail(c) = Contents(Tail(f))
  BY DEF Contents
<1> HIDE DEF c
<1>3. FlattenSeq(c) = Cat(Head(c), FlattenSeq(Tail(c)))
  BY <1>1, FlatHead DEF Cat
<1> QED BY <1>2, <1>3 DEF InFifo, Contents, c

-----------------------------------------------------------------------------
(* The order of the samples.                                               *)

\* A way in order, after the sample last and up to the n-th.
Fresh(way, last, n) ==
    /\ InOrder(way, last)
    /\ last <= n /\ \A i \in 1 .. Len(way) : way[i].id <= n

Before(s, t) == \A j \in 1 .. Len(t) : t[j].id # 0 => \A i \in 1 .. Len(s) : s[i].id < t[j].id

LEMMA Elements ==
    ASSUME NEW s \in Seq(Reports)
    PROVE  Len(s) \in Nat /\ \A i \in 1 .. Len(s) : s[i] \in Reports /\ s[i].id \in Nat
<1>1. Len(s) \in Nat /\ \A i \in 1 .. Len(s) : s[i] \in Reports
  BY LenProperties, ElementOfSeq
<1> QED BY <1>1, ReportType

LEMMA CatElements ==
    ASSUME NEW s \in Seq(Reports), NEW t \in Seq(Reports)
    PROVE  /\ Cat(s, t) \in Seq(Reports) /\ Len(Cat(s, t)) = Len(s) + Len(t)
           /\ \A i \in 1 .. Len(s) : i \in 1 .. Len(s) + Len(t) /\ Cat(s, t)[i] = s[i]
           /\ \A j \in 1 .. Len(t) : /\ Len(s) + j \in 1 .. Len(s) + Len(t)
                                     /\ Cat(s, t)[Len(s) + j] = t[j]
           /\ \A k \in 1 .. Len(s) + Len(t) :
                 k \in 1 .. Len(s) \/ k - Len(s) \in 1 .. Len(t)
<1> DEFINE u == s \o t
           m == Len(s)
           l == Len(t)
<1>1. /\ u \in Seq(Reports) /\ Len(u) = m + l /\ m \in Nat /\ l \in Nat
      /\ \A i \in 1 .. m + l : u[i] = IF i <= m THEN s[i] ELSE t[i - m]
  BY ConcatProperties, LenProperties
<1> HIDE DEF u, m, l
<1>2. \A i \in 1 .. m : i \in 1 .. m + l /\ u[i] = s[i]
  BY <1>1
<1>3. ASSUME NEW j \in 1 .. l PROVE m + j \in 1 .. m + l /\ u[m + j] = t[j]
  <2>1. m + j \in 1 .. m + l /\ ~(m + j <= m) /\ (m + j) - m = j
    BY <1>1
  <2> QED BY <1>1, <2>1
<1>4. \A k \in 1 .. m + l : k \in 1 .. m \/ k - m \in 1 .. l
  BY <1>1
<1> QED BY <1>1, <1>2, <1>3, <1>4 DEF Cat, u, m, l

LEMMA BeforeCatLeft ==
    ASSUME NEW s \in Seq(Reports), NEW t \in Seq(Reports), NEW u \in Seq(Reports)
    PROVE  Before(Cat(s, t), u) <=> Before(s, u) /\ Before(t, u)
<1> DEFINE c == Cat(s, t)
           m == Len(s)
           l == Len(t)
<1>1. /\ Len(c) = m + l /\ m \in Nat /\ l \in Nat
      /\ \A i \in 1 .. m : i \in 1 .. m + l /\ c[i] = s[i]
      /\ \A j \in 1 .. l : m + j \in 1 .. m + l /\ c[m + j] = t[j]
      /\ \A k \in 1 .. m + l : k \in 1 .. m \/ k - m \in 1 .. l
  BY CatElements, Elements
<1> HIDE DEF c, m, l
<1>2. ASSUME Before(c, u) PROVE Before(s, u) /\ Before(t, u)
  BY <1>1, <1>2 DEF Before, m, l
<1>3. ASSUME Before(s, u), Before(t, u) PROVE Before(c, u)
  <2> SUFFICES ASSUME NEW j \in 1 .. Len(u), u[j].id # 0, NEW k \in 1 .. m + l
               PROVE  c[k].id < u[j].id
    BY <1>1 DEF Before
  <2>1. CASE k \in 1 .. m
    BY <1>1, <1>3, <2>1 DEF Before, m
  <2>2. CASE k - m \in 1 .. l
    <3>1. c[k] = t[k - m]
      BY <1>1, <2>2
    <3> QED BY <1>3, <2>2, <3>1 DEF Before, l
  <2> QED BY <1>1, <2>1, <2>2
<1> QED BY <1>2, <1>3 DEF c

LEMMA BeforeCatRight ==
    ASSUME NEW s \in Seq(Reports), NEW t \in Seq(Reports), NEW u \in Seq(Reports)
    PROVE  Before(u, Cat(s, t)) <=> Before(u, s) /\ Before(u, t)
<1> DEFINE c == Cat(s, t)
           m == Len(s)
           l == Len(t)
<1>1. /\ Len(c) = m + l /\ m \in Nat /\ l \in Nat
      /\ \A i \in 1 .. m : i \in 1 .. m + l /\ c[i] = s[i]
      /\ \A j \in 1 .. l : m + j \in 1 .. m + l /\ c[m + j] = t[j]
      /\ \A k \in 1 .. m + l : k \in 1 .. m \/ k - m \in 1 .. l
  BY CatElements, Elements
<1> HIDE DEF c, m, l
<1>2. ASSUME Before(u, c) PROVE Before(u, s) /\ Before(u, t)
  BY <1>1, <1>2 DEF Before, m, l
<1>3. ASSUME Before(u, s), Before(u, t) PROVE Before(u, c)
  <2> SUFFICES ASSUME NEW k \in 1 .. m + l, c[k].id # 0, NEW i \in 1 .. Len(u)
               PROVE  u[i].id < c[k].id
    BY <1>1 DEF Before
  <2>1. CASE k \in 1 .. m
    BY <1>1, <1>3, <2>1 DEF Before, m
  <2>2. CASE k - m \in 1 .. l
    <3>1. c[k] = t[k - m]
      BY <1>1, <2>2
    <3> QED BY <1>3, <2>2, <3>1 DEF Before, l
  <2> QED BY <1>1, <2>1, <2>2
<1> QED BY <1>2, <1>3 DEF c

\* A concatenation is fresh when its parts are, and the first is before the second.
LEMMA FreshCat ==
    ASSUME NEW s \in Seq(Reports), NEW t \in Seq(Reports), NEW last \in Nat, NEW n \in Nat
    PROVE  Fresh(Cat(s, t), last, n) <=> Fresh(s, last, n) /\ Fresh(t, last, n) /\ Before(s, t)
<1> DEFINE c == Cat(s, t)
           m == Len(s)
           l == Len(t)
<1>1. /\ Len(c) = m + l /\ m \in Nat /\ l \in Nat
      /\ \A i \in 1 .. m : i \in 1 .. m + l /\ c[i] = s[i]
      /\ \A j \in 1 .. l : m + j \in 1 .. m + l /\ c[m + j] = t[j]
      /\ \A k \in 1 .. m + l : k \in 1 .. m \/ k - m \in 1 .. l
  BY CatElements, Elements
<1>2. (\A i \in 1 .. m : s[i].id \in Nat) /\ (\A j \in 1 .. l : t[j].id \in Nat)
  BY Elements
<1> HIDE DEF c, m, l
<1>3. ASSUME Fresh(c, last, n) PROVE Fresh(s, last, n) /\ Fresh(t, last, n) /\ Before(s, t)
  <2>1. Fresh(s, last, n)
    <3>1. ASSUME NEW j \in 1 .. m PROVE s[j].id <= n
      BY <1>1, <1>3 DEF Fresh
    <3>2. ASSUME NEW j \in 1 .. m, s[j].id # 0
          PROVE  s[j].id > last /\ \A i \in 1 .. j - 1 : s[i].id < s[j].id
      <4>1. j \in 1 .. m + l /\ c[j] = s[j] /\ \A i \in 1 .. j - 1 : c[i] = s[i]
        BY <1>1
      <4> QED BY <1>1, <1>3, <3>2, <4>1 DEF Fresh, InOrder
    <3> QED BY <1>3, <3>1, <3>2 DEF Fresh, InOrder, m
  <2>2. Fresh(t, last, n)
    <3>1. ASSUME NEW j \in 1 .. l PROVE t[j].id <= n
      BY <1>1, <1>3 DEF Fresh
    <3>2. ASSUME NEW j \in 1 .. l, t[j].id # 0
          PROVE  t[j].id > last /\ \A i \in 1 .. j - 1 : t[i].id < t[j].id
      <4>1. m + j \in 1 .. m + l /\ c[m + j] = t[j]
        BY <1>1
      <4>2. ASSUME NEW i \in 1 .. j - 1
            PROVE  m + i \in 1 .. (m + j) - 1 /\ c[m + i] = t[i]
        BY <1>1
      <4> QED BY <1>1, <1>3, <3>2, <4>1, <4>2 DEF Fresh, InOrder
    <3> QED BY <1>3, <3>1, <3>2 DEF Fresh, InOrder, l
  <2>3. ASSUME NEW j \in 1 .. l, t[j].id # 0, NEW i \in 1 .. m PROVE s[i].id < t[j].id
    <3>1. m + j \in 1 .. m + l /\ c[m + j] = t[j] /\ i \in 1 .. (m + j) - 1 /\ c[i] = s[i]
      BY <1>1
    <3> QED BY <1>1, <1>3, <2>3, <3>1 DEF Fresh, InOrder
  <2> QED BY <2>1, <2>2, <2>3 DEF Before, m, l
<1>4. ASSUME Fresh(s, last, n), Fresh(t, last, n), Before(s, t) PROVE Fresh(c, last, n)
  <2>1. \A k \in 1 .. m + l : c[k].id <= n
    <3> SUFFICES ASSUME NEW k \in 1 .. m + l PROVE c[k].id <= n
      OBVIOUS
    <3>1. CASE k \in 1 .. m
      BY <1>1, <1>4, <3>1 DEF Fresh, m
    <3>2. CASE k - m \in 1 .. l
      <4>1. c[k] = t[k - m]
        BY <1>1, <3>2
      <4> QED BY <1>4, <3>2, <4>1 DEF Fresh, l
    <3> QED BY <1>1, <3>1, <3>2
  <2>2. ASSUME NEW k \in 1 .. m + l, c[k].id # 0
        PROVE  c[k].id > last /\ \A i \in 1 .. k - 1 : c[i].id < c[k].id
    <3>1. CASE k \in 1 .. m
      <4>1. c[k] = s[k] /\ \A i \in 1 .. k - 1 : c[i] = s[i]
        BY <1>1, <3>1
      <4> QED BY <1>4, <2>2, <3>1, <4>1 DEF Fresh, InOrder, m
    <3>2. CASE k - m \in 1 .. l
      <4> DEFINE j == k - m
      <4>1. c[k] = t[j] /\ j \in 1 .. l
        BY <1>1, <3>2
      <4>2. t[j].id > last /\ \A i \in 1 .. j - 1 : t[i].id < t[j].id
        BY <1>4, <2>2, <4>1 DEF Fresh, InOrder, l
      <4>3. \A i \in 1 .. m : s[i].id < t[j].id
        BY <1>4, <2>2, <4>1 DEF Before, m, l
      <4>4. ASSUME NEW i \in 1 .. k - 1 PROVE c[i].id < c[k].id
        <5>1. CASE i \in 1 .. m
          BY <1>1, <4>1, <4>3, <5>1
        <5>2. CASE i - m \in 1 .. l
          <6>1. c[i] = t[i - m] /\ i - m \in 1 .. j - 1
            BY <1>1, <5>2
          <6> QED BY <4>1, <4>2, <6>1
        <5>3. i \in 1 .. m + l
          BY <1>1
        <5> QED BY <1>1, <5>1, <5>2, <5>3
      <4> QED BY <4>1, <4>2, <4>4
    <3> QED BY <1>1, <3>1, <3>2
  <2> QED BY <1>1, <1>4, <2>1, <2>2 DEF Fresh, InOrder
<1> QED BY <1>3, <1>4 DEF c

LEMMA FreshEmpty ==
    ASSUME NEW last \in Nat, NEW n \in Nat, last <= n
    PROVE  Fresh(<<>>, last, n)
  BY DEF Fresh, InOrder

LEMMA FreshOne ==
    ASSUME NEW r \in Reports, NEW last \in Nat, NEW n \in Nat
    PROVE  Fresh(<<r>>, last, n) <=> last <= n /\ r.id <= n /\ (r.id # 0 => r.id > last)
<1>1. Len(<<r>>) = 1 /\ <<r>>[1] = r
  OBVIOUS
<1> DEFINE s == <<r>>
<1> HIDE DEF s
<1>2. (\A i \in 1 .. 1 : s[i].id <= n) <=> s[1].id <= n
  OBVIOUS
<1>3. (\A j \in 1 .. 1 : s[j].id # 0 => s[j].id > last /\ \A i \in 1 .. j - 1 : s[i].id < s[j].id)
      <=> (s[1].id # 0 => s[1].id > last)
  OBVIOUS
<1> QED BY <1>1, <1>2, <1>3 DEF s, Fresh, InOrder

LEMMA BeforeEmpty ==
    ASSUME NEW s PROVE Before(<<>>, s) /\ Before(s, <<>>)
  BY DEF Before

\* Nothing has to be before a report without motion, or the next sample.
LEMMA BeforeNext ==
    ASSUME NEW s \in Seq(Reports), NEW r \in Reports, NEW last, NEW n \in Nat,
           Fresh(s, last, n), r.id = 0 \/ r.id > n
    PROVE  Before(s, <<r>>)
<1>1. Len(<<r>>) = 1 /\ <<r>>[1] = r
  OBVIOUS
<1> DEFINE t == <<r>>
<1> HIDE DEF t
<1>2. \A j \in 1 .. Len(t) : t[j] = r
  BY <1>1 DEF t
<1>3. r.id \in Nat
  BY ReportType
<1> QED BY <1>2, <1>3, Elements DEF Before, Fresh, t

LEMMA FreshMore ==
    ASSUME NEW s \in Seq(Reports), NEW last \in Nat, NEW n \in Nat, NEW m \in Nat, n <= m,
           Fresh(s, last, n)
    PROVE  Fresh(s, last, m)
  BY Elements DEF Fresh

-----------------------------------------------------------------------------
(* The inductive invariant.                                                *)

\* The turns of the wheel, in steps, that are neither told to the host nor given up.
Steps(p, q, x, c, d, g) == p + q + x + c + d + g
Unsettled == Steps(wheel.pending, SumFunction(wheel.events), acc, thread.report.wheel,
                   WheelOf(half), WheelOf(InFifo(fifo)))

\* The thread at rest has no report; before it drains the accumulator its report has none
\* of it; and a half packet is only there while it builds the other half.
ThreadOK ==
    /\ thread.pc = "rest" => thread = AtRest
    /\ thread.pc = "drain" => thread.report.wheel = 0
    /\ thread.pc # "rest" /\ thread.kind # "second" => half = <<>>

\* No packet is empty.
Full == {p \in Packets : p.reports # <<>>}
Hosts == [last : 0 .. MaxSamples, btn : SUBSET Keys]
RadioOK == fifo \in Seq(Full) /\ Len(fifo) <= Capacity /\ host \in Hosts /\ due \in Int

\* The three parts of the way are in order, and up to the last sample.
Parts(f, h, t, last, n) ==
    /\ Fresh(f, last, n) /\ Fresh(h, last, n) /\ Before(f, h)
    /\ Fresh(t, last, n) /\ Before(f, t) /\ Before(h, t)
Ordered == Parts(InFifo(fifo), half, <<thread.report>>, host.last, count.samples)

IInv == TypeOK /\ ThreadOK /\ RadioOK /\ WheelConserved /\ Ordered

LEMMA TypeFacts ==
    ASSUME IInv
    PROVE  /\ fifo \in Seq(Packets) /\ InFifo(fifo) \in Seq(Reports) /\ half \in Seq(Reports)
           /\ thread.report \in Reports /\ <<thread.report>> \in Seq(Reports)
           /\ host \in Hosts /\ host.last \in Nat /\ host.last <= MaxSamples
           /\ count.samples \in Nat /\ count.inputs \in Nat /\ count.samples <= MaxSamples
           /\ count = [samples |-> count.samples, inputs |-> count.inputs]
           /\ wheel.rem \in Int /\ wheel.pending \in Int /\ wheel.events \in Seq({-1, 1})
           /\ wheel.events \in Seq(Int)
           /\ wheel = [rem |-> wheel.rem, pending |-> wheel.pending, events |-> wheel.events]
           /\ acc \in Int /\ due \in Int
<1>1. /\ fifo \in Seq(Packets) /\ half \in Seq(Reports)
      /\ thread.report \in Reports /\ <<thread.report>> \in Seq(Reports)
      /\ host \in Hosts /\ acc \in Int /\ due \in Int
  BY DEF IInv, TypeOK, Hosts
<1>2. /\ host.last \in Nat /\ host.last <= MaxSamples
      /\ count.samples \in Nat /\ count.inputs \in Nat /\ count.samples <= MaxSamples
      /\ count = [samples |-> count.samples, inputs |-> count.inputs]
  BY ConstantTypes DEF IInv, TypeOK
<1>3. /\ wheel.rem \in Int /\ wheel.pending \in Int /\ wheel.events \in Seq({-1, 1})
      /\ wheel = [rem |-> wheel.rem, pending |-> wheel.pending, events |-> wheel.events]
  BY ConstantTypes DEF IInv, TypeOK
<1>4. wheel.events \in Seq(Int)
  BY <1>3, SeqMonotonic
<1>5. InFifo(fifo) \in Seq(Reports)
  BY <1>1, FifoType
<1> QED BY <1>1, <1>2, <1>3, <1>4, <1>5

LEMMA SumTypes ==
    ASSUME IInv
    PROVE  /\ SumFunction(wheel.events) \in Int /\ thread.report.wheel \in Int
           /\ WheelOf(half) \in Int /\ WheelOf(InFifo(fifo)) \in Int /\ Unsettled \in Int
<1>1. SumFunction(wheel.events) \in Int
  BY TypeFacts, SumSeqType
<1>2. WheelOf(half) \in Int /\ WheelOf(InFifo(fifo)) \in Int
  BY TypeFacts, WheelOfType
<1>3. thread.report.wheel \in Int
  <2>1. thread.report \in Reports /\ \A r \in Reports : r.wheel \in Int
    BY TypeFacts, ReportType
  <2> QED BY <2>1
<1> DEFINE a == wheel.pending
           b == SumFunction(wheel.events)
           c == thread.report.wheel
           d == WheelOf(half)
           e == WheelOf(InFifo(fifo))
<1>4. a \in Int /\ b \in Int /\ c \in Int /\ d \in Int /\ e \in Int /\ acc \in Int
  BY <1>1, <1>2, <1>3, TypeFacts
<1> HIDE DEF a, b, c, d, e
<1>5. Steps(a, b, acc, c, d, e) \in Int
  BY <1>4 DEF Steps
<1>6. Unsettled \in Int
  BY <1>5 DEF Unsettled, a, b, c, d, e
<1> QED BY <1>4, <1>6 DEF b, c, d, e

\* n steps are settled, and the books of the wheel are still right.
LEMMA Balance ==
    ASSUME IInv, NEW n \in Int, Unsettled' = Unsettled - n, due' = due - Divider * n,
           wheel'.rem = wheel.rem
    PROVE  WheelConserved'
<1>1. due = wheel.rem + Divider * Unsettled
  BY DEF IInv, WheelConserved, Unsettled, Steps
<1> DEFINE u == Unsettled
           x == Divider * n
           y == Divider * u
<1>2. u \in Int /\ wheel.rem \in Int /\ x \in Int /\ y \in Int /\ due \in Int
  <2>1. Unsettled \in Int /\ wheel.rem \in Int /\ due \in Int /\ Divider \in Int
    BY SumTypes, TypeFacts, ConstantTypes
  <2> QED BY <2>1
<1>3. Divider * (u - n) = y - x
  BY <1>2, ConstantTypes
<1> HIDE DEF u, x, y
<1>4. due' = wheel.rem + (y - x)
  BY <1>1, <1>2 DEF u, x, y
<1>5. due' = wheel'.rem + Divider * Unsettled'
  BY <1>3, <1>4 DEF u
<1> QED BY <1>5 DEF WheelConserved, Unsettled, Steps

LEMMA Greatest ==
    ASSUME NEW T, T \subseteq 0 .. MaxSamples, T # {}
    PROVE  \E i \in T : \A j \in T : j <= i
<1> DEFINE U == {MaxSamples - i : i \in T}
<1>1. U \subseteq Nat /\ U # {}
  <2>1. \A i \in T : MaxSamples - i \in Nat
    BY ConstantTypes
  <2> QED BY <2>1
<1> HIDE DEF U
<1>2. PICK x \in U : \A y \in U : ~(y < x)
  BY <1>1, LeastNatural
<1>3. PICK i \in T : x = MaxSamples - i
  BY DEF U
<1>4. ASSUME NEW j \in T PROVE j <= i
  <2>1. MaxSamples - j \in U
    BY DEF U
  <2> QED BY <1>2, <1>3, <2>1, ConstantTypes
<1> QED BY <1>4

-----------------------------------------------------------------------------
(* The radio's part of a step.                                             *)

\* What follows a packet stays in order when the host has heard the packet.
LEMMA HostHears ==
    ASSUME IInv, NEW p \in Full
    PROVE  /\ HostAfter(p) \in Hosts
           /\ \A n \in Nat : \A t \in Seq(Reports) :
                 Fresh(p.reports, host.last, n) /\ Fresh(t, host.last, n) /\ Before(p.reports, t)
                 => Fresh(t, HostAfter(p).last, n)
<1> DEFINE rs == p.reports
           ids == {rs[i].id : i \in 1 .. Len(rs)}
           top == CHOOSE i \in ids : \A j \in ids : j <= i
           last == IF ids = {0} THEN host.last ELSE top
<1>1. rs \in Seq(Reports) /\ rs # <<>>
  BY DEF Full, Packets
<1>2. Len(rs) \in Nat \ {0}
  BY <1>1, EmptySeq
<1>3. Len(rs) \in 1 .. Len(rs)
  BY <1>2
<1>4. rs[Len(rs)].btn \in SUBSET Keys
  BY <1>1, <1>3, Elements DEF Reports
<1>5. ids \subseteq 0 .. MaxSamples /\ ids # {}
  <2>1. \A i \in 1 .. Len(rs) : rs[i].id \in 0 .. MaxSamples
    BY <1>1, Elements DEF Reports
  <2> QED BY <1>3, <2>1
<1>6. HostAfter(p) = [last |-> last, btn |-> rs[Len(rs)].btn]
  BY DEF HostAfter
<1>7. top \in ids /\ \A j \in ids : j <= top
  BY <1>5, Greatest
<1>8. host.last \in 0 .. MaxSamples
  BY DEF IInv, TypeOK
<1>9. last \in 0 .. MaxSamples
  BY <1>5, <1>7, <1>8
<1>10. (ids = {0} => last = host.last) /\ (ids # {0} => last = top)
  OBVIOUS
<1>11. \A i \in ids : \E j \in 1 .. Len(rs) : i = rs[j].id
  OBVIOUS
<1> HIDE DEF last, top, ids
<1>12. HostAfter(p) \in Hosts
  BY <1>4, <1>6, <1>9 DEF Hosts
<1>13. ASSUME NEW n \in Nat, NEW t \in Seq(Reports), Fresh(rs, host.last, n),
              Fresh(t, host.last, n), Before(rs, t)
       PROVE  Fresh(t, last, n)
  <2>1. CASE ids = {0}
    BY <1>10, <1>13, <2>1
  <2>2. CASE ids # {0}
    <3>1. PICK i \in 1 .. Len(rs) : top = rs[i].id
      BY <1>7, <1>11
    <3>2. top <= n
      BY <1>13, <3>1 DEF Fresh
    <3>3. \A j \in 1 .. Len(t) : t[j].id # 0 => top < t[j].id
      BY <1>13, <3>1 DEF Before
    <3>4. top \in Nat
      BY <1>1, <3>1, Elements
    <3>5. Fresh(t, top, n)
      BY <1>13, <3>2, <3>3, <3>4, Elements DEF Fresh, InOrder
    <3> QED BY <1>10, <2>2, <3>5
  <2> QED BY <2>1, <2>2
<1> QED BY <1>6, <1>12, <1>13

\* When the first of two parts is lost or heard, the second stays in order.
Rest(f, n) ==
    \A t \in Seq(Reports) :
        Fresh(f, host.last, n) /\ Fresh(t, host.last, n) /\ Before(f, t)
        => Fresh(t, host'.last, n)

LEMMA RestLost ==
    ASSUME NEW f, NEW n, host' = host
    PROVE  Rest(f, n)
  BY DEF Rest

LEMMA FlushedStep ==
    ASSUME IInv, fifo # <<>>, Flushed
    PROVE  /\ host' \in Hosts /\ due' = due - Divider * WheelOf(InFifo(fifo))
           /\ \A n \in Nat : Rest(InFifo(fifo), n)
<1>1. /\ host' \in {host, HostAfter(Head(fifo))}
      /\ due' = due - Divider * WheelOf(InFifo(fifo))
  BY DEF Flushed, SettledReports, Settled
<1>2. Head(fifo) \in Full /\ Tail(fifo) \in Seq(Full)
  BY HeadTailProperties DEF IInv, RadioOK
<1>3. host \in Hosts /\ host.last \in Nat
  BY TypeFacts
<1> DEFINE p == Head(fifo)
           u == InFifo(Tail(fifo))
<1>4. p.reports \in Seq(Reports) /\ u \in Seq(Reports)
  <2>1. Tail(fifo) \in Seq(Packets)
    BY <1>2, SeqMonotonic DEF Full
  <2> QED BY <1>2, <2>1, FifoType DEF Full, Packets
<1>5. InFifo(fifo) = Cat(p.reports, u)
  BY TypeFacts, FifoHead
<1> HIDE DEF p, u
<1>6. ASSUME NEW n \in Nat PROVE Rest(InFifo(fifo), n)
  <2>1. CASE host' = host
    BY <2>1, RestLost
  <2>2. CASE host' = HostAfter(p)
    <3> SUFFICES ASSUME NEW t \in Seq(Reports), Fresh(Cat(p.reports, u), host.last, n),
                        Fresh(t, host.last, n), Before(Cat(p.reports, u), t)
                 PROVE  Fresh(t, host'.last, n)
      BY <1>5 DEF Rest
    <3>1. Fresh(p.reports, host.last, n) /\ Before(p.reports, t)
      BY <1>3, <1>4, FreshCat, BeforeCatLeft
    <3> QED BY <1>2, <2>2, <3>1, HostHears DEF p
  <2> QED BY <1>1, <2>1, <2>2 DEF p
<1> QED BY <1>1, <1>2, <1>3, <1>6, HostHears

\* What writing the reports rs does to the FIFO, the host and the books.
Carried(rs) ==
    /\ RadioOK'
    /\ \E n \in Int : /\ due' = due - Divider * n
                      /\ WheelOf(InFifo(fifo))' = WheelOf(InFifo(fifo)) + WheelOf(rs) - n
    /\ \A n \in Nat :
          Fresh(InFifo(fifo), host.last, n) /\ Fresh(rs, host.last, n) /\ Before(InFifo(fifo), rs)
          => /\ Fresh(InFifo(fifo)', host'.last, n)
             /\ \A t \in Seq(Reports) :
                   Fresh(t, host.last, n) /\ Before(InFifo(fifo), t) /\ Before(rs, t)
                   => Fresh(t, host'.last, n) /\ Before(InFifo(fifo)', t)

LEMMA WrittenStep ==
    ASSUME IInv, NEW p \in Full, Written(p)
    PROVE  Carried(p.reports)
<1> DEFINE f == InFifo(fifo)
           g == InFifo(fifo')
           rs == p.reports
<1>1. /\ f \in Seq(Reports) /\ rs \in Seq(Reports) /\ p \in Packets /\ host \in Hosts
      /\ host.last \in Nat /\ due \in Int /\ fifo \in Seq(Packets)
  BY TypeFacts DEF Full, Packets
<1>2. WheelOf(f) \in Int /\ WheelOf(rs) \in Int
  BY <1>1, WheelOfType
<1>3. CASE Len(fifo) < Capacity /\ fifo' = Append(fifo, p) /\ UNCHANGED <<host, due>>
  <2>1. fifo' \in Seq(Full) /\ Len(fifo') <= Capacity
    BY <1>1, <1>3, AppendProperties, LenProperties, ConstantTypes DEF IInv, RadioOK
  <2>2. g = Cat(f, rs)
    BY <1>1, <1>3, FifoAppend
  <2> HIDE DEF f, g, rs
  <2>3. RadioOK'
    BY <1>1, <1>3, <2>1 DEF RadioOK
  <2>4. WheelOf(g) = WheelOf(f) + WheelOf(rs) - 0 /\ due' = due - Divider * 0
    BY <1>1, <1>2, <1>3, <2>2, WheelOfCat, ConstantTypes
  <2>5. ASSUME NEW n \in Nat, Fresh(f, host.last, n), Fresh(rs, host.last, n), Before(f, rs)
        PROVE  /\ Fresh(g, host'.last, n)
               /\ \A t \in Seq(Reports) :
                     Fresh(t, host.last, n) /\ Before(f, t) /\ Before(rs, t)
                     => Fresh(t, host'.last, n) /\ Before(g, t)
    <3>1. Fresh(g, host.last, n)
      BY <1>1, <2>2, <2>5, FreshCat
    <3>2. \A t \in Seq(Reports) : Before(f, t) /\ Before(rs, t) => Before(g, t)
      BY <1>1, <2>2, BeforeCatLeft
    <3> QED BY <1>3, <3>1, <3>2
  <2> QED BY <2>3, <2>4, <2>5 DEF Carried, f, g, rs
<1>4. CASE Len(fifo) = Capacity /\ Flushed /\ fifo' = <<p>>
  <2>1. fifo # <<>>
    BY <1>4, ConstantTypes
  <2>2. fifo' \in Seq(Full) /\ Len(fifo') <= Capacity
    BY <1>4, ConstantTypes
  <2>3. g = rs
    BY <1>1, <1>4, FifoOne
  <2>4. /\ host' \in Hosts /\ due' = due - Divider * WheelOf(f)
        /\ \A n \in Nat : Rest(f, n)
    BY <1>4, <2>1, FlushedStep
  <2> HIDE DEF f, g, rs
  <2>5. RadioOK'
    BY <1>1, <1>2, <2>2, <2>4, ConstantTypes DEF RadioOK
  <2>6. WheelOf(g) = WheelOf(f) + WheelOf(rs) - WheelOf(f)
    BY <1>2, <2>3
  <2>7. ASSUME NEW n \in Nat, Fresh(f, host.last, n), Fresh(rs, host.last, n), Before(f, rs)
        PROVE  /\ Fresh(g, host'.last, n)
               /\ \A t \in Seq(Reports) :
                     Fresh(t, host.last, n) /\ Before(f, t) /\ Before(rs, t)
                     => Fresh(t, host'.last, n) /\ Before(g, t)
    BY <1>1, <2>3, <2>4, <2>7 DEF Rest
  <2> QED BY <1>2, <2>4, <2>5, <2>6, <2>7 DEF Carried, f, g, rs
<1> QED BY <1>3, <1>4 DEF Written

-----------------------------------------------------------------------------
(* The types in parts, and what most steps share.                          *)

FlagsOK ==
    /\ rate \in Rates /\ active \in BOOLEAN
    /\ btn \subseteq Keys /\ qdec \subseteq {"on", "work", "half"}
ThreadTypes ==
    /\ thread \in [pc : {"rest", "drain", "write"},
                   kind : {"single", "first", "second"}, report : Reports]
    /\ half \in Seq(Reports) /\ Len(half) <= 1
    /\ thread.kind = "second" => Len(half) = 1
WheelTypes == wheel \in [rem : 1 - Divider .. Divider - 1, pending : Int, events : Seq({-1, 1})]
SentOK == sent \in Nat /\ \E hz \in Rates \cup {PairRate} : sent < Interval(hz)
CountsOK ==
    /\ SentOK /\ faults \in 0 .. MaxFaults
    /\ count \in [samples : 0 .. MaxSamples, inputs : 0 .. MaxInputs]

LEMMA TypeParts ==
    ASSUME IInv
    PROVE  FlagsOK /\ ThreadTypes /\ WheelTypes /\ CountsOK /\ acc \in Int
  BY DEF IInv, TypeOK, FlagsOK, ThreadTypes, WheelTypes, CountsOK, SentOK

LEMMA Together ==
    ASSUME FlagsOK', ThreadTypes', WheelTypes', CountsOK', (acc \in Int)',
           RadioOK', ThreadOK', WheelConserved', Ordered'
    PROVE  IInv'
<1>1. /\ (fifo \in Seq(Packets))' /\ (Len(fifo) <= Capacity)' /\ (due \in Int)'
      /\ (host \in [last : 0 .. MaxSamples, btn : SUBSET Keys])'
  <2>1. fifo' \in Seq(Full) /\ Full \subseteq Packets
    BY DEF RadioOK, Full
  <2> QED BY <2>1, SeqMonotonic DEF RadioOK, Hosts
<1>2. TypeOK'
  BY <1>1 DEF TypeOK, FlagsOK, ThreadTypes, WheelTypes, CountsOK, SentOK
<1> QED BY <1>2 DEF IInv

LEMMA SameOrder ==
    ASSUME IInv, UNCHANGED <<fifo, half, thread, host>>, count'.samples = count.samples
    PROVE  Ordered'
  BY DEF IInv, Ordered

LEMMA InputStep ==
    ASSUME IInv, Input
    PROVE  /\ count'.samples = count.samples
           /\ count' \in [samples : 0 .. MaxSamples, inputs : 0 .. MaxInputs]
<1>1. /\ count \in [samples : 0 .. MaxSamples, inputs : 0 .. MaxInputs]
      /\ count.inputs < MaxInputs /\ count' = [count EXCEPT !.inputs = count.inputs + 1]
  BY DEF IInv, TypeOK, Input
<1> QED BY <1>1, ConstantTypes

LEMMA FaultStep == ASSUME IInv, Fault PROVE faults' \in 0 .. MaxFaults
  BY ConstantTypes DEF IInv, TypeOK, Fault

LEMMA IntervalType ==
    ASSUME NEW hz \in Rates \cup {PairRate}
    PROVE  Interval(hz) \in Nat \ {0}
<1>1. hz \in Nat /\ AckTime \in Nat /\ Second \in Nat \ {0}
  BY SizesAssumption DEF PairRate
<1>2. hz * AckTime \in Nat
  BY <1>1
<1> DEFINE n == hz * AckTime
<1> HIDE DEF n
<1>3. n \in Nat => n \div Second \in Nat
  BY <1>1
<1>4. (hz * AckTime) \div Second \in Nat
  BY <1>2, <1>3 DEF n
<1> QED BY <1>4 DEF Interval

LEMMA CountedStep == ASSUME IInv, NEW kind, Counted(kind) PROVE SentOK'
<1>1. sent \in Nat /\ RateOf(kind) \in Rates \cup {PairRate}
  BY DEF IInv, TypeOK, RateOf
<1> DEFINE i == Interval(RateOf(kind))
<1>2. i \in Nat \ {0}
  BY <1>1, IntervalType
<1>3. sent' = IF sent + 1 >= i THEN 0 ELSE sent + 1
  BY DEF Counted, AckDue
<1>4. sent' \in Nat /\ sent' < i
  <2> HIDE DEF i
  <2> QED BY <1>1, <1>2, <1>3
<1> QED BY <1>1, <1>4 DEF SentOK

LEMMA DrainedType ==
    ASSUME NEW n \in Int
    PROVE  Drained(n) \in -WheelLimit .. WheelLimit /\ Drained(n) \in Int
  BY ConstantTypes DEF Drained

LEMMA BeforeZero ==
    ASSUME NEW r \in Reports, r.id = 0, NEW t \in Seq(Reports)
    PROVE  Before(<<r>>, t)
<1>1. Len(<<r>>) = 1 /\ <<r>>[1] = r
  OBVIOUS
<1> DEFINE s == <<r>>
<1> HIDE DEF s
<1>2. \A j \in 1 .. Len(s) : s[j] = r
  BY <1>1 DEF s
<1> QED BY <1>2, Elements DEF Before, s

LEMMA PacketType ==
    ASSUME NEW rs \in Seq(Reports), rs # <<>>, NEW b \in BOOLEAN
    PROVE  LET p == [reports |-> rs, ack |-> b] IN p \in Full /\ p.reports = rs
<1>1. [reports |-> rs, ack |-> b] \in Packets
  BY Zenon DEF Packets
<1> QED BY <1>1 DEF Full

LEMMA AckDueType == ASSUME NEW kind PROVE AckDue(kind) \in BOOLEAN
  BY DEF AckDue

LEMMA SendNowStep ==
    ASSUME IInv, NEW b \in SUBSET Keys, NEW n \in Int, SendNow(b, n),
           UNCHANGED <<half, thread>>, count'.samples = count.samples
    PROVE  /\ RadioOK' /\ acc' \in Int /\ SentOK'
           /\ faults' \in 0 .. MaxFaults /\ Ordered'
           /\ \E k \in Int : /\ due' = due - Divider * k
                             /\ acc' + WheelOf(InFifo(fifo))' = n + WheelOf(InFifo(fifo)) - k
<1> DEFINE d == Drained(n)
           z == Report(0, b, d)
           f == InFifo(fifo)
           g == InFifo(fifo')
<1>1. SentOK'
  BY CountedStep DEF SendNow
<1>2. /\ f \in Seq(Reports) /\ host.last \in Nat /\ count.samples \in Nat
      /\ host.last <= count.samples /\ due \in Int /\ half \in Seq(Reports)
  BY TypeFacts DEF IInv, Ordered, Parts, Fresh
<1>3. d \in Int /\ z \in Reports /\ z.id = 0 /\ z.wheel = d
  BY DrainedType, ConstantTypes DEF Report, Reports
<1>4. WheelOf(f) \in Int
  BY <1>2, WheelOfType
<1>5. CASE /\ Written([reports |-> <<z>>, ack |-> AckDue("single")])
           /\ acc' = n - d /\ UNCHANGED faults
  <2> DEFINE p == [reports |-> <<z>>, ack |-> AckDue("single")]
  <2> HIDE DEF z
  <2>1. p \in Full /\ p.reports = <<z>>
    <3>1. <<z>> \in Seq(Reports) /\ <<z>> # <<>>
      BY <1>3
    <3> QED BY <3>1, AckDueType, PacketType
  <2> HIDE DEF p
  <2>2. Carried(<<z>>)
    BY <1>5, <2>1, WrittenStep DEF p
  <2>3. PICK k \in Int : due' = due - Divider * k /\ WheelOf(g) = WheelOf(f) + WheelOf(<<z>>) - k
    BY <2>2 DEF Carried
  <2>4. acc' \in Int /\ faults' \in 0 .. MaxFaults /\ RadioOK'
    <3>1. n - d \in Int
      BY <1>3
    <3>2. faults \in 0 .. MaxFaults
      BY DEF IInv, TypeOK
    <3> HIDE DEF d, f, g
    <3> QED BY <1>5, <2>2, <3>1, <3>2 DEF Carried
  <2>5. acc' + WheelOf(g) = n + WheelOf(f) - k
    <3>1. WheelOf(<<z>>) = d
      BY <1>3, WheelOfOne
    <3> HIDE DEF d, f, g
    <3> QED BY <1>3, <1>4, <1>5, <2>3, <3>1
  <2>6. Ordered'
    <3> DEFINE m == count.samples
               t == <<thread.report>>
               l == host.last
    <3>1. t \in Seq(Reports) /\ Parts(f, half, t, l, m)
      BY TypeFacts DEF IInv, Ordered
    <3> HIDE DEF f, g, t, l, m
    <3>2. Fresh(<<z>>, l, m) /\ Before(f, <<z>>) /\ Before(<<z>>, half) /\ Before(<<z>>, t)
      <4>1. Fresh(<<z>>, l, m)
        BY <1>2, <1>3, FreshOne DEF l, m
      <4>2. Before(f, <<z>>)
        BY <1>2, <1>3, <3>1, BeforeNext DEF Parts, l, m
      <4> QED BY <1>2, <1>3, <3>1, <4>1, <4>2, BeforeZero
    <3>3. /\ Fresh(g, host'.last, m)
          /\ Fresh(half, host'.last, m) /\ Before(g, half)
          /\ Fresh(t, host'.last, m) /\ Before(g, t)
      BY <1>2, <2>2, <3>1, <3>2 DEF Carried, Parts, f, g, l, m
    <3>4. Parts(g, half, t, host'.last, m)
      BY <3>1, <3>3 DEF Parts
    <3> QED BY <3>4 DEF Ordered, g, t, m
  <2> HIDE DEF f, g
  <2>7. \E x \in Int : due' = due - Divider * x /\ acc' + WheelOf(g) = n + WheelOf(f) - x
    BY <2>3, <2>5
  <2> QED BY <1>1, <2>4, <2>6, <2>7 DEF f, g
<1>6. CASE Fault /\ acc' = n /\ UNCHANGED <<fifo, host, due>>
  <2>1. faults' \in 0 .. MaxFaults /\ RadioOK' /\ acc' \in Int
    BY <1>6, FaultStep DEF IInv, RadioOK
  <2>2. Ordered'
    BY <1>6, SameOrder
  <2>3. due' = due - Divider * 0 /\ acc' + WheelOf(g) = n + WheelOf(f) - 0
    BY <1>2, <1>4, <1>6, ConstantTypes
  <2> HIDE DEF f, g
  <2>4. \E x \in Int : due' = due - Divider * x /\ acc' + WheelOf(g) = n + WheelOf(f) - x
    BY <2>3
  <2> QED BY <1>1, <2>1, <2>2, <2>4 DEF f, g
<1> QED BY <1>5, <1>6 DEF SendNow, Restored

-----------------------------------------------------------------------------
(* The steps of the work queue and of the wheel.                           *)

LEMMA SumOfTail ==
    ASSUME NEW s \in Seq(Int), s # <<>>
    PROVE  SumFunction(s) = Head(s) + SumFunction(Tail(s))
<1> DEFINE h == Head(s)
           e == <<h>>
           t == Tail(s)
<1>1. h \in Int /\ t \in Seq(Int) /\ e \in Seq(Int) /\ s = e \o t
  BY HeadTailProperties
<1>2. e = Append(<<>>, h) /\ <<>> \in Seq(Int)
  OBVIOUS
<1> HIDE DEF h, e, t
<1>3. SumFunction(e) = h
  <2>1. SumFunction(e) = SumFunction(<<>>) + h
    BY <1>1, <1>2, SumAppend
  <2> QED BY <1>1, <2>1, SumEmptySeq
<1>4. SumFunction(s) = h + SumFunction(t)
  BY <1>1, <1>3, SumConcat
<1> QED BY <1>4 DEF h, t

LEMMA ButtonStep == ASSUME IInv, Button PROVE IInv'
<1>1. PICK b \in SUBSET Keys : btn' = b /\ SendNow(b, acc)
  <2>1. PICK k \in Keys : LET c == IF k \in btn THEN btn \ {k} ELSE btn \cup {k}
                          IN  btn' = c /\ SendNow(c, acc)
    BY DEF Button
  <2> QED BY <2>1, TypeParts DEF FlagsOK
<1>2. Input /\ UNCHANGED <<rate, active, thread, half, wheel, qdec>>
  BY DEF Button
<1>3. count'.samples = count.samples
  BY <1>2, InputStep
<1>4. /\ RadioOK' /\ acc' \in Int /\ SentOK'
      /\ faults' \in 0 .. MaxFaults /\ Ordered'
      /\ \E k \in Int : /\ due' = due - Divider * k
                        /\ acc' + WheelOf(InFifo(fifo))' = acc + WheelOf(InFifo(fifo)) - k
  BY <1>1, <1>2, <1>3, TypeFacts, SendNowStep
<1>5. PICK k \in Int : /\ due' = due - Divider * k
                       /\ acc' + WheelOf(InFifo(fifo))' = acc + WheelOf(InFifo(fifo)) - k
  BY <1>4
<1>6. WheelConserved'
  <2> DEFINE p == wheel.pending
             q == SumFunction(wheel.events)
             c == thread.report.wheel
             d == WheelOf(half)
             e == WheelOf(InFifo(fifo))
             g == WheelOf(InFifo(fifo'))
             x == acc
             y == acc'
  <2>1. p \in Int /\ q \in Int /\ c \in Int /\ d \in Int /\ e \in Int /\ x \in Int
    BY SumTypes, TypeFacts
  <2>2. g \in Int /\ y \in Int
    <3>1. (fifo \in Seq(Packets))'
      BY <1>4, SeqMonotonic DEF RadioOK, Full
    <3> QED BY <1>4, <3>1, FifoType, WheelOfType
  <2>3. y + g = x + e - k
    BY <1>5
  <2> HIDE DEF p, q, c, d, e, g, x, y
  <2>4. Steps(p, q, y, c, d, g) = Steps(p, q, x, c, d, e) - k
    BY <2>1, <2>2, <2>3 DEF Steps
  <2>5. Unsettled' = Steps(p, q, y, c, d, g)
    BY <1>2 DEF Unsettled, p, q, c, d, g, y
  <2>6. Unsettled = Steps(p, q, x, c, d, e)
    BY DEF Unsettled, p, q, c, d, e, x
  <2>7. Unsettled' = Unsettled - k
    BY <2>4, <2>5, <2>6
  <2> QED BY <1>2, <1>5, <2>7, Balance
<1>7. FlagsOK' /\ ThreadTypes' /\ WheelTypes' /\ CountsOK' /\ ThreadOK'
  <2>1. FlagsOK'
    BY <1>1, <1>2, TypeParts DEF FlagsOK
  <2>2. ThreadTypes' /\ WheelTypes' /\ ThreadOK'
    BY <1>2, TypeParts DEF ThreadTypes, WheelTypes, ThreadOK, IInv
  <2>3. CountsOK'
    BY <1>2, <1>4, InputStep DEF CountsOK, SentOK
  <2> QED BY <2>1, <2>2, <2>3
<1> QED BY <1>4, <1>6, <1>7, Together

LEMMA WheelEventStep == ASSUME IInv, WheelEvent PROVE IInv'
<1> DEFINE h == Head(wheel.events)
           n == acc + h
<1>1. /\ wheel.events # <<>> /\ SendNow(btn, n)
      /\ wheel' = [wheel EXCEPT !.events = Tail(wheel.events)]
      /\ UNCHANGED <<rate, active, thread, half, btn, qdec, count>>
  BY DEF WheelEvent
<1>2. h \in Int /\ Tail(wheel.events) \in Seq({-1, 1}) /\ n \in Int
  BY <1>1, HeadTailProperties, TypeFacts
<1>3. wheel' = [rem |-> wheel.rem, pending |-> wheel.pending, events |-> Tail(wheel.events)]
  BY <1>1, TypeFacts
<1>4. /\ RadioOK' /\ acc' \in Int /\ SentOK'
      /\ faults' \in 0 .. MaxFaults /\ Ordered'
      /\ \E k \in Int : /\ due' = due - Divider * k
                        /\ acc' + WheelOf(InFifo(fifo))' = n + WheelOf(InFifo(fifo)) - k
  <2>1. btn \in SUBSET Keys
    BY TypeParts DEF FlagsOK
  <2> HIDE DEF n
  <2> QED BY <1>1, <1>2, <2>1, SendNowStep
<1>5. PICK k \in Int : /\ due' = due - Divider * k
                       /\ acc' + WheelOf(InFifo(fifo))' = n + WheelOf(InFifo(fifo)) - k
  BY <1>4
<1>6. WheelConserved'
  <2> DEFINE a == wheel.pending
             b == SumFunction(wheel.events)
             bb == SumFunction(Tail(wheel.events))
             c == thread.report.wheel
             d == WheelOf(half)
             e == WheelOf(InFifo(fifo))
             g == WheelOf(InFifo(fifo'))
             x == acc
             y == acc'
  <2>1. a \in Int /\ b \in Int /\ c \in Int /\ d \in Int /\ e \in Int /\ x \in Int
    BY SumTypes, TypeFacts
  <2>2. g \in Int /\ y \in Int /\ y + g = x + h + e - k
    <3>1. (fifo \in Seq(Packets))'
      BY <1>4, SeqMonotonic DEF RadioOK, Full
    <3> QED BY <1>4, <1>5, <3>1, FifoType, WheelOfType
  <2>3. b = h + bb /\ bb \in Int
    <3>1. Tail(wheel.events) \in Seq(Int)
      BY <1>1, HeadTailProperties, TypeFacts
    <3> QED BY <1>1, <3>1, SumOfTail, SumSeqType, TypeFacts
  <2> HIDE DEF a, b, bb, c, d, e, g, h, x, y
  <2>4. Steps(a, bb, y, c, d, g) = Steps(a, b, x, c, d, e) - k
    BY <1>2, <2>1, <2>2, <2>3 DEF Steps
  <2>5. wheel'.pending = a /\ wheel'.events = Tail(wheel.events) /\ wheel'.rem = wheel.rem
    BY <1>3 DEF a
  <2>6. Unsettled' = Steps(a, bb, y, c, d, g)
    BY <1>1, <2>5 DEF Unsettled, bb, c, d, g, y
  <2>7. Unsettled = Steps(a, b, x, c, d, e)
    BY DEF Unsettled, a, b, c, d, e, x
  <2>8. Unsettled' = Unsettled - k
    BY <2>4, <2>6, <2>7
  <2> QED BY <1>5, <2>5, <2>8, Balance
<1>7. FlagsOK' /\ ThreadTypes' /\ CountsOK' /\ ThreadOK'
  BY <1>1, <1>4, TypeParts DEF FlagsOK, ThreadTypes, CountsOK, SentOK, ThreadOK, IInv
<1>8. WheelTypes'
  BY <1>2, <1>3, TypeParts DEF WheelTypes
<1> QED BY <1>4, <1>6, <1>7, <1>8, Together

\* A step that changes nothing of the sums.
LEMMA SameSums ==
    ASSUME IInv, UNCHANGED <<fifo, half, thread, acc, wheel, due>>
    PROVE  WheelConserved'
<1>1. wheel'.rem = wheel.rem /\ Unsettled' = Unsettled - 0 /\ due' = due - Divider * 0
  <2>1. Unsettled \in Int /\ Unsettled' = Unsettled /\ due \in Int
    BY SumTypes, TypeFacts DEF Unsettled
  <2> QED BY <2>1, ConstantTypes
<1> QED BY <1>1, Balance

LEMMA QuotientType ==
    ASSUME NEW n \in Int
    PROVE  Quotient(n) \in Int /\ n - Quotient(n) * Divider \in 1 - Divider .. Divider - 1
<1> DEFINE D == Divider
<1>1. D \in Nat \ {0}
  BY ConstantTypes
<1> HIDE DEF D
<1>2. ASSUME NEW m \in Nat PROVE m \div D \in Int /\ m - (m \div D) * D \in 0 .. D - 1
  BY <1>1
<1>3. CASE n >= 0
  BY <1>1, <1>2, <1>3 DEF Quotient, D
<1>4. CASE ~(n >= 0)
  <2> DEFINE m == -n
             q == m \div D
  <2>1. m \in Nat /\ n = -m
    BY <1>4
  <2>2. q \in Int /\ m - q * D \in 0 .. D - 1
    BY <1>2, <2>1
  <2>3. Quotient(n) = -q
    BY <1>4 DEF Quotient, D
  <2> HIDE DEF m, q
  <2>4. (-q) * D = -(q * D)
    BY <1>1, <2>2
  <2>5. n - (-q) * D = -(m - q * D)
    BY <1>1, <2>1, <2>2, <2>4
  <2> DEFINE x == m - q * D
  <2>6. x \in 0 .. D - 1
    BY <2>2
  <2> HIDE DEF x
  <2>7. -x \in 1 - D .. D - 1
    BY <1>1, <2>6
  <2> QED BY <2>2, <2>3, <2>5, <2>7 DEF x, D
<1> QED BY <1>3, <1>4

\* The steps of the decoder are in the books: what is due, the remainder, and the steps
\* that are given up or pending.
LEMMA DataReadyStep == ASSUME IInv, NEW d \in Turns, DataReady(d) PROVE IInv'
<1> DEFINE steps == Quotient(wheel.rem + d)
           given == IF wheel.pending * steps < 0 THEN wheel.pending ELSE 0
           rem == wheel.rem + d - steps * Divider
           pending == wheel.pending - given + steps
<1>1. /\ Input /\ due' = due + d - Divider * given
      /\ wheel' = [wheel EXCEPT !.rem = rem, !.pending = pending]
      /\ qdec' \in {qdec, qdec \cup {"work"}}
      /\ UNCHANGED <<rate, active, thread, half, btn, acc, sent, fifo, host, faults>>
  BY DEF DataReady
<1>2. d \in Int /\ wheel.rem \in Int /\ wheel.pending \in Int
  BY TypeFacts, ConstantTypes
<1>3. steps \in Int /\ rem \in 1 - Divider .. Divider - 1
  <2> DEFINE n == wheel.rem + d
  <2>1. n \in Int
    BY <1>2
  <2> HIDE DEF n
  <2>2. Quotient(n) \in Int /\ n - Quotient(n) * Divider \in 1 - Divider .. Divider - 1
    BY <2>1, QuotientType
  <2>3. steps = Quotient(n)
    BY DEF n
  <2> HIDE DEF given, pending
  <2>4. rem = n - steps * Divider
    <3> DEFINE q == steps * Divider
               r == wheel.rem
    <3>1. q \in Int /\ r \in Int
      BY <1>2, <2>2, <2>3, ConstantTypes
    <3> HIDE DEF q, r, steps
    <3>2. r + (d - q) = (r + d) - q
      BY <1>2, <3>1
    <3> QED BY <3>2 DEF q, r, n
  <2> HIDE DEF steps, rem
  <2> QED BY <2>2, <2>3, <2>4
<1>4. given \in Int /\ pending \in Int
  BY <1>2, <1>3
<1>5. wheel' = [rem |-> rem, pending |-> pending, events |-> wheel.events]
  BY <1>1, TypeFacts
<1> HIDE DEF given
<1>6. WheelConserved'
  <2> DEFINE a == wheel.pending
             b == SumFunction(wheel.events)
             c == thread.report.wheel
             h == WheelOf(half)
             e == WheelOf(InFifo(fifo))
             x == acc
             r == wheel.rem
             s == steps
             v == given
             D == Divider
             U == Steps(a, b, x, c, h, e)
             UU == Steps(a - v + s, b, x, c, h, e)
  <2>1. a \in Int /\ b \in Int /\ c \in Int /\ h \in Int /\ e \in Int /\ x \in Int
        /\ r \in Int /\ s \in Int /\ v \in Int /\ D \in Int
    BY <1>3, <1>4, SumTypes, TypeFacts, ConstantTypes
  <2>2. due = r + D * U
    BY DEF IInv, WheelConserved, Steps
  <2>3. due' = due + d - D * v /\ wheel'.rem = r + d - s * D
    BY <1>1, <1>5
  <2>4. Unsettled' = UU
    BY <1>1, <1>5 DEF Unsettled
  <2> HIDE DEF a, b, c, h, e, x, r, s, v, D
  <2>5. U \in Int /\ UU = U - v + s
    BY <2>1 DEF Steps
  <2> HIDE DEF U, UU
  <2>6. D * UU = D * U - D * v + s * D
    BY <2>1, <2>5
  <2> DEFINE p == D * U
             q == D * v
             w == s * D
             z == D * UU
             y == due
             yy == due'
             rr == wheel'.rem
  <2>7. p \in Int /\ q \in Int /\ w \in Int /\ z = p - q + w
    BY <2>1, <2>5, <2>6
  <2>8. y = r + p /\ yy = y + d - q /\ rr = r + d - w
    BY <2>2, <2>3
  <2> HIDE DEF p, q, w, z, y, yy, rr
  <2>9. yy = rr + z
    BY <1>2, <2>1, <2>7, <2>8
  <2> QED BY <2>4, <2>9 DEF yy, rr, z, D, WheelConserved, Unsettled, Steps
<1> HIDE DEF rem, pending
<1>7. FlagsOK' /\ ThreadTypes' /\ ThreadOK' /\ RadioOK' /\ (acc \in Int)' /\ WheelTypes'
  <2>1. FlagsOK'
    BY <1>1, TypeParts DEF FlagsOK
  <2>2. ThreadTypes' /\ ThreadOK' /\ (acc \in Int)'
    BY <1>1, TypeParts DEF ThreadTypes, ThreadOK, IInv
  <2>3. due' \in Int
    <3> DEFINE y == due
               z == due'
               v == Divider * given
    <3>1. y \in Int /\ v \in Int /\ z = y + d - v
      BY <1>1, <1>4, TypeFacts, ConstantTypes
    <3> HIDE DEF y, z, v
    <3>2. z \in Int
      BY <1>2, <3>1
    <3> QED BY <3>2 DEF z
  <2>4. RadioOK'
    BY <1>1, <2>3 DEF RadioOK, IInv
  <2>5. WheelTypes'
    BY <1>3, <1>4, <1>5, TypeParts DEF WheelTypes
  <2> QED BY <2>1, <2>2, <2>4, <2>5
<1>8. CountsOK' /\ count'.samples = count.samples
  BY <1>1, InputStep, TypeParts DEF CountsOK, SentOK
<1>9. Ordered'
  BY <1>1, <1>8, SameOrder
<1> QED BY <1>6, <1>7, <1>8, <1>9, Together

LEMMA ReportStepStep == ASSUME IInv, ReportStep PROVE IInv'
<1> DEFINE v == IF wheel.pending > 0 THEN 1 ELSE IF wheel.pending < 0 THEN -1 ELSE 0
           es == IF v = 0 THEN wheel.events ELSE Append(wheel.events, v)
           pp == wheel.pending - v
<1>1. /\ wheel' = [wheel EXCEPT !.pending = pp, !.events = es]
      /\ qdec' = (qdec \ {"work"}) \cup {"half"}
      /\ UNCHANGED <<rate, active, thread, half, btn, acc, sent, fifo, host, due, faults,
                     count>>
  BY DEF ReportStep
<1>2. v \in {-1, 0, 1} /\ pp \in Int
  BY TypeFacts
<1>3. es \in Seq({-1, 1})
  BY <1>2, TypeFacts, AppendProperties
<1>4. wheel' = [rem |-> wheel.rem, pending |-> pp, events |-> es]
  BY <1>1, TypeFacts
<1>5. SumFunction(es) = SumFunction(wheel.events) + v
  <2>1. wheel.events \in Seq(Int) /\ SumFunction(wheel.events) \in Int
    BY TypeFacts, SumTypes
  <2> HIDE DEF v
  <2>2. CASE v = 0
    BY <2>1, <2>2
  <2>3. CASE v # 0
    <3>1. v \in Int /\ es = Append(wheel.events, v)
      BY <1>2, <2>3
    <3> QED BY <2>1, <3>1, SumAppend
  <2> QED BY <2>2, <2>3
<1>6. WheelConserved'
  <2> DEFINE a == wheel.pending
             b == SumFunction(wheel.events)
             bb == SumFunction(es)
             c == thread.report.wheel
             h == WheelOf(half)
             e == WheelOf(InFifo(fifo))
             x == acc
  <2>1. a \in Int /\ b \in Int /\ c \in Int /\ h \in Int /\ e \in Int /\ x \in Int /\ v \in Int
    BY <1>2, SumTypes, TypeFacts
  <2>2. bb = b + v /\ pp = a - v
    BY <1>5
  <2> HIDE DEF a, b, bb, c, h, e, x, v, pp, es
  <2>3. Steps(pp, bb, x, c, h, e) = Steps(a, b, x, c, h, e) - 0
    BY <2>1, <2>2 DEF Steps
  <2>4. wheel'.rem = wheel.rem /\ wheel'.pending = pp /\ wheel'.events = es
    BY <1>4
  <2>5. Unsettled' = Unsettled - 0
    BY <1>1, <2>3, <2>4 DEF Unsettled, a, b, bb, c, h, e, x
  <2>6. due' = due - Divider * 0
    BY <1>1, TypeFacts, ConstantTypes
  <2> QED BY <2>4, <2>5, <2>6, Balance
<1>7. FlagsOK' /\ ThreadTypes' /\ CountsOK' /\ ThreadOK' /\ RadioOK' /\ (acc \in Int)'
  BY <1>1, TypeParts DEF FlagsOK, ThreadTypes, CountsOK, SentOK, ThreadOK, RadioOK, IInv
<1>8. WheelTypes'
  <2> HIDE DEF pp, es
  <2> QED BY <1>2, <1>3, <1>4, TypeParts DEF WheelTypes
<1>9. Ordered'
  BY <1>1, SameOrder
<1> QED BY <1>6, <1>7, <1>8, <1>9, Together

LEMMA ReportEndsStep == ASSUME IInv, ReportEnds PROVE IInv'
<1>1. /\ qdec' = (qdec \ {"half"}) \cup (IF Again THEN {"work"} ELSE {})
      /\ UNCHANGED <<rate, active, thread, half, btn, acc, sent, wheel, fifo, host, due,
                     faults, count>>
  BY DEF ReportEnds
<1>2. FlagsOK'
  BY <1>1, TypeParts DEF FlagsOK
<1>3. ThreadTypes' /\ WheelTypes' /\ CountsOK' /\ ThreadOK' /\ RadioOK' /\ (acc \in Int)'
  BY <1>1, TypeParts DEF ThreadTypes, WheelTypes, CountsOK, SentOK, ThreadOK, RadioOK, IInv
<1> QED BY <1>1, <1>2, <1>3, SameOrder, SameSums, Together

LEMMA PowerDownStep == ASSUME IInv, PowerDown PROVE IInv'
<1>1. /\ Input /\ wheel' = [wheel EXCEPT !.pending = 0]
      /\ due' = due - Divider * wheel.pending
      /\ qdec' = {} /\ active' = FALSE
      /\ UNCHANGED <<rate, thread, half, btn, acc, sent, fifo, host, faults>>
  BY DEF PowerDown, Settled
<1>2. wheel' = [rem |-> wheel.rem, pending |-> 0, events |-> wheel.events]
  BY <1>1, TypeFacts
<1>3. wheel.pending \in Int /\ due' \in Int
  <2> DEFINE y == due
             z == due'
             v == Divider * wheel.pending
  <2>1. wheel.pending \in Int /\ y \in Int /\ v \in Int /\ z = y - v
    BY <1>1, TypeFacts, ConstantTypes
  <2> HIDE DEF y, z, v
  <2>2. z \in Int
    BY <2>1
  <2> QED BY <2>1, <2>2 DEF z
<1>4. WheelConserved'
  <2> DEFINE a == wheel.pending
             b == SumFunction(wheel.events)
             c == thread.report.wheel
             h == WheelOf(half)
             e == WheelOf(InFifo(fifo))
             x == acc
  <2>1. a \in Int /\ b \in Int /\ c \in Int /\ h \in Int /\ e \in Int /\ x \in Int
    BY SumTypes, TypeFacts
  <2> HIDE DEF a, b, c, h, e, x
  <2>2. Steps(0, b, x, c, h, e) = Steps(a, b, x, c, h, e) - a
    BY <2>1 DEF Steps
  <2>3. wheel'.rem = wheel.rem /\ wheel'.pending = 0 /\ wheel'.events = wheel.events
    BY <1>2
  <2>4. Unsettled' = Unsettled - a
    BY <1>1, <2>2, <2>3 DEF Unsettled, a, b, c, h, e, x
  <2> QED BY <1>1, <1>3, <2>3, <2>4, Balance DEF a
<1>5. CountsOK' /\ count'.samples = count.samples
  BY <1>1, InputStep, TypeParts DEF CountsOK, SentOK
<1>6. FlagsOK' /\ ThreadTypes' /\ ThreadOK' /\ RadioOK' /\ (acc \in Int)'
  <2>1. FlagsOK'
    BY <1>1, TypeParts DEF FlagsOK
  <2> QED BY <1>1, <1>3, <2>1, TypeParts DEF ThreadTypes, ThreadOK, RadioOK, IInv
<1>7. WheelTypes'
  BY <1>2, TypeParts, TypeFacts DEF WheelTypes
<1>8. Ordered'
  BY <1>1, <1>5, SameOrder
<1> QED BY <1>4, <1>5, <1>6, <1>7, <1>8, Together

LEMMA FlagSteps ==
    ASSUME IInv, WakeUp \/ MotionBegins \/ RateChanges
    PROVE  IInv'
<1>1. UNCHANGED <<thread, half, acc, sent, wheel, fifo, host, due, faults>>
  BY DEF WakeUp, MotionBegins, RateChanges
<1>2. CountsOK' /\ count'.samples = count.samples
  <2>1. count' = count \/ Input
    BY DEF WakeUp, MotionBegins, RateChanges
  <2> QED BY <1>1, <2>1, InputStep, TypeParts DEF CountsOK, SentOK
<1>3. FlagsOK'
  <2>1. CASE WakeUp \/ MotionBegins
    BY <2>1, TypeParts DEF FlagsOK, WakeUp, MotionBegins
  <2>2. CASE RateChanges
    <3>1. rate' \in Rates
      BY <2>2 DEF RateChanges
    <3> QED BY <2>2, <3>1, TypeParts DEF FlagsOK, RateChanges
  <2> QED BY <2>1, <2>2
<1>4. ThreadTypes' /\ WheelTypes' /\ ThreadOK' /\ RadioOK' /\ (acc \in Int)'
  BY <1>1, TypeParts DEF ThreadTypes, WheelTypes, ThreadOK, RadioOK, IInv
<1>5. Ordered' /\ WheelConserved'
  BY <1>1, <1>2, SameOrder, SameSums
<1> QED BY <1>2, <1>3, <1>4, <1>5, Together

-----------------------------------------------------------------------------
(* The steps of the motion thread.                                         *)

LEMMA NoReportType ==
    /\ NoReport \in Reports /\ NoReport.id = 0 /\ NoReport.wheel = 0
    /\ <<NoReport>> \in Seq(Reports)
  BY ConstantTypes DEF NoReport, Report, Reports

LEMMA AtRestType ==
    /\ AtRest \in [pc : {"rest", "drain", "write"},
                   kind : {"single", "first", "second"}, report : Reports]
    /\ AtRest.pc = "rest" /\ AtRest.kind = "single" /\ AtRest.report = NoReport
<1>1. NoReport \in Reports
  BY NoReportType
<1> QED BY <1>1 DEF AtRest

\* A report without motion is in order behind any others.
LEMMA FreshNoReport ==
    ASSUME NEW s \in Seq(Reports), NEW last \in Nat, NEW n \in Nat, Fresh(s, last, n)
    PROVE  Fresh(<<NoReport>>, last, n) /\ Before(s, <<NoReport>>)
<1> DEFINE z == NoReport
<1>1. z \in Reports /\ z.id = 0
  BY NoReportType
<1> HIDE DEF z
<1>2. last <= n /\ 0 <= n
  BY DEF Fresh
<1>3. Fresh(<<z>>, last, n)
  BY <1>1, <1>2, FreshOne
<1>4. Before(s, <<z>>)
  BY <1>1, BeforeNext
<1> QED BY <1>3, <1>4 DEF z

LEMMA OrderFacts ==
    ASSUME IInv
    PROVE  LET f == InFifo(fifo)
               t == <<thread.report>>
               l == host.last
               m == count.samples
           IN  /\ f \in Seq(Reports) /\ half \in Seq(Reports) /\ t \in Seq(Reports)
               /\ thread.report \in Reports /\ l \in Nat /\ m \in Nat /\ l <= m
               /\ Fresh(f, l, m) /\ Fresh(half, l, m) /\ Before(f, half)
               /\ Fresh(t, l, m) /\ Before(f, t) /\ Before(half, t)
  BY TypeFacts DEF IInv, Ordered, Parts, Fresh

LEMMA SampleStep == ASSUME IInv, Sample PROVE IInv'
<1> DEFINE more == count.samples < MaxSamples
           m == count.samples
           n == count'.samples
           r == Report(IF more THEN n ELSE 0, btn, 0)
<1>1. /\ active /\ thread.pc = "rest"
      /\ count' = IF more THEN [count EXCEPT !.samples = count.samples + 1] ELSE count
      /\ thread' = [pc |-> "drain", kind |-> Kind, report |-> r]
      /\ half' = HalfAfter
      /\ due' = due - Divider * (WheelOf(half) - WheelOf(half'))
      /\ UNCHANGED <<rate, active, btn, acc, sent, wheel, qdec, fifo, host, faults>>
  BY DEF Sample, Settled
<1>2. thread = AtRest
  BY <1>1 DEF IInv, ThreadOK
<1>3. /\ CountsOK' /\ n \in Nat /\ m \in Nat /\ n <= MaxSamples
      /\ IF more THEN n = m + 1 ELSE n = m
  <2>1. count \in [samples : 0 .. MaxSamples, inputs : 0 .. MaxInputs]
    BY TypeParts DEF CountsOK, SentOK
  <2>2. /\ count' \in [samples : 0 .. MaxSamples, inputs : 0 .. MaxInputs]
        /\ IF more THEN n = m + 1 ELSE n = m
    BY <1>1, <2>1, ConstantTypes
  <2> QED BY <1>1, <2>1, <2>2, TypeParts, ConstantTypes DEF CountsOK, SentOK
<1>4. /\ r \in Reports /\ r.wheel = 0 /\ r.id = IF more THEN n ELSE 0
  <2>1. btn \in SUBSET Keys
    BY TypeParts DEF FlagsOK
  <2> HIDE DEF n
  <2> QED BY <1>3, <2>1, ConstantTypes DEF Report, Reports
<1> HIDE DEF r
<1>5. /\ half \in Seq(Reports) /\ Len(half) <= 1
      /\ half' \in {half, <<>>}
      /\ Kind \in {"single", "first", "second"}
      /\ Kind = "second" => Len(half') = 1
      /\ Kind # "second" => half' = <<>>
  <2>1. half \in Seq(Reports) /\ Len(half) <= 1
    BY TypeParts DEF ThreadTypes, FlagsOK
  <2>2. half # <<>> => Len(half) = 1
    <3> DEFINE k == Len(half)
    <3>1. k <= 1 /\ (half # <<>> => k \in Nat \ {0})
      BY <2>1, EmptySeq
    <3> HIDE DEF k, more, m, n
    <3>2. half # <<>> => k = 1
      BY <3>1
    <3> QED BY <3>2 DEF k
  <2>3. CASE rate = EightK
    BY <1>1, <2>1, <2>2, <2>3 DEF HalfAfter, Kind
  <2>4. CASE rate # EightK
    BY <1>1, <2>1, <2>4 DEF HalfAfter, Kind
  <2> QED BY <2>3, <2>4
<1>6. ThreadTypes' /\ ThreadOK' /\ thread'.report = r
  <2>1. half' \in Seq(Reports) /\ Len(half') <= 1
    <3>1. CASE half' = half
      BY <1>5, <3>1
    <3>2. CASE half' = <<>>
      BY <3>2, EmptySeq
    <3> QED BY <1>5, <3>1, <3>2
  <2>2. /\ thread' \in [pc : {"rest", "drain", "write"},
                        kind : {"single", "first", "second"}, report : Reports]
        /\ thread'.pc = "drain" /\ thread'.kind = Kind /\ thread'.report = r
    BY <1>1, <1>4, <1>5
  <2> QED BY <1>4, <1>5, <2>1, <2>2 DEF ThreadTypes, ThreadOK
<1>7. WheelOf(half) \in Int /\ WheelOf(half') \in Int
  BY <1>5, <1>6, WheelOfType DEF ThreadTypes
<1>8. WheelConserved'
  <2> DEFINE a == wheel.pending
             b == SumFunction(wheel.events)
             c == thread.report.wheel
             h == WheelOf(half)
             hh == WheelOf(half')
             e == WheelOf(InFifo(fifo))
             x == acc
             k == h - hh
  <2>1. a \in Int /\ b \in Int /\ h \in Int /\ hh \in Int /\ e \in Int /\ x \in Int /\ c = 0
    BY <1>2, <1>7, SumTypes, TypeFacts, AtRestType, NoReportType
  <2>2. due' = due - Divider * k
    BY <1>1
  <2> HIDE DEF a, b, c, h, hh, e, x
  <2>3. Steps(a, b, x, 0, hh, e) = Steps(a, b, x, c, h, e) - k /\ k \in Int
    BY <2>1 DEF Steps
  <2>4. thread'.report.wheel = 0
    BY <1>4, <1>6
  <2>5. Unsettled' = Unsettled - k
    BY <1>1, <2>3, <2>4 DEF Unsettled, a, b, c, h, hh, e, x
  <2> HIDE DEF k
  <2> QED BY <1>1, <2>2, <2>3, <2>5, Balance
<1>9. RadioOK'
  <2> DEFINE y == due
             z == due'
             w == WheelOf(half) - WheelOf(half')
             v == Divider * w
  <2>1. y \in Int /\ w \in Int /\ z = y - v
    BY <1>1, <1>7, TypeFacts
  <2> HIDE DEF w
  <2>2. v \in Int
    BY <2>1, ConstantTypes
  <2> HIDE DEF y, z, v
  <2>3. z \in Int
    BY <2>1, <2>2
  <2> QED BY <1>1, <2>3 DEF z, RadioOK, IInv
<1>10. Ordered'
  <2> DEFINE f == InFifo(fifo)
             l == host.last
  <2>1. /\ f \in Seq(Reports) /\ l \in Nat /\ l <= m
        /\ Fresh(f, l, m) /\ Fresh(half, l, m) /\ Before(f, half)
    BY OrderFacts
  <2> HIDE DEF f, l, m, n
  <2>2. m <= n /\ r.id <= n /\ l <= n /\ (r.id = 0 \/ r.id > m)
    BY <1>3, <1>4, <2>1 DEF m
  <2>3. Fresh(f, l, n) /\ Fresh(half, l, n)
    BY <1>3, <1>5, <2>1, <2>2, FreshMore
  <2>4. Fresh(half', l, n) /\ Before(f, half')
    BY <1>3, <1>5, <2>1, <2>2, <2>3, FreshEmpty, BeforeEmpty
  <2>5. Fresh(<<r>>, l, n)
    BY <1>3, <1>4, <2>1, <2>2, FreshOne
  <2>6. Before(f, <<r>>) /\ Before(half, <<r>>)
    BY <1>3, <1>4, <1>5, <2>1, <2>2, BeforeNext
  <2>7. Before(half', <<r>>)
    BY <1>5, <2>6, BeforeEmpty
  <2>8. Parts(f, half', <<r>>, l, n)
    BY <2>3, <2>4, <2>5, <2>6, <2>7 DEF Parts
  <2> QED BY <1>1, <1>6, <2>8 DEF Ordered, f, l, n
<1>11. FlagsOK' /\ WheelTypes' /\ (acc \in Int)'
  BY <1>1, TypeParts DEF FlagsOK, WheelTypes
<1> QED BY <1>3, <1>6, <1>8, <1>9, <1>10, <1>11, Together

LEMMA DrainStep == ASSUME IInv, Drain PROVE IInv'
<1> DEFINE d == Drained(acc)
           r == [thread.report EXCEPT !.wheel = d]
           f == InFifo(fifo)
           l == host.last
           m == count.samples
           t == thread.report
<1>1. /\ thread.pc = "drain" /\ acc' = acc - d
      /\ \/ thread.kind = "first" /\ half' = <<r>> /\ thread' = AtRest
         \/ /\ thread.kind # "first" /\ half' = half
            /\ thread' = [thread EXCEPT !.pc = "write", !.report = r]
      /\ UNCHANGED <<rate, active, btn, sent, wheel, qdec, fifo, host, due, faults, count>>
  BY DEF Drain
<1>2. thread.report.wheel = 0 /\ (thread.kind # "second" => half = <<>>)
  BY <1>1 DEF IInv, ThreadOK
<1>3. acc \in Int /\ d \in Int /\ d \in -WheelLimit .. WheelLimit
  BY DrainedType, TypeFacts
<1>4. r \in Reports /\ r.id = t.id /\ r.wheel = d
  <2>1. t \in [id : 0 .. MaxSamples, btn : SUBSET Keys, wheel : -WheelLimit .. WheelLimit]
    BY TypeFacts DEF Reports
  <2> HIDE DEF d, t
  <2>2. [t EXCEPT !.wheel = d] \in Reports
    BY <1>3, <2>1 DEF Reports
  <2>3. [t EXCEPT !.wheel = d].id = t.id /\ [t EXCEPT !.wheel = d].wheel = d
    BY <2>1
  <2> QED BY <2>2, <2>3 DEF t
<1>5. /\ f \in Seq(Reports) /\ t \in Reports /\ l \in Nat /\ m \in Nat /\ l <= m
      /\ half \in Seq(Reports)
      /\ Fresh(f, l, m) /\ Fresh(half, l, m) /\ Before(f, half)
      /\ Fresh(<<t>>, l, m) /\ Before(f, <<t>>) /\ Before(half, <<t>>)
  BY OrderFacts
<1>6. (acc \in Int)' /\ FlagsOK' /\ WheelTypes' /\ CountsOK' /\ RadioOK'
  <2>1. acc' \in Int
    <3> DEFINE x == acc
               y == acc'
    <3>1. x \in Int /\ y = x - d
      BY <1>1, <1>3
    <3> HIDE DEF x, y, d
    <3>2. y \in Int
      BY <1>3, <3>1
    <3> QED BY <3>2 DEF y
  <2> QED BY <1>1, <2>1, TypeParts DEF FlagsOK, WheelTypes, CountsOK, SentOK, RadioOK, IInv
<1> DEFINE a == wheel.pending
           b == SumFunction(wheel.events)
           c == thread.report.wheel
           h == WheelOf(half)
           e == WheelOf(f)
           x == acc
           y == acc'
<1>7. /\ a \in Int /\ b \in Int /\ h \in Int /\ e \in Int /\ x \in Int /\ c = 0
      /\ y = x - d
  BY <1>1, <1>2, SumTypes, TypeFacts
<1>8. due' = due - Divider * 0
  BY <1>1, TypeFacts, ConstantTypes
<1> HIDE DEF r, t, f, l, m, d
<1>9. (Before(f, <<t>>) => Before(f, <<r>>)) /\ (Before(half, <<t>>) => Before(half, <<r>>))
  <2>1. Len(<<r>>) = 1 /\ <<r>>[1] = r /\ Len(<<t>>) = 1 /\ <<t>>[1] = t
    OBVIOUS
  <2> DEFINE rs == <<r>>
             ts == <<t>>
  <2> HIDE DEF rs, ts
  <2>2. \A j \in 1 .. Len(rs) : j \in 1 .. Len(ts) /\ rs[j].id = ts[j].id
    BY <1>4, <2>1 DEF rs, ts
  <2> QED BY <2>2 DEF Before, rs, ts
<1>10. Fresh(<<r>>, l, m)
  BY <1>4, <1>5, FreshOne
<1>11. CASE thread.kind = "first"
  <2>1. half = <<>> /\ half' = <<r>> /\ thread' = AtRest
    BY <1>1, <1>2, <1>11
  <2>2. thread'.report = NoReport /\ thread'.pc = "rest" /\ thread'.kind = "single"
    BY <2>1, AtRestType
  <2>3. WheelConserved'
    <3>1. h = 0 /\ WheelOf(half') = d
      BY <1>4, <2>1, WheelOfEmpty, WheelOfOne
    <3> DEFINE hh == WheelOf(half')
               cc == thread'.report.wheel
    <3>2. cc = 0
      BY <2>2, NoReportType
    <3> HIDE DEF a, b, c, h, hh, e, x, y, cc
    <3>3. Steps(a, b, y, cc, hh, e) = Steps(a, b, x, c, h, e) - 0
      BY <1>3, <1>7, <3>1, <3>2 DEF Steps, hh
    <3>4. Unsettled' = Unsettled - 0
      BY <1>1, <3>3 DEF Unsettled, a, b, c, h, hh, e, x, y, cc, f
    <3> QED BY <1>1, <1>8, <3>4, Balance
  <2>4. ThreadTypes' /\ ThreadOK'
    <3>1. half' \in Seq(Reports) /\ Len(half') <= 1
      BY <1>4, <2>1
    <3> QED BY <2>1, <2>2, <3>1, AtRestType DEF ThreadTypes, ThreadOK
  <2>5. Ordered'
    <3>1. Fresh(<<NoReport>>, l, m) /\ Before(f, <<NoReport>>)
      BY <1>5, FreshNoReport
    <3>2. Before(<<r>>, <<NoReport>>)
      <4>1. <<r>> \in Seq(Reports)
        BY <1>4
      <4> DEFINE u == <<r>>
      <4> HIDE DEF u
      <4>2. Before(u, <<NoReport>>)
        BY <1>5, <1>10, <4>1, FreshNoReport DEF u
      <4> QED BY <4>2 DEF u
    <3>3. Parts(f, <<r>>, <<NoReport>>, l, m)
      BY <1>5, <1>9, <1>10, <3>1, <3>2 DEF Parts
    <3> QED BY <1>1, <2>1, <2>2, <3>3 DEF Ordered, f, l, m
  <2> QED BY <1>6, <2>3, <2>4, <2>5, Together
<1>12. CASE thread.kind # "first"
  <2>1. half' = half /\ thread' = [thread EXCEPT !.pc = "write", !.report = r]
    BY <1>1, <1>12
  <2>2. /\ thread' \in [pc : {"rest", "drain", "write"},
                        kind : {"single", "first", "second"}, report : Reports]
        /\ thread'.pc = "write" /\ thread'.kind = thread.kind /\ thread'.report = r
    BY <1>4, <2>1, TypeParts DEF ThreadTypes
  <2>3. WheelConserved'
    <3> DEFINE cc == thread'.report.wheel
    <3>1. cc = d
      BY <1>4, <2>2
    <3> HIDE DEF a, b, c, h, e, x, y, cc
    <3>2. Steps(a, b, y, cc, h, e) = Steps(a, b, x, c, h, e) - 0
      BY <1>3, <1>7, <3>1 DEF Steps
    <3>3. Unsettled' = Unsettled - 0
      BY <1>1, <2>1, <3>2 DEF Unsettled, a, b, c, h, e, x, y, cc, f
    <3> QED BY <1>1, <1>8, <3>3, Balance
  <2>4. ThreadTypes' /\ ThreadOK'
    BY <1>2, <2>1, <2>2, TypeParts DEF ThreadTypes, ThreadOK
  <2>5. Ordered'
    <3>1. Parts(f, half, <<r>>, l, m)
      BY <1>5, <1>9, <1>10 DEF Parts
    <3> QED BY <1>1, <2>1, <2>2, <3>1 DEF Ordered, f, l, m
  <2> QED BY <1>6, <2>3, <2>4, <2>5, Together
<1> QED BY <1>11, <1>12

\* The thread's report and the half packet are written, as rs.
LEMMA Emptied ==
    ASSUME IInv, NEW rs \in Seq(Reports),
           Fresh(rs, host.last, count.samples), Before(InFifo(fifo), rs),
           WheelOf(rs) = thread.report.wheel + WheelOf(half), Carried(rs),
           half' = <<>>, thread'.report = NoReport, UNCHANGED <<acc, wheel, count>>
    PROVE  Ordered' /\ WheelConserved' /\ RadioOK'
<1> DEFINE f == InFifo(fifo)
           g == InFifo(fifo')
           l == host.last
           m == count.samples
           a == wheel.pending
           b == SumFunction(wheel.events)
           c == thread.report.wheel
           h == WheelOf(half)
           e == WheelOf(f)
           x == acc
           w == WheelOf(rs)
           ee == WheelOf(g)
<1>1. /\ f \in Seq(Reports) /\ l \in Nat /\ m \in Nat /\ l <= m /\ Fresh(f, l, m)
  BY OrderFacts
<1>2. /\ a \in Int /\ b \in Int /\ c \in Int /\ h \in Int /\ e \in Int /\ x \in Int
      /\ w = c + h /\ w \in Int
  BY SumTypes, TypeFacts, WheelOfType
<1>3. PICK k \in Int : due' = due - Divider * k /\ ee = e + w - k
  BY DEF Carried
<1>4. WheelConserved'
  <2> DEFINE cc == thread'.report.wheel
             hh == WheelOf(half')
  <2>1. cc = 0 /\ hh = 0
    BY NoReportType, WheelOfEmpty
  <2> HIDE DEF a, b, c, h, e, x, w, ee, cc, hh, f, g
  <2>2. Steps(a, b, x, cc, hh, ee) = Steps(a, b, x, c, h, e) - k
    BY <1>2, <1>3, <2>1 DEF Steps
  <2>3. Unsettled' = Unsettled - k
    BY <2>2 DEF Unsettled, a, b, c, h, e, x, ee, cc, hh, f, g
  <2> QED BY <1>3, <2>3, Balance
<1>5. Ordered'
  <2> DEFINE z == <<NoReport>>
  <2>1. z \in Seq(Reports)
    BY NoReportType
  <2>2. Fresh(z, l, m) /\ Before(f, z) /\ Before(rs, z)
    BY <1>1, FreshNoReport
  <2> HIDE DEF f, g, l, m, z
  <2>3. Fresh(g, host'.last, m) /\ Fresh(z, host'.last, m) /\ Before(g, z)
    BY <1>1, <2>1, <2>2 DEF Carried, f, g, l, m
  <2>4. host'.last \in Nat
    BY ConstantTypes DEF Carried, RadioOK, Hosts
  <2>5. Fresh(<<>>, host'.last, m) /\ Before(g, <<>>) /\ Before(<<>>, z)
    <3>1. host'.last <= m
      BY <2>3 DEF Fresh
    <3> QED BY <1>1, <2>4, <3>1, FreshEmpty, BeforeEmpty
  <2>6. Parts(g, <<>>, z, host'.last, m)
    BY <2>3, <2>5 DEF Parts
  <2> QED BY <2>6 DEF Ordered, g, z, m
<1> QED BY <1>4, <1>5 DEF Carried

\* They are not written: n steps are given up, the others are put back.
LEMMA EmptiedLost ==
    ASSUME IInv, NEW n \in Int, due' = due - Divider * n,
           acc' \in Int, acc' = acc + (thread.report.wheel + WheelOf(half)) - n,
           half' = <<>>, thread'.report = NoReport, UNCHANGED <<wheel, count, fifo, host>>
    PROVE  Ordered' /\ WheelConserved' /\ RadioOK'
<1> DEFINE f == InFifo(fifo)
           l == host.last
           m == count.samples
           a == wheel.pending
           b == SumFunction(wheel.events)
           c == thread.report.wheel
           h == WheelOf(half)
           e == WheelOf(f)
           x == acc
           y == acc'
<1>1. /\ f \in Seq(Reports) /\ l \in Nat /\ m \in Nat /\ l <= m /\ Fresh(f, l, m)
  BY OrderFacts
<1>2. /\ a \in Int /\ b \in Int /\ c \in Int /\ h \in Int /\ e \in Int /\ x \in Int
      /\ y \in Int /\ y = x + (c + h) - n
  BY SumTypes, TypeFacts
<1>3. WheelConserved'
  <2> DEFINE cc == thread'.report.wheel
             hh == WheelOf(half')
  <2>1. cc = 0 /\ hh = 0
    BY NoReportType, WheelOfEmpty
  <2> HIDE DEF a, b, c, h, e, x, y, cc, hh, f
  <2>2. Steps(a, b, y, cc, hh, e) = Steps(a, b, x, c, h, e) - n
    BY <1>2, <2>1 DEF Steps
  <2>3. Unsettled' = Unsettled - n
    BY <2>2 DEF Unsettled, a, b, c, h, e, x, y, cc, hh, f
  <2> QED BY <2>3, Balance
<1>4. Ordered'
  <2>1. Fresh(<<NoReport>>, l, m) /\ Before(f, <<NoReport>>)
    BY <1>1, FreshNoReport
  <2>2. Fresh(<<>>, l, m) /\ Before(f, <<>>) /\ Before(<<>>, <<NoReport>>)
    BY <1>1, FreshEmpty, BeforeEmpty
  <2>3. Parts(f, <<>>, <<NoReport>>, l, m)
    BY <1>1, <2>1, <2>2 DEF Parts
  <2> QED BY <2>3 DEF Ordered, f, l, m
<1>5. RadioOK'
  <2> DEFINE u == due
             uu == due'
             v == Divider * n
  <2>1. u \in Int /\ v \in Int /\ uu = u - v
    <3>1. due \in Int
      BY TypeFacts
    <3>2. Divider * n \in Int
      BY ConstantTypes
    <3> QED BY <3>1, <3>2
  <2> HIDE DEF u, v, uu
  <2>2. uu \in Int
    BY <2>1
  <2> QED BY <2>2 DEF uu, RadioOK, IInv
<1> QED BY <1>3, <1>4, <1>5

LEMMA ThreadRests ==
    ASSUME thread' = AtRest, half' = <<>>
    PROVE  ThreadTypes' /\ ThreadOK' /\ thread'.report = NoReport
<1>1. <<>> \in Seq(Reports) /\ Len(<<>>) = 0
  BY EmptySeq
<1> QED BY <1>1, AtRestType DEF ThreadTypes, ThreadOK

LEMMA WriteStep == ASSUME IInv, Write PROVE IInv'
<1> DEFINE r == thread.report
           rs == IF thread.kind = "second" THEN half \o <<r>> ELSE <<r>>
           f == InFifo(fifo)
           l == host.last
           m == count.samples
<1>1. /\ thread.pc = "write" /\ Counted(thread.kind) /\ thread' = AtRest
      /\ half' = IF thread.kind = "second" THEN <<>> ELSE half
      /\ \/ Written([reports |-> rs, ack |-> AckDue(thread.kind)]) /\ UNCHANGED <<acc, faults>>
         \/ /\ Fault
            /\ acc' = IF thread.kind = "second" THEN acc ELSE acc + r.wheel
            /\ due' = due - Divider * (IF thread.kind = "second" THEN WheelOf(rs) ELSE 0)
            /\ UNCHANGED <<fifo, host>>
      /\ UNCHANGED <<rate, active, btn, wheel, qdec, count>>
  BY DEF Write, Settled
<1>2. thread.kind # "second" => half = <<>>
  BY <1>1 DEF IInv, ThreadOK
<1>3. /\ f \in Seq(Reports) /\ r \in Reports /\ <<r>> \in Seq(Reports) /\ half \in Seq(Reports)
      /\ l \in Nat /\ m \in Nat
      /\ Fresh(f, l, m) /\ Fresh(half, l, m) /\ Before(f, half)
      /\ Fresh(<<r>>, l, m) /\ Before(f, <<r>>) /\ Before(half, <<r>>)
  BY OrderFacts
<1>4. half' = <<>> /\ rs = Cat(half, <<r>>)
  BY <1>1, <1>2, <1>3, ConcatEmptySeq DEF Cat
<1>5. rs \in Seq(Reports) /\ rs # <<>>
  <2>1. /\ Cat(half, <<r>>) \in Seq(Reports) /\ Len(half) \in Nat
        /\ Len(Cat(half, <<r>>)) = Len(half) + Len(<<r>>)
    BY <1>3, CatElements, Elements
  <2>2. Len(<<r>>) = 1 /\ Len(<<>>) = 0
    OBVIOUS
  <2> HIDE DEF rs, r
  <2> QED BY <1>4, <2>1, <2>2
<1> HIDE DEF rs
<1>6. WheelOf(rs) = r.wheel + WheelOf(half) /\ r.wheel \in Int /\ WheelOf(half) \in Int
  <2>1. WheelOf(rs) = WheelOf(half) + WheelOf(<<r>>)
    BY <1>3, <1>4, WheelOfCat
  <2>2. WheelOf(<<r>>) = r.wheel
    BY <1>3, WheelOfOne
  <2>3. r.wheel \in Int /\ WheelOf(half) \in Int
    BY SumTypes
  <2> QED BY <2>1, <2>2, <2>3
<1>7. Fresh(rs, l, m) /\ Before(f, rs)
  <2> DEFINE t == <<r>>
  <2> HIDE DEF t, f, l, m
  <2> QED BY <1>3, <1>4, FreshCat, BeforeCatRight DEF t
<1>8. ThreadTypes' /\ ThreadOK' /\ thread'.report = NoReport
  BY <1>1, <1>4, ThreadRests
<1>9. FlagsOK' /\ WheelTypes' /\ SentOK'
  BY <1>1, CountedStep, TypeParts DEF FlagsOK, WheelTypes
<1>10. CASE Written([reports |-> rs, ack |-> AckDue(thread.kind)]) /\ UNCHANGED <<acc, faults>>
  <2> DEFINE p == [reports |-> rs, ack |-> AckDue(thread.kind)]
  <2>1. p \in Full /\ p.reports = rs
    BY <1>5, AckDueType, PacketType
  <2> HIDE DEF p
  <2>2. Carried(rs)
    BY <1>10, <2>1, WrittenStep DEF p
  <2>3. Ordered' /\ WheelConserved' /\ RadioOK'
    BY <1>1, <1>4, <1>5, <1>6, <1>7, <1>8, <1>10, <2>2, Emptied
  <2>4. CountsOK' /\ (acc \in Int)'
    BY <1>1, <1>9, <1>10, TypeParts DEF CountsOK, SentOK
  <2> QED BY <1>8, <1>9, <2>3, <2>4, Together
<1>11. CASE /\ Fault
            /\ acc' = IF thread.kind = "second" THEN acc ELSE acc + r.wheel
            /\ due' = due - Divider * (IF thread.kind = "second" THEN WheelOf(rs) ELSE 0)
            /\ UNCHANGED <<fifo, host>>
  <2> DEFINE n == IF thread.kind = "second" THEN WheelOf(rs) ELSE 0
             c == r.wheel
             h == WheelOf(half)
             x == acc
             y == acc'
  <2>1. due' = due - Divider * n
    BY <1>11
  <2>2. c \in Int /\ h \in Int /\ x \in Int /\ (thread.kind # "second" => h = 0)
    BY <1>2, <1>6, TypeFacts, WheelOfEmpty
  <2>3. /\ y = IF thread.kind = "second" THEN x ELSE x + c
        /\ n = IF thread.kind = "second" THEN c + h ELSE 0
    BY <1>6, <1>11
  <2> HIDE DEF n, c, h, x, y
  <2>4. n \in Int /\ y \in Int /\ y = x + (c + h) - n
    BY <2>2, <2>3
  <2>5. Ordered' /\ WheelConserved' /\ RadioOK'
    BY <1>1, <1>4, <1>8, <1>11, <2>1, <2>4, EmptiedLost DEF c, h, x, y
  <2>6. CountsOK' /\ (acc \in Int)'
    BY <1>1, <1>9, <1>11, <2>4, FaultStep, TypeParts DEF CountsOK, SentOK, y
  <2> QED BY <1>8, <1>9, <2>5, <2>6, Together
<1> QED BY <1>1, <1>10, <1>11

LEMMA FlushStep == ASSUME IInv, Flush PROVE IInv'
<1>1. /\ thread.pc = "rest" /\ active' = FALSE /\ half' = <<>>
      /\ UNCHANGED <<rate, thread, btn, acc, sent, wheel, qdec, count>>
  BY DEF Flush
<1>2. thread = AtRest /\ thread' = AtRest
  BY <1>1 DEF IInv, ThreadOK
<1>3. ThreadTypes' /\ ThreadOK' /\ thread'.report = NoReport /\ thread.report.wheel = 0
  BY <1>1, <1>2, ThreadRests, AtRestType, NoReportType
<1>4. FlagsOK' /\ WheelTypes' /\ (acc \in Int)'
  BY <1>1, TypeParts DEF FlagsOK, WheelTypes
<1>5. /\ half \in Seq(Reports) /\ WheelOf(half) \in Int
      /\ WheelOf(half) = thread.report.wheel + WheelOf(half)
      /\ Fresh(half, host.last, count.samples) /\ Before(InFifo(fifo), half)
  BY <1>3, OrderFacts, SumTypes
<1>6. faults' = faults => CountsOK'
  BY <1>1, TypeParts DEF CountsOK, SentOK
<1>7. CASE half = <<>> /\ UNCHANGED <<fifo, host, due, faults>>
  <2>1. Ordered' /\ WheelConserved'
    <3>1. half' = half
      BY <1>1, <1>7
    <3> QED BY <1>1, <1>7, <3>1, SameOrder, SameSums
  <2>2. RadioOK'
    BY <1>7 DEF RadioOK, IInv
  <2> QED BY <1>3, <1>4, <1>6, <1>7, <2>1, <2>2, Together
<1>8. CASE half # <<>> /\ Written([reports |-> half, ack |-> FALSE]) /\ UNCHANGED faults
  <2> DEFINE p == [reports |-> half, ack |-> FALSE]
  <2>1. p \in Full /\ p.reports = half
    BY <1>5, <1>8, PacketType
  <2> HIDE DEF p
  <2>2. Carried(half)
    BY <1>8, <2>1, WrittenStep DEF p
  <2>3. Ordered' /\ WheelConserved' /\ RadioOK'
    BY <1>1, <1>3, <1>5, <2>2, Emptied
  <2> QED BY <1>3, <1>4, <1>6, <1>8, <2>3, Together
<1>9. CASE Fault /\ SettledReports(half) /\ UNCHANGED <<fifo, host>>
  <2>1. due' = due - Divider * WheelOf(half)
    BY <1>9 DEF SettledReports, Settled
  <2>2. acc' \in Int /\ acc' = acc + (thread.report.wheel + WheelOf(half)) - WheelOf(half)
    <3> DEFINE x == acc
               y == acc'
               c == thread.report.wheel
               h == WheelOf(half)
    <3>1. x \in Int /\ y = x /\ c = 0 /\ h \in Int
      BY <1>1, <1>3, <1>5, TypeFacts
    <3> HIDE DEF x, y, c, h
    <3>2. y \in Int /\ y = x + (c + h) - h
      BY <3>1
    <3> QED BY <3>2 DEF x, y, c, h
  <2>3. Ordered' /\ WheelConserved' /\ RadioOK'
    BY <1>1, <1>3, <1>5, <1>9, <2>1, <2>2, EmptiedLost
  <2>4. CountsOK'
    BY <1>1, <1>9, FaultStep, TypeParts DEF CountsOK, SentOK
  <2> QED BY <1>3, <1>4, <2>3, <2>4, Together
<1> QED BY <1>7, <1>8, <1>9 DEF Flush

-----------------------------------------------------------------------------
(* The steps of the radio.                                                 *)

\* The packets f leave the FIFO and g stay.
LEMMA RadioStep ==
    ASSUME IInv, NEW f \in Seq(Reports), NEW g \in Seq(Reports),
           InFifo(fifo) = Cat(f, g), InFifo(fifo') = g, due' = due - Divider * WheelOf(f),
           fifo' \in Seq(Full), Len(fifo') <= Capacity, host' \in Hosts,
           \A n \in Nat : Rest(f, n), faults' \in 0 .. MaxFaults,
           UNCHANGED <<rate, active, thread, half, btn, acc, sent, wheel, qdec, count>>
    PROVE  IInv'
<1> DEFINE l == host.last
           m == count.samples
           t == <<thread.report>>
           k == WheelOf(f)
           gg == WheelOf(g)
           a == wheel.pending
           b == SumFunction(wheel.events)
           c == thread.report.wheel
           h == WheelOf(half)
           e == WheelOf(InFifo(fifo))
           x == acc
<1>1. e = k + gg /\ k \in Int /\ gg \in Int
  BY WheelOfCat, WheelOfType
<1>2. a \in Int /\ b \in Int /\ c \in Int /\ h \in Int /\ e \in Int /\ x \in Int
  BY SumTypes, TypeFacts
<1>3. WheelConserved'
  <2> HIDE DEF k, gg, a, b, c, h, e, x
  <2>1. Steps(a, b, x, c, h, gg) = Steps(a, b, x, c, h, e) - k
    BY <1>1, <1>2 DEF Steps
  <2>2. Unsettled' = Unsettled - k
    BY <2>1 DEF Unsettled, a, b, c, h, e, x, gg
  <2> QED BY <1>1, <2>2, Balance DEF k
<1>4. due' \in Int
  <2> DEFINE u == due
             uu == due'
             v == Divider * k
  <2>1. u \in Int /\ uu = u - v
    BY TypeFacts
  <2> HIDE DEF k
  <2>2. v \in Int
    BY <1>1, ConstantTypes
  <2> HIDE DEF u, v, uu
  <2>3. uu \in Int
    BY <2>1, <2>2
  <2> QED BY <2>3 DEF uu
<1>5. Ordered'
  <2>1. /\ half \in Seq(Reports) /\ t \in Seq(Reports) /\ l \in Nat /\ m \in Nat
        /\ Fresh(Cat(f, g), l, m) /\ Fresh(half, l, m) /\ Before(Cat(f, g), half)
        /\ Fresh(t, l, m) /\ Before(Cat(f, g), t) /\ Before(half, t)
    BY OrderFacts
  <2> HIDE DEF l, m, t
  <2>2. Fresh(f, l, m) /\ Fresh(g, l, m) /\ Before(f, g)
    BY <2>1, FreshCat
  <2>3. Before(f, half) /\ Before(g, half) /\ Before(f, t) /\ Before(g, t)
    BY <2>1, BeforeCatLeft
  <2>4. Fresh(g, host'.last, m) /\ Fresh(half, host'.last, m) /\ Fresh(t, host'.last, m)
    BY <2>1, <2>2, <2>3 DEF Rest, l
  <2>5. Parts(g, half, t, host'.last, m)
    BY <2>1, <2>3, <2>4 DEF Parts
  <2> QED BY <2>5 DEF Ordered, t, m
<1>6. FlagsOK' /\ ThreadTypes' /\ WheelTypes' /\ CountsOK' /\ ThreadOK' /\ (acc \in Int)'
  BY TypeParts DEF FlagsOK, ThreadTypes, WheelTypes, CountsOK, SentOK, ThreadOK, IInv
<1>7. RadioOK'
  BY <1>4 DEF RadioOK
<1> QED BY <1>3, <1>5, <1>6, <1>7, Together

LEMMA HeadStep ==
    ASSUME IInv, fifo # <<>>, fifo' = Tail(fifo), host' \in {host, HostAfter(Head(fifo))},
           SettledReports(Head(fifo).reports), faults' \in 0 .. MaxFaults,
           UNCHANGED <<rate, active, thread, half, btn, acc, sent, wheel, qdec, count>>
    PROVE  IInv'
<1> DEFINE p == Head(fifo)
           f == p.reports
           g == InFifo(Tail(fifo))
<1>1. p \in Full /\ Tail(fifo) \in Seq(Full) /\ Len(Tail(fifo)) <= Capacity
  <2>1. fifo \in Seq(Full) /\ Len(fifo) \in Nat /\ Len(fifo) <= Capacity
    BY LenProperties DEF IInv, RadioOK
  <2>2. p \in Full /\ Tail(fifo) \in Seq(Full) /\ Len(Tail(fifo)) = Len(fifo) - 1
    BY <2>1, HeadTailProperties
  <2> QED BY <2>1, <2>2, ConstantTypes
<1>2. Tail(fifo) \in Seq(Packets)
  BY <1>1, SeqMonotonic DEF Full
<1>3. f \in Seq(Reports) /\ g \in Seq(Reports)
  BY <1>1, <1>2, FifoType DEF Full, Packets
<1>4. InFifo(fifo) = Cat(f, g)
  BY TypeFacts, FifoHead
<1>5. due' = due - Divider * WheelOf(f)
  BY DEF SettledReports, Settled
<1>6. host' \in Hosts
  BY <1>1, TypeFacts, HostHears
<1>7. ASSUME NEW n \in Nat PROVE Rest(f, n)
  <2>1. CASE host' = host
    BY <2>1, RestLost
  <2>2. CASE host' = HostAfter(p)
    BY <1>1, <2>2, HostHears DEF Rest
  <2> QED BY <2>1, <2>2
<1> HIDE DEF f, g
<1>8. InFifo(fifo') = g /\ fifo' \in Seq(Full) /\ Len(fifo') <= Capacity
  BY <1>1 DEF g
<1> QED BY <1>3, <1>4, <1>5, <1>6, <1>7, <1>8, RadioStep

LEMMA TxFailedStep == ASSUME IInv, TxFailed PROVE IInv'
<1> DEFINE f == InFifo(fifo)
           g == InFifo(fifo')
<1>1. /\ fifo # <<>> /\ Fault /\ Flushed /\ fifo' = <<>>
      /\ UNCHANGED <<rate, active, thread, half, btn, acc, sent, wheel, qdec, count>>
  BY DEF TxFailed
<1>2. f \in Seq(Reports) /\ g = <<>> /\ g \in Seq(Reports)
  BY <1>1, TypeFacts, FifoEmpty, EmptySeq
<1>3. /\ host' \in Hosts /\ due' = due - Divider * WheelOf(f)
      /\ \A n \in Nat : Rest(f, n)
  BY <1>1, FlushedStep
<1>4. f = Cat(f, g)
  BY <1>2, ConcatEmptySeq DEF Cat
<1>5. fifo' \in Seq(Full) /\ Len(fifo') <= Capacity
  BY <1>1, EmptySeq, ConstantTypes
<1>6. faults' \in 0 .. MaxFaults
  BY <1>1, FaultStep
<1> HIDE DEF f, g
<1> QED BY <1>1, <1>2, <1>3, <1>4, <1>5, <1>6, RadioStep DEF f, g

-----------------------------------------------------------------------------
(* The theorems.                                                           *)

LEMMA InitIInv == ASSUME Init PROVE IInv
<1>1. /\ thread = AtRest /\ half = <<>> /\ fifo = <<>> /\ due = 0 /\ acc = 0
      /\ host = [last |-> 0, btn |-> {}] /\ count = [samples |-> 0, inputs |-> 0]
      /\ wheel = [rem |-> 0, pending |-> 0, events |-> <<>>]
  BY DEF Init
<1>2. half \in Seq(Reports) /\ Len(half) = 0 /\ fifo \in Seq(Packets) /\ fifo \in Seq(Full)
      /\ Len(fifo) = 0 /\ wheel.events \in Seq({-1, 1})
  BY <1>1
<1>3. TypeOK
  <2>1. host \in Hosts /\ count \in [samples : 0 .. MaxSamples, inputs : 0 .. MaxInputs]
    BY <1>1, ConstantTypes DEF Hosts
  <2>2. wheel \in [rem : 1 - Divider .. Divider - 1, pending : Int, events : Seq({-1, 1})]
    BY <1>1, <1>2, ConstantTypes
  <2>3. rate \in Rates /\ active \in BOOLEAN
    BY DEF Init
  <2>4. SentOK
    <3>1. rate \in Rates \cup {PairRate} /\ sent = 0
      BY DEF Init
    <3>2. Interval(rate) \in Nat \ {0}
      BY <3>1, IntervalType
    <3> QED BY <3>1, <3>2 DEF SentOK
  <2>5. faults \in 0 .. MaxFaults /\ btn \subseteq Keys
        /\ qdec \subseteq {"on", "work", "half"} /\ Len(fifo) <= Capacity
    BY <1>2, ConstantTypes DEF Init
  <2> QED BY <1>1, <1>2, <2>1, <2>2, <2>3, <2>4, <2>5, AtRestType DEF TypeOK, SentOK, Hosts
<1>4. ThreadOK
  BY <1>1, AtRestType DEF ThreadOK
<1>5. RadioOK
  BY <1>1, <1>2, <1>3, ConstantTypes DEF RadioOK, TypeOK, Hosts
<1>6. WheelConserved
  <2>1. /\ SumFunction(wheel.events) = 0 /\ WheelOf(half) = 0 /\ WheelOf(InFifo(fifo)) = 0
        /\ wheel.rem = 0 /\ wheel.pending = 0 /\ thread.report.wheel = 0
    BY <1>1, SumEmptySeq, WheelOfEmpty, FifoEmpty, AtRestType, NoReportType
  <2> QED BY <1>1, <2>1, ConstantTypes DEF WheelConserved
<1>7. Ordered
  <2>1. Fresh(<<>>, 0, 0) /\ Fresh(<<NoReport>>, 0, 0)
    <3>1. Fresh(<<>>, 0, 0) /\ <<>> \in Seq(Reports)
      BY FreshEmpty, EmptySeq
    <3> DEFINE e == <<>>
    <3> HIDE DEF e
    <3>2. Fresh(<<NoReport>>, 0, 0)
      BY <3>1, FreshNoReport DEF e
    <3> QED BY <3>1, <3>2
  <2>2. Parts(<<>>, <<>>, <<NoReport>>, 0, 0)
    BY <2>1, BeforeEmpty DEF Parts
  <2>3. thread.report = NoReport /\ host.last = 0 /\ count.samples = 0 /\ InFifo(fifo) = <<>>
    BY <1>1, AtRestType, FifoEmpty
  <2> QED BY <1>1, <2>2, <2>3 DEF Ordered
<1> QED BY <1>3, <1>4, <1>5, <1>6, <1>7 DEF IInv

LEMMA StepIInv == ASSUME IInv, [Next]_vars PROVE IInv'
<1>1. CASE Button
  BY <1>1, ButtonStep
<1>2. CASE WheelEvent
  BY <1>2, WheelEventStep
<1>3. ASSUME NEW d \in Turns, DataReady(d) PROVE IInv'
  BY <1>3, DataReadyStep
<1>4. CASE ReportStep
  BY <1>4, ReportStepStep
<1>5. CASE ReportEnds
  BY <1>5, ReportEndsStep
<1>6. CASE PowerDown
  BY <1>6, PowerDownStep
<1>7. CASE WakeUp \/ MotionBegins \/ RateChanges
  BY <1>7, FlagSteps
<1>8. CASE Sample
  BY <1>8, SampleStep
<1>9. CASE Drain
  BY <1>9, DrainStep
<1>10. CASE Write
  BY <1>10, WriteStep
<1>11. CASE Flush
  BY <1>11, FlushStep
<1>12. CASE Heard
  <2>1. faults' \in 0 .. MaxFaults
    BY <1>12, TypeParts DEF Heard, CountsOK, SentOK
  <2> QED BY <1>12, <2>1, HeadStep DEF Heard
<1>13. CASE Unheard
  <2>1. faults' \in 0 .. MaxFaults
    BY <1>13, FaultStep DEF Unheard
  <2> QED BY <1>13, <2>1, HeadStep DEF Unheard
<1>14. CASE TxFailed
  BY <1>14, TxFailedStep
<1>15. CASE UNCHANGED vars
  <2>1. UNCHANGED <<fifo, half, thread, acc, wheel, due, host, count, rate, active, btn,
                    qdec, sent, faults>>
    BY <1>15 DEF vars
  <2>2. FlagsOK' /\ ThreadTypes' /\ WheelTypes' /\ CountsOK' /\ (acc \in Int)'
    BY <2>1, TypeParts DEF FlagsOK, ThreadTypes, WheelTypes, CountsOK, SentOK
  <2>3. RadioOK' /\ ThreadOK'
    BY <2>1 DEF RadioOK, ThreadOK, IInv
  <2> QED BY <2>1, <2>2, <2>3, SameOrder, SameSums, Together
<1> QED BY <1>1, <1>2, <1>3, <1>4, <1>5, <1>6, <1>7, <1>8, <1>9, <1>10, <1>11, <1>12, <1>13,
           <1>14, <1>15 DEF Next, Thread

\* The inductive invariant, of which the following are parts.
THEOREM Invariance == Spec => []IInv
<1>1. Init => IInv
  BY InitIInv
<1>2. IInv /\ [Next]_vars => IInv'
  BY StepIInv
<1> QED BY <1>1, <1>2, PTL DEF Spec

\* A report has no more of the wheel than its signed byte holds, a half packet is at most
\* one report, and the FIFO and the counter of packets stay within their sizes.
THEOREM TypeCorrect == Spec => []TypeOK
<1>1. IInv => TypeOK
  BY DEF IInv
<1> QED BY <1>1, Invariance, PTL

\* send_mouse_report, send_dual_report, wheel.c and the loss of packets: no turn of the
\* wheel is lost or doubled, whatever interrupts what and whichever write fails.
THEOREM WheelNeverLost == Spec => []WheelConserved
<1>1. IInv => WheelConserved
  BY DEF IInv
<1> QED BY <1>1, Invariance, PTL

\* fast_path_motion_handler and the FIFO: samples arrive once and in order.
THEOREM SamplesInOrder == Spec => []MotionOnce
<1>1. ASSUME IInv PROVE MotionOnce
  <2> DEFINE f == InFifo(fifo)
             t == <<thread.report>>
             l == host.last
             m == count.samples
  <2>1. /\ f \in Seq(Reports) /\ half \in Seq(Reports) /\ t \in Seq(Reports)
        /\ l \in Nat /\ m \in Nat
        /\ Fresh(f, l, m) /\ Fresh(half, l, m) /\ Before(f, half)
        /\ Fresh(t, l, m) /\ Before(f, t) /\ Before(half, t)
    BY <1>1, OrderFacts
  <2> HIDE DEF f, t, l, m
  <2>2. Cat(f, half) \in Seq(Reports)
    BY <2>1, CatElements
  <2>3. Fresh(Cat(f, half), l, m) /\ Before(Cat(f, half), t)
    BY <2>1, FreshCat, BeforeCatLeft
  <2>4. Fresh(Cat(Cat(f, half), t), l, m)
    BY <2>1, <2>2, <2>3, FreshCat
  <2> QED BY <2>4 DEF Fresh, MotionOnce, Cat, f, t, l
<1>2. IInv => MotionOnce
  BY <1>1
<1> QED BY <1>2, Invariance, PTL

=============================================================================
