------------------------- MODULE HidPipelineProofs --------------------------
(***************************************************************************)
(* The safety invariants of HidPipeline, for every number of buttons, every*)
(* length of the queues, and whatever the host does.                       *)
(*                                                                         *)
(*   sums        weights of events, summed over a queue, by induction;     *)
(*   queues      Leads: what the queued events will make of a session or   *)
(*               of a button;                                              *)
(*   handlers    what every handler of hid_state.c keeps (Keeps, Sends),   *)
(*               and how it turns the state (Turned, Balanced);            *)
(*   device      what usb_state.c answers (Serves, Accepts) and announces; *)
(*   invariant   IInv, and CreditInv with a calm host;                     *)
(*   steps       Dispatch, the steps of the host and the user (PeerStep),  *)
(*               and the passing of time;                                  *)
(*   theorems    at the end.                                               *)
(***************************************************************************)
EXTENDS HidPipeline, FiniteSetTheorems, SequenceTheorems, TLAPS

-----------------------------------------------------------------------------
(* Induction over the natural numbers, and over the subsets of a finite    *)
(* set, in the form of a set that contains them all.                       *)

LEMMA LeastNatural ==
    ASSUME NEW T, T \subseteq Nat, T # {}
    PROVE  \E x \in T : \A y \in T : ~(y < x)
<1>1. \E x \in T : \A y \in T : <<y, x>> \notin OpToRel(<, Nat)
  <2> DEFINE R == OpToRel(<, Nat)
  <2>1. IsWellFoundedOn(R, Nat)
    BY NatLessThanWellFounded
  <2> HIDE DEF R
  <2>2. \E x \in T : \A y \in T : ~(<<y, x>> \in R)
    BY <2>1, WFMin
  <2> QED BY <2>2 DEF R
<1>2. PICK x \in T : \A y \in T : <<y, x>> \notin OpToRel(<, Nat)
  BY <1>1
<1>3. ASSUME NEW y \in T PROVE ~(y < x)
  BY <1>2 DEF OpToRel
<1> QED BY <1>3

LEMMA Induction ==
    ASSUME NEW T, 0 \in T, \A n \in Nat : n \in T => n + 1 \in T
    PROVE  \A n \in Nat : n \in T
<1> SUFFICES ASSUME \E n \in Nat : n \notin T PROVE FALSE
  OBVIOUS
<1>1. PICK n \in Nat \ T : \A m \in Nat \ T : ~(m < n)
  BY LeastNatural
<1>2. n # 0 /\ n - 1 \in Nat /\ n - 1 < n
  BY <1>1
<1>3. n - 1 \in T
  BY <1>1, <1>2
<1> QED BY <1>1, <1>2, <1>3

\* Subsets of a finite set, the smaller ones first.
LEMMA FiniteInduction ==
    ASSUME NEW S, IsFiniteSet(S), NEW G,
           {} \in G, \A T \in SUBSET S : T # {} /\ (\A x \in T : T \ {x} \in G) => T \in G
    PROVE  S \in G
<1> DEFINE N == {n \in Nat : \A T \in SUBSET S : Cardinality(T) = n => T \in G}
<1>1. \A T \in SUBSET S : IsFiniteSet(T) /\ Cardinality(T) \in Nat
  BY FS_Subset, FS_CardinalityType
<1>2. 0 \in N
  BY <1>1, FS_EmptySet
<1>3. ASSUME NEW n \in Nat, n \in N PROVE n + 1 \in N
  <2> SUFFICES ASSUME NEW T \in SUBSET S, Cardinality(T) = n + 1 PROVE T \in G
    OBVIOUS
  <2>1. T # {}
    BY <1>1, FS_EmptySet
  <2>2. ASSUME NEW x \in T PROVE T \ {x} \in G
    <3>1. Cardinality(T \ {x}) = n
      BY <1>1, FS_RemoveElement
    <3> QED BY <1>3, <3>1
  <2> QED BY <2>1, <2>2
<1> HIDE DEF N
<1>4. \A n \in Nat : n \in N
  BY <1>2, <1>3, Induction
<1> QED BY <1>1, <1>4 DEF N

-----------------------------------------------------------------------------
(* SumFunction: the sum over a sequence.                                   *)

Pick(s) == CHOOSE x \in s : TRUE
SumStep(f, g, s) == IF s = {} THEN 0 ELSE f[Pick(s)] + g[s \ {Pick(s)}]

IsSum(f, S, g) == g = [s \in SUBSET S |-> SumStep(f, g, s)]

LEMMA PickIn == \A s : s # {} => Pick(s) \in s
  BY DEF Pick

\* The recursive function behind the sum exists.
LEMMA SumExists ==
    ASSUME NEW f, NEW S, IsFiniteSet(S)
    PROVE  \E g : g = [s \in SUBSET S |-> SumStep(f, g, s)]
<1> DEFINE K(n) == {s \in SUBSET S : Cardinality(s) <= n}
           N == {n \in Nat : \E g : g = [s \in K(n) |-> SumStep(f, g, s)]}
<1>1. \A T \in SUBSET S : IsFiniteSet(T) /\ Cardinality(T) \in Nat /\ Cardinality(T) <= Cardinality(S)
  BY FS_Subset, FS_CardinalityType
<1>2. 0 \in N
  <2> DEFINE g == [s \in K(0) |-> 0]
  <2>1. \A s \in K(0) : s = {}
    BY <1>1, FS_EmptySet
  <2>2. g = [s \in K(0) |-> SumStep(f, g, s)]
    BY <2>1 DEF SumStep
  <2> HIDE DEF g
  <2> QED BY <2>2
<1>3. ASSUME NEW n \in Nat, n \in N PROVE n + 1 \in N
  <2>1. PICK g : g = [s \in K(n) |-> SumStep(f, g, s)]
    BY <1>3
  <2> DEFINE y == [s \in K(n + 1) |-> SumStep(f, g, s)]
  <2>2. \A s \in K(n) : s \in K(n + 1) /\ y[s] = g[s]
    BY <1>1, <2>1
  <2>3. ASSUME NEW s \in K(n + 1) PROVE SumStep(f, g, s) = SumStep(f, y, s)
    <3>1. CASE s = {}
      BY <3>1 DEF SumStep
    <3>2. CASE s # {}
      <4>1. Pick(s) \in s
        BY <3>2, PickIn
      <4>2. s \ {Pick(s)} \in K(n)
        BY <1>1, <4>1, FS_RemoveElement
      <4> QED BY <2>2, <3>2, <4>2 DEF SumStep
    <3> QED BY <3>1, <3>2
  <2>4. y = [s \in K(n + 1) |-> SumStep(f, y, s)]
    BY <2>3
  <2>5. \E z : z = [s \in K(n + 1) |-> SumStep(f, z, s)]
    <3> HIDE DEF y, K
    <3> QED BY <2>4
  <2> QED BY <2>5
<1> HIDE DEF N
<1>4. Cardinality(S) \in N
  BY <1>2, <1>3, Induction, FS_CardinalityType
<1>5. K(Cardinality(S)) = SUBSET S
  BY <1>1
<1> QED BY <1>4, <1>5 DEF N

LEMMA SumDef ==
    ASSUME NEW f, NEW S, IsFiniteSet(S)
    PROVE  \E g : IsSum(f, S, g) /\ SumFunctionOnSet(f, S) = g[S]
<1> DEFINE it == CHOOSE g : g = [s \in SUBSET S |-> SumStep(f, g, s)]
<1>1. it = [s \in SUBSET S |-> SumStep(f, it, s)]
  BY SumExists
<1>2. SumFunctionOnSet(f, S) = it[S]
  BY DEF SumFunctionOnSet, FoldFunctionOnSet, MapThenFoldSet, SumStep, Pick
<1> HIDE DEF it
<1> QED BY <1>1, <1>2 DEF IsSum

LEMMA SumUnique ==
    ASSUME NEW f, NEW S, IsFiniteSet(S), NEW U \in SUBSET S, NEW g, NEW y,
           IsSum(f, S, g), IsSum(f, U, y)
    PROVE  g[U] = y[U]
<1> DEFINE G == {T \in SUBSET U : g[T] = y[T]}
<1>1. {} \in G
  BY DEF SumStep, IsSum
<1>2. ASSUME NEW T \in SUBSET U, T # {}, \A x \in T : T \ {x} \in G PROVE T \in G
  <2>1. Pick(T) \in T
    BY <1>2, PickIn
  <2>2. g[T \ {Pick(T)}] = y[T \ {Pick(T)}]
    BY <1>2, <2>1
  <2>3. g[T] = SumStep(f, g, T) /\ y[T] = SumStep(f, y, T)
    BY DEF IsSum
  <2> QED BY <1>2, <2>2, <2>3 DEF SumStep
<1> HIDE DEF G
<1>3. U \in G
  BY <1>1, <1>2, FiniteInduction, FS_Subset
<1> QED BY <1>3 DEF G

LEMMA SumOne ==
    ASSUME NEW f, NEW S, IsFiniteSet(S), S # {}
    PROVE  SumFunctionOnSet(f, S) = f[Pick(S)] + SumFunctionOnSet(f, S \ {Pick(S)})
<1>1. PICK g : IsSum(f, S, g) /\ SumFunctionOnSet(f, S) = g[S]
  BY SumDef
<1> DEFINE U == S \ {Pick(S)}
<1>2. U \in SUBSET S /\ IsFiniteSet(U)
  BY FS_Subset
<1> HIDE DEF U
<1>3. PICK y : IsSum(f, U, y) /\ SumFunctionOnSet(f, U) = y[U]
  BY <1>2, SumDef
<1>4. g[U] = y[U]
  BY <1>1, <1>2, <1>3, SumUnique
<1>5. g[S] = SumStep(f, g, S)
  BY <1>1 DEF IsSum
<1> QED BY <1>1, <1>3, <1>4, <1>5 DEF SumStep, U

LEMMA SumEmpty == ASSUME NEW f PROVE SumFunctionOnSet(f, {}) = 0
<1>1. IsFiniteSet({})
  BY FS_EmptySet
<1>2. PICK g : IsSum(f, {}, g) /\ SumFunctionOnSet(f, {}) = g[{}]
  BY <1>1, SumDef
<1> QED BY <1>2 DEF SumStep, IsSum

LEMMA SumType ==
    ASSUME NEW f, NEW S, IsFiniteSet(S), \A x \in S : f[x] \in Int
    PROVE  SumFunctionOnSet(f, S) \in Int
<1> DEFINE G == {T \in SUBSET S : SumFunctionOnSet(f, T) \in Int}
<1>1. {} \in G
  BY SumEmpty
<1>2. ASSUME NEW T \in SUBSET S, T # {}, \A x \in T : T \ {x} \in G PROVE T \in G
  <2> DEFINE p == Pick(T)
  <2>1. p \in T /\ IsFiniteSet(T)
    BY <1>2, PickIn, FS_Subset
  <2>2. \A e : SumFunctionOnSet(e, T) = e[p] + SumFunctionOnSet(e, T \ {p})
    BY <1>2, <2>1, SumOne
  <2> HIDE DEF p
  <2> QED BY <1>2, <2>1, <2>2
<1> HIDE DEF G
<1>3. S \in G
  BY <1>1, <1>2, FiniteInduction
<1> QED BY <1>3 DEF G

LEMMA SumAgree ==
    ASSUME NEW f, NEW g, NEW S, IsFiniteSet(S), \A x \in S : f[x] = g[x]
    PROVE  SumFunctionOnSet(f, S) = SumFunctionOnSet(g, S)
<1> DEFINE G == {T \in SUBSET S : SumFunctionOnSet(f, T) = SumFunctionOnSet(g, T)}
<1>1. {} \in G
  BY SumEmpty
<1>2. ASSUME NEW T \in SUBSET S, T # {}, \A x \in T : T \ {x} \in G PROVE T \in G
  <2> DEFINE p == Pick(T)
  <2>1. p \in T /\ IsFiniteSet(T)
    BY <1>2, PickIn, FS_Subset
  <2>2. \A e : SumFunctionOnSet(e, T) = e[p] + SumFunctionOnSet(e, T \ {p})
    BY <1>2, <2>1, SumOne
  <2> HIDE DEF p
  <2> QED BY <1>2, <2>1, <2>2
<1> HIDE DEF G
<1>3. S \in G
  BY <1>1, <1>2, FiniteInduction
<1> QED BY <1>3 DEF G

LEMMA SumWithout ==
    ASSUME NEW f, NEW S, IsFiniteSet(S), \A x \in S : f[x] \in Int
    PROVE  \A x \in S : SumFunctionOnSet(f, S) = f[x] + SumFunctionOnSet(f, S \ {x})
<1> DEFINE Sum(T) == SumFunctionOnSet(f, T)
           G == {T \in SUBSET S : \A x \in T : Sum(T) = f[x] + Sum(T \ {x})}
<1>1. {} \in G
  OBVIOUS
<1>2. ASSUME NEW T \in SUBSET S, T # {}, \A x \in T : T \ {x} \in G PROVE T \in G
  <2> SUFFICES ASSUME NEW x \in T PROVE Sum(T) = f[x] + Sum(T \ {x})
    OBVIOUS
  <2> DEFINE p == Pick(T)
  <2>1. p \in T /\ IsFiniteSet(T)
    BY <1>2, PickIn, FS_Subset
  <2>2. Sum(T) = f[p] + Sum(T \ {p})
    BY <1>2, <2>1, SumOne
  <2> HIDE DEF p
  <2>3. CASE x = p
    BY <2>2, <2>3
  <2>4. CASE x # p
    <3>1. Sum(T \ {p}) = f[x] + Sum((T \ {p}) \ {x})
      BY <1>2, <2>1, <2>4
    <3>2. Sum(T \ {x}) = f[p] + Sum((T \ {x}) \ {p})
      BY <1>2, <2>1, <2>4
    <3>3. (T \ {p}) \ {x} = (T \ {x}) \ {p}
      OBVIOUS
    <3> DEFINE r == Sum((T \ {x}) \ {p})
    <3>4. r \in Int /\ f[x] \in Int /\ f[p] \in Int
      BY <2>1, FS_Subset, SumType
    <3>5. Sum(T \ {p}) = f[x] + r /\ Sum(T \ {x}) = f[p] + r
      BY <3>1, <3>2, <3>3
    <3> HIDE DEF r, Sum
    <3> QED BY <2>2, <3>4, <3>5
  <2> QED BY <2>3, <2>4
<1> HIDE DEF G
<1>3. S \in G
  BY <1>1, <1>2, FiniteInduction
<1> QED BY <1>3 DEF G

LEMMA SumAppend ==
    ASSUME NEW s \in Seq(Int), NEW e \in Int
    PROVE  SumFunction(Append(s, e)) = SumFunction(s) + e
<1> DEFINE n == Len(s)
           t == Append(s, e)
<1>1. /\ n \in Nat /\ t \in Seq(Int) /\ Len(t) = n + 1 /\ t[n + 1] = e
      /\ \A i \in 1 .. n : t[i] = s[i]
  BY AppendProperties, LenProperties
<1>2. /\ DOMAIN s = 1 .. n /\ DOMAIN t = 1 .. n + 1 /\ \A i \in 1 .. n : s[i] \in Int
      /\ \A i \in 1 .. n + 1 : t[i] \in Int
  BY <1>1, LenProperties, ElementOfSeq
<1> HIDE DEF n, t
<1>3. IsFiniteSet(1 .. n + 1) /\ IsFiniteSet(1 .. n)
  BY <1>1, FS_Interval
<1>4. SumFunctionOnSet(t, 1 .. n + 1) = t[n + 1] + SumFunctionOnSet(t, (1 .. n + 1) \ {n + 1})
  <2>1. n + 1 \in 1 .. n + 1
    BY <1>1
  <2> HIDE DEF n
  <2> QED BY <2>1, <1>2, <1>3, SumWithout
<1>5. (1 .. n + 1) \ {n + 1} = 1 .. n
  BY <1>1
<1>6. SumFunctionOnSet(t, 1 .. n) = SumFunctionOnSet(s, 1 .. n)
  BY <1>1, <1>3, SumAgree
<1>7. SumFunctionOnSet(s, 1 .. n) \in Int
  BY <1>2, <1>3, SumType
<1>8. SumFunction(t) = SumFunctionOnSet(t, 1 .. n + 1) /\ SumFunction(s) = SumFunctionOnSet(s, 1 .. n)
  BY <1>2 DEF SumFunction
<1>9. SumFunction(t) = e + SumFunction(s)
  BY <1>1, <1>4, <1>5, <1>6, <1>8, Zenon
<1>10. SumFunction(t) = SumFunction(s) + e
  BY <1>7, <1>8, <1>9
<1> QED BY <1>10 DEF t

LEMMA SumSeqType == ASSUME NEW s \in Seq(Int) PROVE SumFunction(s) \in Int
<1>1. DOMAIN s = 1 .. Len(s) /\ Len(s) \in Nat /\ \A i \in 1 .. Len(s) : s[i] \in Int
  BY LenProperties, ElementOfSeq
<1>2. IsFiniteSet(1 .. Len(s))
  BY <1>1, FS_Interval
<1> QED BY <1>1, <1>2, SumType DEF SumFunction

LEMMA SumEmptySeq == SumFunction(<<>>) = 0
<1>1. DOMAIN <<>> = {}
  OBVIOUS
<1> QED BY <1>1, SumEmpty DEF SumFunction

LEMMA SumConcat ==
    ASSUME NEW s \in Seq(Int), NEW t \in Seq(Int)
    PROVE  SumFunction(s \o t) = SumFunction(s) + SumFunction(t)
<1> DEFINE N == {n \in Nat : \A u \in Seq(Int) :
                     Len(u) = n => SumFunction(s \o u) = SumFunction(s) + SumFunction(u)}
<1>1. 0 \in N
  <2> SUFFICES ASSUME NEW u \in Seq(Int), Len(u) = 0
               PROVE  SumFunction(s \o u) = SumFunction(s) + SumFunction(u)
    OBVIOUS
  <2>1. u = <<>>
    BY EmptySeq
  <2>2. s \o u = s
    BY <2>1, ConcatEmptySeq
  <2> QED BY <2>1, <2>2, SumEmptySeq, SumSeqType
<1>2. ASSUME NEW n \in Nat, n \in N PROVE n + 1 \in N
  <2> SUFFICES ASSUME NEW u \in Seq(Int), Len(u) = n + 1
               PROVE  SumFunction(s \o u) = SumFunction(s) + SumFunction(u)
    OBVIOUS
  <2>1. u # <<>>
    BY EmptySeq
  <2>2. PICK v \in Seq(Int), e \in Int : u = Append(v, e)
    BY <2>1, SequenceEmptyOrAppend
  <2>3. Len(v) = n
    BY <2>2, AppendProperties, LenProperties
  <2>4. s \o u = Append(s \o v, e)
    <3>1. u = v \o <<e>> /\ <<e>> \in Seq(Int)
      BY <2>2, AppendIsConcat
    <3>2. s \o v \in Seq(Int)
      BY ConcatProperties
    <3>3. Append(s \o v, e) = (s \o v) \o <<e>>
      BY <3>2, AppendIsConcat
    <3>4. s \o (v \o <<e>>) = (s \o v) \o <<e>>
      BY <3>1, ConcatAssociative
    <3> QED BY <3>1, <3>3, <3>4
  <2>5. SumFunction(s \o u) = SumFunction(s \o v) + e
    BY <2>4, SumAppend, ConcatProperties
  <2>6. SumFunction(u) = SumFunction(v) + e
    BY <2>2, SumAppend
  <2>7. SumFunction(s \o v) = SumFunction(s) + SumFunction(v)
    BY <1>2, <2>3
  <2>8. SumFunction(s) \in Int /\ SumFunction(v) \in Int
    BY SumSeqType
  <2> QED BY <2>5, <2>6, <2>7, <2>8
<1> HIDE DEF N
<1>3. Len(t) \in N
  BY <1>1, <1>2, Induction, LenProperties
<1> QED BY <1>3 DEF N

-----------------------------------------------------------------------------
(* Weights of events, summed over a queue: the motion on its way, and the  *)
(* reports of r that wait for their answer.                                *)

Weigh(q, w) == SumFunction([i \in DOMAIN q |-> w[q[i]]])

LEMMA WeightsType ==
    ASSUME NEW q \in Seq(Events), NEW w \in [Events -> Int]
    PROVE  /\ [i \in DOMAIN q |-> w[q[i]]] \in Seq(Int)
           /\ Len([i \in DOMAIN q |-> w[q[i]]]) = Len(q)
<1>1. DOMAIN q = 1 .. Len(q) /\ Len(q) \in Nat /\ \A i \in 1 .. Len(q) : w[q[i]] \in Int
  BY LenProperties, ElementOfSeq
<1> DEFINE v == [i \in DOMAIN q |-> w[q[i]]]
<1>2. v \in [1 .. Len(q) -> Int]
  BY <1>1
<1>3. v \in Seq(Int)
  BY <1>1, <1>2, SeqDef
<1>4. DOMAIN v = 1 .. Len(q)
  BY <1>1
<1> HIDE DEF v
<1>5. Len(v) = Len(q)
  BY <1>1, <1>3, <1>4, LenProperties
<1> QED BY <1>3, <1>5 DEF v

LEMMA WeighType ==
    ASSUME NEW q \in Seq(Events), NEW w \in [Events -> Int]
    PROVE  Weigh(q, w) \in Int
BY WeightsType, SumSeqType DEF Weigh

LEMMA WeighEmpty == ASSUME NEW w PROVE Weigh(<<>>, w) = 0
<1>1. [i \in DOMAIN <<>> |-> w[<<>>[i]]] = <<>>
  OBVIOUS
<1> QED BY <1>1, SumEmptySeq DEF Weigh

LEMMA WeighConcat ==
    ASSUME NEW q \in Seq(Events), NEW u \in Seq(Events), NEW w \in [Events -> Int]
    PROVE  Weigh(q \o u, w) = Weigh(q, w) + Weigh(u, w)
<1> DEFINE a == [i \in DOMAIN q |-> w[q[i]]]
           b == [i \in DOMAIN u |-> w[u[i]]]
           c == [i \in DOMAIN (q \o u) |-> w[(q \o u)[i]]]
<1>1. a \in Seq(Int) /\ b \in Seq(Int) /\ Len(a) = Len(q) /\ Len(b) = Len(u)
  BY WeightsType
<1>2. /\ q \o u \in Seq(Events) /\ Len(q \o u) = Len(q) + Len(u)
      /\ Len(q) \in Nat /\ Len(u) \in Nat
      /\ DOMAIN q = 1 .. Len(q) /\ DOMAIN u = 1 .. Len(u)
      /\ DOMAIN (q \o u) = 1 .. Len(q) + Len(u)
      /\ \A i \in 1 .. Len(q) + Len(u) :
            (q \o u)[i] = IF i <= Len(q) THEN q[i] ELSE u[i - Len(q)]
  BY ConcatProperties, LenProperties
<1>3. c \in Seq(Int) /\ Len(c) = Len(q) + Len(u)
  BY <1>2, WeightsType
<1>4. a \o b \in Seq(Int) /\ Len(a \o b) = Len(q) + Len(u)
  <2> HIDE DEF a, b
  <2>1. a \in Seq(Int) /\ b \in Seq(Int)
    BY <1>1
  <2>2. a \o b \in Seq(Int) /\ Len(a \o b) = Len(a) + Len(b)
    BY <2>1, ConcatProperties
  <2> QED BY <1>1, <2>2
<1>5. \A i \in 1 .. Len(q) + Len(u) : c[i] = (a \o b)[i]
  <2> TAKE i \in 1 .. Len(q) + Len(u)
  <2>1. c[i] = w[IF i <= Len(q) THEN q[i] ELSE u[i - Len(q)]]
    BY <1>2
  <2>2. (a \o b)[i] = IF i <= Len(q) THEN a[i] ELSE b[i - Len(q)]
    <3> HIDE DEF a, b
    <3> QED BY <1>1, <1>2, ConcatProperties
  <2> QED BY <1>2, <2>1, <2>2
<1>6. c = a \o b
  <2> DEFINE ab == a \o b
  <2> HIDE DEF a, b, c, ab
  <2> SUFFICES c = ab
    BY DEF ab
  <2>1. ab \in Seq(Int) /\ Len(ab) = Len(q) + Len(u)
    BY <1>4 DEF ab
  <2>2. \A i \in 1 .. Len(q) + Len(u) : c[i] = ab[i]
    BY <1>5 DEF ab
  <2> QED BY <1>3, <2>1, <2>2, SeqEqual
<1> HIDE DEF a, b, c
<1>7. SumFunction(c) = SumFunction(a) + SumFunction(b)
  BY <1>1, <1>6, SumConcat
<1> QED BY <1>7 DEF Weigh, a, b, c

LEMMA WeighOne ==
    ASSUME NEW e \in Events, NEW w \in [Events -> Int]
    PROVE  Weigh(<<e>>, w) = w[e]
<1>1. [i \in DOMAIN <<e>> |-> w[<<e>>[i]]] = Append(<<>>, w[e])
  OBVIOUS
<1>2. <<>> \in Seq(Int)
  BY EmptySeq
<1>3. w[e] \in Int
  OBVIOUS
<1>4. SumFunction(Append(<<>>, w[e])) = SumFunction(<<>>) + w[e]
  BY <1>2, <1>3, SumAppend
<1> QED BY <1>1, <1>3, <1>4, SumEmptySeq DEF Weigh

LEMMA WeighAppend ==
    ASSUME NEW q \in Seq(Events), NEW e \in Events, NEW w \in [Events -> Int]
    PROVE  Weigh(Append(q, e), w) = Weigh(q, w) + w[e]
<1>1. Append(q, e) = q \o <<e>> /\ <<e>> \in Seq(Events)
  BY AppendIsConcat
<1> QED BY <1>1, WeighConcat, WeighOne

LEMMA WeighHead ==
    ASSUME NEW q \in Seq(Events), q # <<>>, NEW w \in [Events -> Int]
    PROVE  Weigh(q, w) = w[Head(q)] + Weigh(Tail(q), w)
<1>1. Head(q) \in Events /\ Tail(q) \in Seq(Events) /\ q = <<Head(q)>> \o Tail(q)
  BY HeadTailProperties
<1>2. <<Head(q)>> \in Seq(Events)
  BY <1>1
<1> QED BY <1>1, <1>2, WeighConcat, WeighOne

\* A sum of natural numbers is one.
LEMMA SumNatural ==
    ASSUME NEW f, NEW S, IsFiniteSet(S), \A x \in S : f[x] \in Nat
    PROVE  SumFunctionOnSet(f, S) \in Nat
<1> DEFINE G == {T \in SUBSET S : SumFunctionOnSet(f, T) \in Nat}
<1>1. {} \in G
  BY SumEmpty
<1>2. ASSUME NEW T \in SUBSET S, T # {}, \A x \in T : T \ {x} \in G PROVE T \in G
  <2> DEFINE p == Pick(T)
  <2>1. p \in T /\ IsFiniteSet(T)
    BY <1>2, PickIn, FS_Subset
  <2>2. SumFunctionOnSet(f, T) = f[p] + SumFunctionOnSet(f, T \ {p})
    BY <1>2, <2>1, SumOne
  <2> HIDE DEF p
  <2> QED BY <1>2, <2>1, <2>2
<1> HIDE DEF G
<1>3. S \in G
  BY <1>1, <1>2, FiniteInduction
<1> QED BY <1>3 DEF G

LEMMA WeighNatural ==
    ASSUME NEW q \in Seq(Events), NEW w \in [Events -> Nat]
    PROVE  Weigh(q, w) \in Nat
<1>1. DOMAIN q = 1 .. Len(q) /\ Len(q) \in Nat /\ \A i \in 1 .. Len(q) : w[q[i]] \in Nat
  BY LenProperties, ElementOfSeq
<1>2. IsFiniteSet(1 .. Len(q))
  BY <1>1, FS_Interval
<1> DEFINE v == [i \in DOMAIN q |-> w[q[i]]]
<1>3. DOMAIN v = 1 .. Len(q) /\ \A i \in 1 .. Len(q) : v[i] \in Nat
  BY <1>1
<1> HIDE DEF v
<1>4. SumFunction(v) \in Nat
  BY <1>2, <1>3, SumNatural DEF SumFunction
<1> QED BY <1>4 DEF Weigh, v

-----------------------------------------------------------------------------
(* What a queue will do to a state it changes: Leads(q, T, a, b) holds if  *)
(* the events of q can take it from a to b, where T[e] is the set of the   *)
(* changes that e may make.                                                *)

Via(q, T, z) == \A i \in 1 .. Len(q) : <<z[i], z[i + 1]>> \in T[q[i]]
Leads(q, T, a, b) == \E z : z[1] = a /\ z[Len(q) + 1] = b /\ Via(q, T, z)

LEMMA LeadsNone == ASSUME NEW T, NEW a PROVE Leads(<<>>, T, a, a)
<1> DEFINE z == [i \in {1} |-> a]
<1>1. z[1] = a /\ Len(<<>>) = 0
  OBVIOUS
<1> HIDE DEF z
<1> QED BY <1>1 DEF Leads, Via

LEMMA LeadsEmpty == ASSUME NEW T, NEW a, NEW b, Leads(<<>>, T, a, b) PROVE a = b
BY DEF Leads

LEMMA LeadsAppend ==
    ASSUME NEW X, NEW q \in Seq(X), NEW e \in X, NEW T, NEW a, NEW b, NEW c,
           Leads(q, T, a, c), <<c, b>> \in T[e]
    PROVE  Leads(Append(q, e), T, a, b)
<1>1. PICK z : z[1] = a /\ z[Len(q) + 1] = c /\ Via(q, T, z)
  BY DEF Leads
<1> DEFINE n == Len(q)
           p == Append(q, e)
           y == [i \in 1 .. n + 2 |-> IF i = n + 2 THEN b ELSE z[i]]
<1>2. n \in Nat /\ Len(p) = n + 1 /\ p[n + 1] = e /\ \A i \in 1 .. n : p[i] = q[i]
  BY LenProperties, AppendProperties
<1>3. y[n + 2] = b /\ \A i \in 1 .. n + 1 : y[i] = z[i]
  BY <1>2
<1> HIDE DEF n, p, y
<1>4. \A i \in 1 .. n : <<z[i], z[i + 1]>> \in T[q[i]]
  BY <1>1 DEF Via, n
<1>5. z[n + 1] = c
  BY <1>1 DEF n
<1>6. ASSUME NEW i \in 1 .. n + 1 PROVE <<y[i], y[i + 1]>> \in T[p[i]]
  <2>1. CASE i = n + 1
    <3>1. i + 1 = n + 2 /\ y[i] = c
      BY <1>2, <1>3, <1>5, <2>1
    <3> QED BY <1>2, <1>3, <2>1, <3>1
  <2>2. CASE i # n + 1
    <3>1. i \in 1 .. n /\ i + 1 \in 1 .. n + 1
      BY <1>2, <2>2
    <3> QED BY <1>2, <1>3, <1>4, <3>1
  <2> QED BY <2>1, <2>2
<1>7. y[1] = a /\ y[Len(p) + 1] = b
  BY <1>1, <1>2, <1>3
<1>8. Via(p, T, y)
  BY <1>2, <1>6 DEF Via
<1> QED BY <1>7, <1>8 DEF Leads, p

\* The states on the way stay in a set that the first n events do not leave.
LEMMA Stays ==
    ASSUME NEW q, NEW T, NEW z, Via(q, T, z), Len(q) \in Nat, NEW S, z[1] \in S,
           NEW n \in 0 .. Len(q),
           \A i \in 1 .. n : \A c \in S : \A d : <<c, d>> \in T[q[i]] => d \in S
    PROVE  \A j \in 1 .. n + 1 : z[j] \in S
<1> DEFINE N == {m \in Nat : m <= n => z[m + 1] \in S}
<1>1. 0 \in N
  OBVIOUS
<1>2. ASSUME NEW m \in Nat, m \in N PROVE m + 1 \in N
  <2> SUFFICES ASSUME m + 1 <= n PROVE z[m + 2] \in S
    OBVIOUS
  <2>1. z[m + 1] \in S /\ m + 1 \in 1 .. n /\ m + 1 \in 1 .. Len(q)
    BY <1>2
  <2>2. <<z[m + 1], z[(m + 1) + 1]>> \in T[q[m + 1]]
    BY <2>1 DEF Via
  <2>3. (m + 1) + 1 = m + 2
    OBVIOUS
  <2> QED BY <2>1, <2>2, <2>3
<1> HIDE DEF N
<1>3. \A m \in Nat : m \in N
  BY <1>1, <1>2, Induction
<1>4. ASSUME NEW j \in 1 .. n + 1 PROVE z[j] \in S
  <2>1. j - 1 \in N /\ j - 1 <= n /\ (j - 1) + 1 = j
    BY <1>3
  <2> QED BY <2>1 DEF N
<1> QED BY <1>4

LEMMA LeadsStays ==
    ASSUME NEW q, NEW T, NEW a, NEW b, Leads(q, T, a, b), Len(q) \in Nat, NEW S, a \in S,
           \A i \in 1 .. Len(q) : \A c \in S : \A d : <<c, d>> \in T[q[i]] => d \in S
    PROVE  b \in S
<1>1. PICK z : z[1] = a /\ z[Len(q) + 1] = b /\ Via(q, T, z)
  BY DEF Leads
<1>2. z[1] \in S
  BY <1>1
<1>3. \A j \in 1 .. Len(q) + 1 : z[j] \in S
  <2> DEFINE n == Len(q)
  <2>1. n \in 0 .. Len(q)
    OBVIOUS
  <2> QED BY <1>1, <1>2, <2>1, Stays
<1> QED BY <1>1, <1>3

LEMMA LeadsSuffix ==
    ASSUME NEW X, NEW q \in Seq(X), NEW T, NEW z, Via(q, T, z), NEW b, z[Len(q) + 1] = b,
           NEW i \in 0 .. Len(q)
    PROVE  Leads(SubSeq(q, i + 1, Len(q)), T, z[i + 1], b)
<1> DEFINE n == Len(q) - i
           p == SubSeq(q, i + 1, Len(q))
           y == [j \in 1 .. n + 1 |-> z[i + j]]
<1>1. Len(q) \in Nat /\ n \in Nat
  BY LenProperties
<1>2. Len(p) = n /\ \A j \in 1 .. n : p[j] = q[i + j]
  <2>1. i + 1 \in Int /\ Len(q) \in Int /\ \A j \in i + 1 .. Len(q) : q[j] \in X
    BY <1>1, ElementOfSeq
  <2>2. Len(p) = IF i + 1 <= Len(q) THEN Len(q) - (i + 1) + 1 ELSE 0
    BY <1>1, <2>1, SubSeqProperties
  <2>3. \A j \in 1 .. Len(q) - (i + 1) + 1 : p[j] = q[(i + 1) + j - 1]
    BY <1>1, <2>1, SubSeqProperties
  <2>4. \A j \in 1 .. n : (i + 1) + j - 1 = i + j /\ j \in 1 .. Len(q) - (i + 1) + 1
    BY <1>1
  <2>5. Len(p) = n
    BY <1>1, <2>2
  <2> QED BY <2>3, <2>4, <2>5
<1>3. \A j \in 1 .. n + 1 : y[j] = z[i + j]
  OBVIOUS
<1>4. i + (n + 1) = Len(q) + 1
  BY <1>1
<1> HIDE DEF n, p, y
<1>5. ASSUME NEW j \in 1 .. n PROVE <<y[j], y[j + 1]>> \in T[p[j]]
  <2>1. j \in 1 .. n + 1 /\ j + 1 \in 1 .. n + 1 /\ i + j \in 1 .. Len(q) /\ i + (j + 1) = (i + j) + 1
    BY <1>1, <1>4
  <2>2. y[j] = z[i + j] /\ y[j + 1] = z[(i + j) + 1] /\ p[j] = q[i + j]
    BY <1>2, <1>3, <2>1
  <2> QED BY <2>1, <2>2 DEF Via
<1>6. y[1] = z[i + 1] /\ y[n + 1] = b
  BY <1>1, <1>3, <1>4
<1>7. Via(p, T, y)
  BY <1>2, <1>5 DEF Via
<1> QED BY <1>2, <1>6, <1>7 DEF Leads, p

LEMMA LeadsHead ==
    ASSUME NEW X, NEW q \in Seq(X), q # <<>>, NEW T, NEW a, NEW b, Leads(q, T, a, b)
    PROVE  \E c : <<a, c>> \in T[Head(q)] /\ Leads(Tail(q), T, c, b)
<1>1. PICK z : z[1] = a /\ z[Len(q) + 1] = b /\ Via(q, T, z)
  BY DEF Leads
<1>2. Len(q) \in Nat /\ Len(q) >= 1 /\ Head(q) = q[1]
  BY LenProperties, EmptySeq
<1>3. Leads(SubSeq(q, 1 + 1, Len(q)), T, z[1 + 1], b)
  <2> DEFINE i == 1
  <2>1. i \in 0 .. Len(q)
    BY <1>2
  <2> HIDE DEF i
  <2>2. Leads(SubSeq(q, i + 1, Len(q)), T, z[i + 1], b)
    BY <1>1, <2>1, LeadsSuffix
  <2> QED BY <2>2 DEF i
<1>4. SubSeq(q, 1 + 1, Len(q)) = Tail(q)
  BY TailIsSubSeq
<1>5. <<z[1], z[1 + 1]>> \in T[q[1]]
  <2>1. 1 \in 1 .. Len(q)
    BY <1>2
  <2> QED BY <1>1, <2>1 DEF Via
<1> QED BY <1>1, <1>2, <1>3, <1>4, <1>5

LEMMA LeadsConcat ==
    ASSUME NEW X, NEW q \in Seq(X), NEW u \in Seq(X), NEW T, NEW a, NEW b, NEW c,
           Leads(q, T, a, c), Leads(u, T, c, b)
    PROVE  Leads(q \o u, T, a, b)
<1>1. PICK z : z[1] = a /\ z[Len(q) + 1] = c /\ Via(q, T, z)
  BY DEF Leads
<1>2. PICK y : y[1] = c /\ y[Len(u) + 1] = b /\ Via(u, T, y)
  BY DEF Leads
<1> DEFINE n == Len(q)
           m == Len(u)
           p == q \o u
           x == [i \in 1 .. n + m + 1 |-> IF i <= n THEN z[i] ELSE y[i - n]]
<1>3. /\ n \in Nat /\ m \in Nat /\ Len(p) = n + m
      /\ \A i \in 1 .. n + m : p[i] = IF i <= n THEN q[i] ELSE u[i - n]
  BY LenProperties, ConcatProperties
<1>4. \A i \in 1 .. n + m + 1 : x[i] = IF i <= n THEN z[i] ELSE y[i - n]
  OBVIOUS
<1> HIDE DEF n, m, p, x
<1>5. x[n + 1] = y[1] /\ y[1] = c /\ z[n + 1] = c /\ x[n + m + 1] = b /\ x[1] = a
  <2>1. n + 1 \in 1 .. n + m + 1 /\ ~(n + 1 <= n) /\ (n + 1) - n = 1
    BY <1>3
  <2>2. n + m + 1 \in 1 .. n + m + 1 /\ ~(n + m + 1 <= n) /\ (n + m + 1) - n = m + 1
    BY <1>3
  <2>3. x[n + 1] = y[1]
    BY <1>4, <2>1
  <2>4. x[n + m + 1] = b
    BY <1>2, <1>4, <2>2 DEF m
  <2>5. x[1] = a
    <3>1. 1 \in 1 .. n + m + 1
      BY <1>3
    <3>2. CASE n = 0
      BY <1>1, <1>2, <2>3, <3>2 DEF n
    <3>3. CASE n # 0
      BY <1>1, <1>3, <1>4, <3>1, <3>3
    <3> QED BY <3>2, <3>3
  <2> QED BY <1>1, <1>2, <2>3, <2>4, <2>5 DEF n
<1>6. ASSUME NEW i \in 1 .. n + m PROVE <<x[i], x[i + 1]>> \in T[p[i]]
  <2>1. CASE i < n
    <3>1. i \in 1 .. n /\ i <= n /\ i + 1 <= n /\ i \in 1 .. n + m + 1 /\ i + 1 \in 1 .. n + m + 1
      BY <1>3, <2>1
    <3>2. x[i] = z[i] /\ x[i + 1] = z[i + 1] /\ p[i] = q[i]
      BY <1>3, <1>4, <3>1
    <3> QED BY <1>1, <3>1, <3>2 DEF Via, n
  <2>2. CASE i = n
    <3>1. i \in 1 .. n /\ i <= n /\ i \in 1 .. n + m + 1
      BY <1>3, <2>2
    <3>2. x[i] = z[i] /\ x[i + 1] = z[i + 1] /\ p[i] = q[i]
      BY <1>3, <1>4, <1>5, <2>2, <3>1
    <3> QED BY <1>1, <3>1, <3>2 DEF Via, n
  <2>3. CASE i > n
    <3>1. /\ i - n \in 1 .. m /\ ~(i <= n) /\ ~(i + 1 <= n) /\ (i + 1) - n = (i - n) + 1
          /\ i \in 1 .. n + m + 1 /\ i + 1 \in 1 .. n + m + 1
      BY <1>3, <2>3
    <3>2. x[i] = y[i - n] /\ x[i + 1] = y[(i - n) + 1] /\ p[i] = u[i - n]
      BY <1>3, <1>4, <3>1
    <3> QED BY <1>2, <3>1, <3>2 DEF Via, m
  <2> QED BY <1>3, <2>1, <2>2, <2>3
<1>7. Via(p, T, x)
  BY <1>3, <1>6 DEF Via
<1> QED BY <1>3, <1>5, <1>7 DEF Leads, p

\* Events that need not change the state.
LEMMA LeadsIdle ==
    ASSUME NEW u, Len(u) \in Nat, NEW T, NEW a, \A i \in 1 .. Len(u) : <<a, a>> \in T[u[i]]
    PROVE  Leads(u, T, a, a)
<1> DEFINE z == [i \in 1 .. Len(u) + 1 |-> a]
<1>1. \A i \in 1 .. Len(u) + 1 : z[i] = a
  OBVIOUS
<1> HIDE DEF z
<1>2. Via(u, T, z)
  <2> SUFFICES ASSUME NEW i \in 1 .. Len(u) PROVE <<z[i], z[i + 1]>> \in T[u[i]]
    BY DEF Via
  <2>1. i \in 1 .. Len(u) + 1 /\ i + 1 \in 1 .. Len(u) + 1
    OBVIOUS
  <2>2. z[i] = a /\ z[i + 1] = a
    BY <1>1, <2>1
  <2> QED BY <2>2
<1>3. z[1] = a /\ z[Len(u) + 1] = a
  <2>1. 1 \in 1 .. Len(u) + 1 /\ Len(u) + 1 \in 1 .. Len(u) + 1
    OBVIOUS
  <2> QED BY <1>1, <2>1
<1> QED BY <1>2, <1>3 DEF Leads

-----------------------------------------------------------------------------
(* The events, and their two weights: the motion that is on its way to the *)
(* USB host, and the reports of r that wait for their answer.              *)

Dx == [e \in Events |-> IF ToUsb(e) THEN e.dx ELSE 0]
Awaiting(r) == [e \in Events |->
                  IF e.t \in {"report", "sent", "failed"} /\ e.l = Usb(r) THEN 1 ELSE 0]

LEMMA EventKinds ==
    ASSUME NEW e \in Events
    PROVE  /\ e.t \in {"report", "sent", "failed", "subscriber", "subscription", "button", "motion"}
           /\ e.t = "report" => e \in HidReports /\ e.l \in ReportStates /\ e.dx \in Int
           /\ e.t \in {"sent", "failed"} => e.l \in {"usb"} \X Reports
           /\ e.t = "subscriber" => e.s \in Subs /\ e.to \in {"on", "off"}
           /\ e.t = "subscription" => e.l \in ReportStates /\ e.to \in {"on", "off"}
           /\ e.t = "button" => e.key \in Keys /\ e.val \in Values
           /\ e.t = "motion" => e.dx \in Motions
BY DEF Events, HidReports

LEMMA DxType == Dx \in [Events -> Int]
BY EventKinds DEF Dx, ToUsb

LEMMA AwaitingType == ASSUME NEW r PROVE Awaiting(r) \in [Events -> Nat]
BY DEF Awaiting

LEMMA AwaitingInt == ASSUME NEW r PROVE Awaiting(r) \in [Events -> Int]
BY DEF Awaiting

LEMMA ReportsAreEvents == ASSUME NEW q \in Seq(HidReports) PROVE q \in Seq(Events)
<1>1. HidReports \subseteq Events
  BY DEF Events
<1>2. Len(q) \in Nat /\ \A i \in 1 .. Len(q) : q[i] \in Events
  BY <1>1, LenProperties, ElementOfSeq
<1>3. q = [i \in 1 .. Len(q) |-> q[i]]
  BY LenProperties
<1> QED BY <1>2, <1>3, SeqDef

LEMMA ReportEvent ==
    ASSUME NEW l \in ReportStates, NEW keys \in SUBSET Keys, NEW dx \in Int
    PROVE  LET e == HidReport(l, keys, dx)
           IN  /\ e \in HidReports /\ e \in Events /\ e.t = "report" /\ e.l = l
               /\ e.keys = keys /\ e.dx = dx
               /\ Dx[e] = IF l[1] = "usb" THEN dx ELSE 0
               /\ \A r \in Reports : Awaiting(r)[e] = IF l = Usb(r) THEN 1 ELSE 0
<1> DEFINE e == HidReport(l, keys, dx)
<1>1. e \in HidReports /\ e.t = "report" /\ e.l = l /\ e.keys = keys /\ e.dx = dx
  BY DEF HidReport, HidReports
<1>2. e \in Events
  BY <1>1 DEF Events
<1> HIDE DEF e
<1>3. Dx[e] = IF l[1] = "usb" THEN dx ELSE 0
  BY <1>1, <1>2 DEF Dx, ToUsb
<1>4. \A r \in Reports : Awaiting(r)[e] = IF l = Usb(r) THEN 1 ELSE 0
  BY <1>1, <1>2 DEF Awaiting
<1> QED BY <1>1, <1>2, <1>3, <1>4 DEF e

LEMMA SentEvent ==
    ASSUME NEW r \in Reports, NEW error \in BOOLEAN
    PROVE  LET e == Sent(r, error)
           IN  /\ e \in Events /\ e.t = (IF error THEN "failed" ELSE "sent") /\ e.l = Usb(r)
               /\ Dx[e] = 0
               /\ \A s \in Reports : Awaiting(s)[e] = IF s = r THEN 1 ELSE 0
<1> DEFINE e == Sent(r, error)
<1>1. e.t = (IF error THEN "failed" ELSE "sent") /\ e.l = Usb(r)
  BY DEF Sent
<1>2. e \in Events
  <2>1. Usb(r) \in {"usb"} \X Reports
    BY DEF Usb
  <2> QED BY <2>1 DEF Sent, Events
<1> HIDE DEF e
<1>3. Dx[e] = 0
  BY <1>1, <1>2 DEF Dx, ToUsb
<1>4. \A s \in Reports : Awaiting(s)[e] = IF s = r THEN 1 ELSE 0
  BY <1>1, <1>2 DEF Awaiting, Usb
<1> QED BY <1>1, <1>2, <1>3, <1>4 DEF e

\* An event that is neither a report nor an answer weighs nothing.
LEMMA OtherEvent ==
    ASSUME NEW e \in Events, e.t \notin {"report", "sent", "failed"}
    PROVE  Dx[e] = 0 /\ \A r \in Reports : Awaiting(r)[e] = 0
BY DEF Dx, ToUsb, Awaiting

-----------------------------------------------------------------------------
(* The state of hid_state.c, whose counters may have any value.            *)
Shapes ==
    [on : SUBSET Subs, report_cnt : [Subs -> Int],
     state : [ReportStates -> {"DISCONNECTED", "IDLE", "BUSY"}], cnt : [ReportStates -> Int],
     upd : SUBSET ReportStates, rd : [ReportStates -> {"none", "data", "empty"}],
     link : ReportStates \union {NoLink}, items : [Keys -> Nat], evq : Seq(Usages),
     axis : Int, out : Seq(HidReports)]

Owed(x, r) == x.cnt[Usb(r)] - Weigh(x.out, Awaiting(r))
Debt(x) == x.report_cnt["usb"]
           - (Weigh(x.out, Awaiting("mouse")) + Weigh(x.out, Awaiting("boot")))
Moving(x) == x.axis + Weigh(x.out, Dx)

Fits(x) == /\ \A s \in Subs : x.report_cnt[s] \in 0 .. Depth(s)
           /\ \A l \in ReportStates : x.cnt[l] \in 0 .. Depth(l[1])

Fresh(x) == \A i \in DOMAIN x.evq : x.evq[i].age = "fresh"
Small(x) == Cardinality(Pressed(x)) <= ItemCountMax

\* What the queued usages make of a button, which may be recorded as down.
UsageStep(key) ==
    [u \in Usages |-> IF u.key # key THEN {<<"up", "up">>, <<"down", "down">>}
                      ELSE IF u.val = 1 THEN {<<"up", "down">>}
                      ELSE {<<"up", "up">>, <<"down", "up">>}]
Level(a) == IF a = "down" THEN 1 ELSE 0
KeyOK(x, key, c) ==
    \E a \in {"up", "down"} : x.items[key] <= Level(a) /\ Leads(x.evq, UsageStep(key), a, c)

(* What no change of the link and no report sent touches: the connections, *)
(* the balance of counted and submitted reports, and the order of usages.  *)
Keeps(x, y) ==
    /\ y \in Shapes
    /\ y.on = x.on
    /\ \A l \in ReportStates : Connected(y, l) = Connected(x, l)
    /\ \A l \in ReportStates : ~Connected(x, l) => y.cnt[l] = x.cnt[l]
    /\ Fits(x) => Fits(y)
    /\ \A r \in Reports : Owed(y, r) = Owed(x, r)
    /\ Debt(y) = Debt(x)
    /\ \A key \in Keys : \A c \in {"up", "down"} : KeyOK(x, key, c) => KeyOK(y, key, c)
    /\ Fresh(x) => Fresh(y)
    /\ Len(y.evq) <= Len(x.evq)
    /\ Small(x) => Small(y)

(* Filling the pipeline of a report state keeps the motion, too.           *)
Sends(x, y) ==
    /\ Keeps(x, y)
    /\ y.link = x.link /\ y.rd = x.rd
    /\ x.link[1] = "usb" => Moving(y) = Moving(x)
    /\ x.link = NoLink => y.items = x.items

LEMMA LenType == ASSUME NEW x \in Shapes PROVE Len(x.evq) \in Nat
<1>1. x.evq \in Seq(Usages)
  BY DEF Shapes
<1> QED BY <1>1, LenProperties

LEMMA SendsSelf == ASSUME NEW x \in Shapes PROVE Sends(x, x)
BY LenType DEF Sends, Keeps

LEMMA SendsTwice ==
    ASSUME NEW x \in Shapes, NEW y, NEW z, Sends(x, y), Sends(y, z)
    PROVE  Sends(x, z)
<1>1. y \in Shapes /\ z \in Shapes
  BY DEF Sends, Keeps
<1>2. Len(x.evq) \in Nat /\ Len(y.evq) \in Nat /\ Len(z.evq) \in Nat
  BY <1>1, LenType
<1> QED BY <1>1, <1>2 DEF Sends, Keeps

LEMMA KeepsTwice ==
    ASSUME NEW x \in Shapes, NEW y, NEW z, Keeps(x, y), Keeps(y, z)
    PROVE  Keeps(x, z)
<1>1. y \in Shapes /\ z \in Shapes
  BY DEF Keeps
<1>2. Len(x.evq) \in Nat /\ Len(y.evq) \in Nat /\ Len(z.evq) \in Nat
  BY <1>1, LenType
<1> QED BY <1>1, <1>2 DEF Keeps

-----------------------------------------------------------------------------
(* Sending a report.                                                       *)

LEMMA ClipType ==
    ASSUME NEW x \in Shapes, NEW l \in ReportStates
    PROVE  Clip(x.axis, IF l[2] = "boot" THEN XYMaxBoot ELSE XYMax) \in Int
<1>1. x.axis \in Int /\ XYMaxBoot \in Int /\ XYMax \in Int
  BY PipelineAssumption DEF Shapes
<1> QED BY <1>1 DEF Clip

LEMMA SendReportFields ==
    ASSUME NEW x \in Shapes, NEW l \in ReportStates, NEW y, y = SendReport(x, l)
    PROVE  \E dx \in Int, keys \in SUBSET Keys :
               /\ x.rd[l] = "empty" => dx = 0
               /\ y.on = x.on /\ y.state = x.state /\ y.rd = x.rd /\ y.link = x.link
               /\ y.items = x.items /\ y.evq = x.evq
               /\ y.axis = x.axis - dx
               /\ y.cnt = [x.cnt EXCEPT ![l] = @ + 1]
               /\ y.report_cnt = [x.report_cnt EXCEPT ![l[1]] = @ + 1]
               /\ y.out = Append(x.out, HidReport(l, keys, dx))
               /\ y \in Shapes
<1> DEFINE dx == IF x.rd[l] = "empty" THEN 0
                 ELSE Clip(x.axis, IF l[2] = "boot" THEN XYMaxBoot ELSE XYMax)
           keys == IF x.rd[l] = "empty" THEN {} ELSE Pressed(x)
<1>1. dx \in Int
  BY ClipType
<1>2. keys \in SUBSET Keys
  BY DEF Pressed, Held
<1>3. l[1] \in Subs
  BY DEF ReportStates
<1>4. HidReport(l, keys, dx) \in HidReports
  BY <1>1, <1>2, ReportEvent
<1>5. Append(x.out, HidReport(l, keys, dx)) \in Seq(HidReports)
  <2>1. x.out \in Seq(HidReports)
    BY DEF Shapes
  <2> QED BY <1>4, <2>1, AppendProperties
<1>6. x.rd[l] = "empty" => dx = 0
  OBVIOUS
<1>7. y = [x EXCEPT !.axis = @ - dx,
                    !.upd = IF x.rd[l] = "empty" \/ x.axis = dx THEN @ \ {l} ELSE @ \union {l},
                    !.cnt[l] = @ + 1, !.report_cnt[l[1]] = @ + 1,
                    !.out = Append(@, HidReport(l, keys, dx))]
  BY DEF SendReport
<1> HIDE DEF dx, keys
<1>8. /\ y.on = x.on /\ y.state = x.state /\ y.rd = x.rd /\ y.link = x.link
      /\ y.items = x.items /\ y.evq = x.evq
      /\ y.axis = x.axis - dx
      /\ y.cnt = [x.cnt EXCEPT ![l] = @ + 1]
      /\ y.report_cnt = [x.report_cnt EXCEPT ![l[1]] = @ + 1]
      /\ y.out = Append(x.out, HidReport(l, keys, dx))
  BY <1>7 DEF Shapes
<1>9. y \in Shapes
  <2> DEFINE u == IF x.rd[l] = "empty" \/ x.axis = dx THEN x.upd \ {l} ELSE x.upd \union {l}
             n == [x.cnt EXCEPT ![l] = @ + 1]
             m == [x.report_cnt EXCEPT ![l[1]] = @ + 1]
             o == Append(x.out, HidReport(l, keys, dx))
             a == x.axis - dx
  <2>1. u \in SUBSET ReportStates /\ n \in [ReportStates -> Int] /\ m \in [Subs -> Int]
        /\ o \in Seq(HidReports) /\ a \in Int
    BY <1>1, <1>3, <1>5 DEF Shapes
  <2>2. y = [x EXCEPT !.axis = a, !.upd = u, !.cnt = n, !.report_cnt = m, !.out = o]
    BY <1>7 DEF Shapes
  <2> HIDE DEF u, n, m, o, a
  <2> QED BY <2>1, <2>2 DEF Shapes
<1> QED BY <1>1, <1>2, <1>6, <1>8, <1>9

LEMMA SendReportSends ==
    ASSUME NEW x \in Shapes, NEW l \in ReportStates, Connected(x, l), HasRoom(x, l),
           x.rd[l] = "empty" \/ x.link = l
    PROVE  Sends(x, SendReport(x, l))
<1> DEFINE y == SendReport(x, l)
<1> HIDE DEF y
<1>1. PICK dx \in Int, keys \in SUBSET Keys :
               /\ x.rd[l] = "empty" => dx = 0
               /\ y.on = x.on /\ y.state = x.state /\ y.rd = x.rd /\ y.link = x.link
               /\ y.items = x.items /\ y.evq = x.evq
               /\ y.axis = x.axis - dx
               /\ y.cnt = [x.cnt EXCEPT ![l] = @ + 1]
               /\ y.report_cnt = [x.report_cnt EXCEPT ![l[1]] = @ + 1]
               /\ y.out = Append(x.out, HidReport(l, keys, dx))
               /\ y \in Shapes
  BY SendReportFields DEF y
<1> DEFINE e == HidReport(l, keys, dx)
<1>2. /\ x.cnt \in [ReportStates -> Int] /\ x.report_cnt \in [Subs -> Int] /\ x.axis \in Int
      /\ x.out \in Seq(HidReports) /\ l[1] \in Subs
  BY DEF Shapes, ReportStates
<1>3. x.out \in Seq(Events)
  BY <1>2, ReportsAreEvents
<1>4. /\ e \in Events /\ Dx[e] = (IF l[1] = "usb" THEN dx ELSE 0)
      /\ \A r \in Reports : Awaiting(r)[e] = IF l = Usb(r) THEN 1 ELSE 0
  BY ReportEvent
<1> HIDE DEF e
<1>5. y.out = Append(x.out, e)
  BY <1>1 DEF e
<1>6. /\ Weigh(y.out, Dx) = Weigh(x.out, Dx) + Dx[e] /\ Weigh(x.out, Dx) \in Int
      /\ \A r \in Reports : /\ Weigh(y.out, Awaiting(r)) = Weigh(x.out, Awaiting(r)) + Awaiting(r)[e]
                            /\ Weigh(x.out, Awaiting(r)) \in Int
  BY <1>3, <1>4, <1>5, WeighAppend, WeighType, DxType, AwaitingInt
<1>7. \A m \in ReportStates : y.cnt[m] = IF m = l THEN x.cnt[m] + 1 ELSE x.cnt[m]
  BY <1>1, <1>2
<1>8. \A s \in Subs : y.report_cnt[s] = IF s = l[1] THEN x.report_cnt[s] + 1 ELSE x.report_cnt[s]
  BY <1>1, <1>2
<1>9. \A m \in ReportStates : Connected(y, m) = Connected(x, m)
  BY <1>1 DEF Connected
<1>10. Fits(x) => Fits(y)
  <2>1. \A s \in Subs : Depth(s) \in Nat
    BY PipelineAssumption DEF Depth
  <2>2. x.cnt[l] < Depth(l[1]) /\ x.report_cnt[l[1]] < Depth(l[1])
    BY DEF HasRoom
  <2> SUFFICES ASSUME Fits(x) PROVE Fits(y)
    OBVIOUS
  <2>3. ASSUME NEW s \in Subs PROVE y.report_cnt[s] \in 0 .. Depth(s)
    <3>1. Depth(s) \in Nat /\ x.report_cnt[s] \in 0 .. Depth(s)
      BY <2>1 DEF Fits
    <3> QED BY <1>8, <2>2, <3>1
  <2>4. ASSUME NEW m \in ReportStates PROVE y.cnt[m] \in 0 .. Depth(m[1])
    <3>1. Depth(m[1]) \in Nat /\ x.cnt[m] \in 0 .. Depth(m[1])
      BY <2>1 DEF Fits, ReportStates
    <3> QED BY <1>7, <2>2, <3>1
  <2> QED BY <2>3, <2>4 DEF Fits
<1>11. ASSUME NEW r \in Reports PROVE Owed(y, r) = Owed(x, r)
  <2>1. Usb(r) \in ReportStates
    BY DEF Usb, ReportStates, Reports, Subs
  <2> DEFINE w == Weigh(x.out, Awaiting(r))
             v == Weigh(y.out, Awaiting(r))
             n == x.cnt[Usb(r)]
             m == y.cnt[Usb(r)]
  <2>2. w \in Int /\ n \in Int /\ v = w + Awaiting(r)[e] /\ m = IF Usb(r) = l THEN n + 1 ELSE n
    BY <1>2, <1>6, <1>7, <2>1
  <2>3. Awaiting(r)[e] = IF l = Usb(r) THEN 1 ELSE 0
    BY <1>4
  <2> HIDE DEF w, v, n, m
  <2>4. m - v = n - w
    BY <2>2, <2>3
  <2> QED BY <2>4 DEF Owed, w, v, n, m
<1>12. Debt(y) = Debt(x)
  <2> DEFINE a == Weigh(x.out, Awaiting("mouse"))
             b == Weigh(x.out, Awaiting("boot"))
             c == Weigh(y.out, Awaiting("mouse"))
             d == Weigh(y.out, Awaiting("boot"))
             n == x.report_cnt["usb"]
             m == y.report_cnt["usb"]
  <2>1. a \in Int /\ b \in Int /\ c = a + Awaiting("mouse")[e] /\ d = b + Awaiting("boot")[e]
    BY <1>6 DEF Reports
  <2>2. n \in Int /\ m = IF "usb" = l[1] THEN n + 1 ELSE n
    BY <1>2, <1>8 DEF Subs
  <2>3. Awaiting("mouse")[e] + Awaiting("boot")[e] = IF "usb" = l[1] THEN 1 ELSE 0
    <3>1. /\ Awaiting("mouse")[e] = IF l = Usb("mouse") THEN 1 ELSE 0
          /\ Awaiting("boot")[e] = IF l = Usb("boot") THEN 1 ELSE 0
      BY <1>4 DEF Reports
    <3>2. \/ l = Usb("mouse") /\ l # Usb("boot") /\ l[1] = "usb"
          \/ l = Usb("boot") /\ l # Usb("mouse") /\ l[1] = "usb"
          \/ l # Usb("mouse") /\ l # Usb("boot") /\ l[1] # "usb"
      BY DEF Usb, ReportStates, Reports, Subs
    <3> QED BY <3>1, <3>2
  <2>4. Awaiting("mouse")[e] \in Int /\ Awaiting("boot")[e] \in Int
    BY <1>4 DEF Reports
  <2> DEFINE p == Awaiting("mouse")[e]
             o == Awaiting("boot")[e]
  <2> HIDE DEF a, b, c, d, n, m, p, o
  <2>5. p + o = (IF "usb" = l[1] THEN 1 ELSE 0) /\ p \in Int /\ o \in Int /\ c = a + p /\ d = b + o
    BY <2>1, <2>3, <2>4 DEF p, o
  <2>6. m - (c + d) = n - (a + b)
    BY <2>1, <2>2, <2>5
  <2> QED BY <2>6 DEF Debt, a, b, c, d, n, m
<1>13. ASSUME x.link[1] = "usb" PROVE Moving(y) = Moving(x)
  <2>1. Dx[e] = dx
    <3>1. CASE x.rd[l] = "empty"
      BY <1>1, <1>4, <3>1
    <3>2. CASE x.rd[l] # "empty"
      BY <1>4, <1>13, <3>2
    <3> QED BY <3>1, <3>2
  <2> DEFINE w == Weigh(x.out, Dx)
             v == Weigh(y.out, Dx)
             n == x.axis
             m == y.axis
  <2>2. w \in Int /\ n \in Int /\ v = w + dx /\ m = n - dx
    BY <1>1, <1>2, <1>6, <2>1
  <2> HIDE DEF w, v, n, m
  <2>3. m + v = n + w
    BY <2>2
  <2> QED BY <2>3 DEF Moving, w, v, n, m
<1>14. \A m \in ReportStates : ~Connected(x, m) => y.cnt[m] = x.cnt[m]
  BY <1>7
<1>15. /\ \A key \in Keys : \A c \in {"up", "down"} : KeyOK(x, key, c) => KeyOK(y, key, c)
       /\ Fresh(x) => Fresh(y)
       /\ Small(x) => Small(y)
  BY <1>1 DEF KeyOK, Fresh, Small, Pressed
<1>16. Len(y.evq) <= Len(x.evq)
  BY <1>1, LenType
<1> QED BY <1>1, <1>9, <1>10, <1>11, <1>12, <1>13, <1>14, <1>15, <1>16 DEF Sends, Keeps, y

-----------------------------------------------------------------------------
(* Recorded and queued usages.                                             *)

LEMMA MinIn ==
    ASSUME NEW S, S \subseteq Nat, S # {}
    PROVE  Min(S) \in S /\ \A y \in S : Min(S) <= y
<1>1. PICK x \in S : \A y \in S : ~(y < x)
  BY LeastNatural
<1>2. \A y \in S : x <= y
  BY <1>1
<1> QED BY <1>2 DEF Min

LEMMA HeldFinite ==
    ASSUME NEW items PROVE IsFiniteSet(Held(items)) /\ Cardinality(Held(items)) \in Nat
<1>1. Held(items) \subseteq Keys
  BY DEF Held
<1> QED BY <1>1, PipelineAssumption, FS_Subset, FS_CardinalityType

\* A usage that changes a report keeps its number of pressed usages in bounds.
LEMMA SetKey ==
    ASSUME NEW items \in [Keys -> Nat], NEW key \in Keys, NEW val \in Values,
           Changes(items, key, val)
    PROVE  LET set == KeyValueSet(items, key, val)
           IN  /\ set \in [Keys -> Nat]
               /\ \A k \in Keys : set[k] = IF k = key THEN items[k] + val ELSE items[k]
               /\ Cardinality(Held(items)) <= ItemCountMax => Cardinality(Held(set)) <= ItemCountMax
<1> DEFINE set == KeyValueSet(items, key, val)
<1>1. val = 1 \/ val = -1
  BY DEF Values
<1>2. set = [items EXCEPT ![key] = @ + val]
  BY DEF KeyValueSet
<1> HIDE DEF set
<1>3. \A k \in Keys : set[k] = IF k = key THEN items[k] + val ELSE items[k]
  BY <1>2
<1>4. items[key] > 0 \/ (val > 0 /\ Cardinality(Held(items)) < ItemCountMax)
  BY DEF Changes
<1>5. items[key] + val \in Nat
  BY <1>1, <1>4
<1>6. set \in [Keys -> Nat]
  BY <1>2, <1>5
<1>7. ASSUME Cardinality(Held(items)) <= ItemCountMax
      PROVE  Cardinality(Held(set)) <= ItemCountMax
  <2> DEFINE H == Held(items)
             G == Held(set)
  <2>1. IsFiniteSet(H) /\ Cardinality(H) \in Nat /\ IsFiniteSet(G) /\ Cardinality(G) \in Nat
    BY HeldFinite
  <2>2. CASE items[key] > 0
    <3>1. G \subseteq H
      BY <1>3, <2>2 DEF Held
    <3> HIDE DEF G, H
    <3>2. Cardinality(G) <= Cardinality(H)
      BY <2>1, <3>1, FS_Subset
    <3> QED BY <1>7, <2>1, <3>2, PipelineAssumption DEF G, H
  <2>3. CASE ~(items[key] > 0)
    <3>1. G \subseteq H \union {key} /\ Cardinality(H) < ItemCountMax
      BY <1>3, <1>4, <2>3 DEF Held
    <3>2. key \notin H
      BY <2>3 DEF Held
    <3> HIDE DEF G, H
    <3>3. Cardinality(H \union {key}) = Cardinality(H) + 1 /\ IsFiniteSet(H \union {key})
      BY <2>1, <3>2, FS_AddElement
    <3>4. Cardinality(G) <= Cardinality(H \union {key})
      BY <3>1, <3>3, FS_Subset
    <3>5. ItemCountMax \in Nat
      BY PipelineAssumption
    <3>6. Cardinality(G) <= ItemCountMax
      BY <2>1, <3>1, <3>3, <3>4, <3>5
    <3> QED BY <3>6 DEF G
  <2> QED BY <2>2, <2>3
<1> QED BY <1>3, <1>6, <1>7 DEF set

LEMMA UsageType ==
    ASSUME NEW q \in Seq(Usages), NEW i \in 1 .. Len(q)
    PROVE  q[i] \in Usages /\ q[i].key \in Keys /\ q[i].val \in Values
<1>1. q[i] \in Usages
  BY ElementOfSeq
<1> QED BY <1>1 DEF Usages

LEMMA UsagePlaces ==
    ASSUME NEW key, NEW u \in Usages, NEW c \in {"up", "down"}, NEW d, <<c, d>> \in UsageStep(key)[u]
    PROVE  d \in {"up", "down"}
BY DEF UsageStep

\* Removing usages that have no effect, and recording the next one.
LEMMA ReplayKey ==
    ASSUME NEW q \in Seq(Usages), NEW items \in [Keys -> Nat], NEW i \in 1 .. Len(q),
           NEW set, \A k \in Keys : set[k] = IF k = q[i].key THEN items[k] + q[i].val ELSE items[k],
           Changes(items, q[i].key, q[i].val),
           \A j \in 1 .. i - 1 : ~Changes(items, q[j].key, q[j].val),
           NEW key \in Keys, NEW a \in {"up", "down"}, items[key] <= Level(a),
           NEW c, Leads(q, UsageStep(key), a, c)
    PROVE  \E b \in {"up", "down"} : /\ set[key] <= Level(b)
                                     /\ Leads(SubSeq(q, i + 1, Len(q)), UsageStep(key), b, c)
<1> DEFINE T == UsageStep(key)
<1> HIDE DEF T
<1>1. PICK z : z[1] = a /\ z[Len(q) + 1] = c /\ Via(q, T, z)
  BY DEF Leads, T
<1>2. Len(q) \in Nat /\ i \in Nat /\ \A j \in 1 .. Len(q) : q[j] \in Usages
  BY LenProperties, UsageType
<1>3. i \in 0 .. Len(q)
  BY <1>2
<1>4. Leads(SubSeq(q, i + 1, Len(q)), T, z[i + 1], c)
  BY <1>1, <1>3, LeadsSuffix
<1>5. \A j \in 1 .. Len(q) : \A x \in {"up", "down"} : \A d : <<x, d>> \in T[q[j]] => d \in {"up", "down"}
  BY <1>2, UsagePlaces DEF T
<1>6. z[1] \in {"up", "down"}
  BY <1>1
<1>7. \A j \in 1 .. i + 1 : z[j] \in {"up", "down"}
  <2> DEFINE S == {"up", "down"}
  <2>1. z[1] \in S /\ \A j \in 1 .. i : \A x \in S : \A d : <<x, d>> \in T[q[j]] => d \in S
    BY <1>2, <1>5, <1>6
  <2> HIDE DEF S
  <2>2. \A j \in 1 .. i + 1 : z[j] \in S
    BY <1>1, <1>2, <1>3, <2>1, Stays
  <2> QED BY <2>2 DEF S
<1>8. i + 1 \in 1 .. i + 1 /\ i \in 1 .. i + 1
  BY <1>2
<1>9. z[i + 1] \in {"up", "down"} /\ z[i] \in {"up", "down"} /\ <<z[i], z[i + 1]>> \in T[q[i]]
  BY <1>1, <1>7, <1>8 DEF Via
<1>10. q[i] \in Usages /\ q[i].key \in Keys /\ (q[i].val = 1 \/ q[i].val = -1)
  BY UsageType DEF Values
<1>11. set[key] <= Level(z[i + 1])
  <2>1. CASE items[key] = 0 /\ key # q[i].key
    BY <2>1 DEF Level
  <2>2. CASE items[key] = 0 /\ key = q[i].key
    <3>1. q[i].val = 1
      BY <1>10, <2>2 DEF Changes
    <3>2. z[i + 1] = "down"
      BY <1>9, <1>10, <2>2, <3>1 DEF T, UsageStep
    <3>3. set[key] = 1
      BY <2>2, <3>1
    <3> QED BY <3>2, <3>3 DEF Level
  <2>3. CASE items[key] # 0
    <3>1. items[key] = 1 /\ a = "down"
      BY <2>3 DEF Level
    <3>2. z[i] = "down"
      <4>1. \A j \in 1 .. i - 1 : q[j].key # key
        BY <3>1 DEF Changes
      <4> DEFINE S == {"down"}
                 n == i - 1
      <4>2. \A j \in 1 .. n : \A x \in S : \A d : <<x, d>> \in T[q[j]] => d \in S
        <5> SUFFICES ASSUME NEW j \in 1 .. n, NEW d, <<"down", d>> \in T[q[j]] PROVE d = "down"
          OBVIOUS
        <5>1. q[j] \in Usages /\ q[j].key # key
          BY <1>2, <4>1
        <5> QED BY <5>1 DEF T, UsageStep
      <4>3. z[1] \in S /\ n \in 0 .. Len(q) /\ n + 1 = i /\ i \in 1 .. n + 1
        BY <1>1, <1>2, <3>1
      <4> HIDE DEF S, n
      <4>4. \A j \in 1 .. n + 1 : z[j] \in S
        BY <1>1, <1>2, <4>2, <4>3, Stays
      <4> QED BY <4>3, <4>4 DEF S
    <3>3. CASE key # q[i].key
      <4>1. z[i + 1] = "down"
        BY <1>9, <1>10, <3>2, <3>3 DEF T, UsageStep
      <4> QED BY <3>1, <3>3, <4>1 DEF Level
    <3>4. CASE key = q[i].key
      <4>1. q[i].val # 1
        BY <1>9, <1>10, <3>2, <3>4 DEF T, UsageStep
      <4>2. set[key] = 0
        BY <1>10, <3>1, <3>4, <4>1
      <4> QED BY <4>2 DEF Level
    <3> QED BY <3>3, <3>4
  <2> QED BY <2>1, <2>2, <2>3
<1> QED BY <1>4, <1>9, <1>11 DEF T

LEMMA SuffixType ==
    ASSUME NEW X, NEW q \in Seq(X), NEW i \in 0 .. Len(q)
    PROVE  /\ SubSeq(q, i + 1, Len(q)) \in Seq(X)
           /\ Len(SubSeq(q, i + 1, Len(q))) = Len(q) - i
           /\ \A j \in 1 .. Len(q) - i : SubSeq(q, i + 1, Len(q))[j] = q[i + j] /\ i + j \in 1 .. Len(q)
<1>1. Len(q) \in Nat
  BY LenProperties
<1>2. i + 1 \in Int /\ Len(q) \in Int /\ \A j \in i + 1 .. Len(q) : q[j] \in X
  BY <1>1, ElementOfSeq
<1>3. /\ SubSeq(q, i + 1, Len(q)) \in Seq(X)
      /\ Len(SubSeq(q, i + 1, Len(q))) = IF i + 1 <= Len(q) THEN Len(q) - (i + 1) + 1 ELSE 0
      /\ \A j \in 1 .. Len(q) - (i + 1) + 1 : SubSeq(q, i + 1, Len(q))[j] = q[(i + 1) + j - 1]
  BY <1>2, SubSeqProperties
<1>4. (IF i + 1 <= Len(q) THEN Len(q) - (i + 1) + 1 ELSE 0) = Len(q) - i
  BY <1>1
<1>5. \A j \in 1 .. Len(q) - i : /\ (i + 1) + j - 1 = i + j /\ j \in 1 .. Len(q) - (i + 1) + 1
                                 /\ i + j \in 1 .. Len(q)
  BY <1>1
<1> QED BY <1>3, <1>4, <1>5

LEMMA ReplaySends ==
    ASSUME NEW x \in Shapes, x.link \in ReportStates
    PROVE  Sends(x, Replay(x))
<1> DEFINE y == Replay(x)
           q == x.evq
           Hits == {i \in DOMAIN q : Changes(x.items, q[i].key, q[i].val)}
           i == Min(Hits)
<1>1. q \in Seq(Usages) /\ x.items \in [Keys -> Nat] /\ Len(q) \in Nat /\ DOMAIN q = 1 .. Len(q)
  BY LenType, LenProperties DEF Shapes
<1>2. CASE Hits = {}
  <2>1. y = [x EXCEPT !.evq = <<>>]
    BY <1>2 DEF Replay
  <2> HIDE DEF y
  <2>2. <<>> \in Seq(Usages) /\ Len(<<>>) = 0 /\ DOMAIN <<>> = {}
    BY EmptySeq
  <2>3. /\ y.on = x.on /\ y.link = x.link /\ y.rd = x.rd /\ y.state = x.state /\ y.cnt = x.cnt
        /\ y.report_cnt = x.report_cnt /\ y.out = x.out /\ y.axis = x.axis /\ y.items = x.items
        /\ y.evq = <<>> /\ y \in Shapes
    BY <2>1, <2>2 DEF Shapes
  <2>4. ASSUME NEW key \in Keys, NEW c \in {"up", "down"}, KeyOK(x, key, c) PROVE KeyOK(y, key, c)
    <3>1. PICK a \in {"up", "down"} : x.items[key] <= Level(a) /\ Leads(q, UsageStep(key), a, c)
      BY <2>4 DEF KeyOK
    <3>2. CASE x.items[key] = 0
      <4>1. Leads(<<>>, UsageStep(key), c, c)
        BY LeadsNone
      <4>2. y.items[key] <= Level(c)
        BY <2>3, <3>2 DEF Level
      <4> QED BY <2>3, <4>1, <4>2 DEF KeyOK
    <3>3. CASE x.items[key] # 0
      <4>1. \A j \in 1 .. Len(q) : q[j].key # key
        BY <1>1, <1>2, <3>3 DEF Changes
      <4>2. a = "down"
        BY <1>1, <3>1, <3>3 DEF Level
      <4>3. c = "down"
        <5> DEFINE S == {"down"}
                   T == UsageStep(key)
        <5>1. \A j \in 1 .. Len(q) : \A p \in S : \A d : <<p, d>> \in T[q[j]] => d \in S
          <6> SUFFICES ASSUME NEW j \in 1 .. Len(q), NEW d, <<"down", d>> \in T[q[j]] PROVE d = "down"
            OBVIOUS
          <6>1. q[j] \in Usages /\ q[j].key # key
            BY <1>1, <4>1, UsageType
          <6> QED BY <6>1 DEF UsageStep
        <5>2. a \in S /\ Leads(q, T, a, c)
          BY <3>1, <4>2
        <5> HIDE DEF S, T, q
        <5>3. c \in S
          BY <1>1, <5>1, <5>2, LeadsStays
        <5> QED BY <5>3 DEF S
      <4>4. Leads(<<>>, UsageStep(key), a, a) /\ y.items[key] <= Level(a)
        BY <2>3, <3>1, LeadsNone
      <4> QED BY <2>3, <4>2, <4>3, <4>4 DEF KeyOK
    <3> QED BY <3>2, <3>3
  <2>5. \A l \in ReportStates : Connected(y, l) = Connected(x, l)
    BY <2>3 DEF Connected
  <2>6. Fits(x) => Fits(y)
    BY <2>3 DEF Fits
  <2>7. (\A r \in Reports : Owed(y, r) = Owed(x, r)) /\ Debt(y) = Debt(x) /\ Moving(y) = Moving(x)
    BY <2>3 DEF Owed, Debt, Moving
  <2>8. Fresh(y) /\ (Small(x) => Small(y)) /\ Len(y.evq) <= Len(x.evq)
    BY <1>1, <2>2, <2>3 DEF Fresh, Small, Pressed
  <2>9. Sends(x, y)
    BY <2>3, <2>4, <2>5, <2>6, <2>7, <2>8 DEF Sends, Keeps
  <2> QED BY <2>9 DEF y
<1>3. CASE Hits # {}
  <2>1. Hits \subseteq Nat /\ Hits \subseteq 1 .. Len(q)
    BY <1>1
  <2>2. i \in Hits /\ \A j \in Hits : i <= j
    <3> HIDE DEF Hits
    <3> QED BY <1>3, <2>1, MinIn
  <2> DEFINE p == SubSeq(q, i + 1, Len(q))
             k == q[i].key
             v == q[i].val
             set == KeyValueSet(x.items, k, v)
  <2>3. y = [x EXCEPT !.evq = p, !.items = set, !.upd = @ \union {x.link}]
    BY <1>3 DEF Replay
  <2>4. i \in 1 .. Len(q) /\ Changes(x.items, k, v)
    BY <1>1, <2>2
  <2>5. \A j \in 1 .. i - 1 : ~Changes(x.items, q[j].key, q[j].val)
    <3> SUFFICES ASSUME NEW j \in 1 .. i - 1, Changes(x.items, q[j].key, q[j].val) PROVE FALSE
      OBVIOUS
    <3>1. i \in Nat /\ j \in 1 .. Len(q) /\ ~(i <= j)
      BY <1>1, <2>4
    <3>2. j \in Hits
      BY <1>1, <3>1
    <3> QED BY <2>2, <3>1, <3>2
  <2> HIDE DEF y, i, Hits
  <2>6. k \in Keys /\ v \in Values
    BY <1>1, <2>4, UsageType
  <2> HIDE DEF k, v
  <2>7. /\ set \in [Keys -> Nat]
        /\ \A key \in Keys : set[key] = IF key = k THEN x.items[key] + v ELSE x.items[key]
        /\ Cardinality(Held(x.items)) <= ItemCountMax => Cardinality(Held(set)) <= ItemCountMax
    BY <1>1, <2>4, <2>6, SetKey
  <2> HIDE DEF set
  <2>8. /\ p \in Seq(Usages) /\ Len(p) = Len(q) - i
        /\ \A j \in 1 .. Len(q) - i : p[j] = q[i + j] /\ i + j \in 1 .. Len(q)
    <3>1. i \in 0 .. Len(q)
      BY <2>4
    <3> HIDE DEF q
    <3> QED BY <1>1, <3>1, SuffixType
  <2>9. DOMAIN p = 1 .. Len(p)
    BY <2>8, LenProperties
  <2> HIDE DEF p
  <2>10. /\ y.on = x.on /\ y.link = x.link /\ y.rd = x.rd /\ y.state = x.state /\ y.cnt = x.cnt
         /\ y.report_cnt = x.report_cnt /\ y.out = x.out /\ y.axis = x.axis /\ y.items = set
         /\ y.evq = p /\ y \in Shapes
    <3> DEFINE u == x.upd \union {x.link}
    <3>1. y = [x EXCEPT !.evq = p, !.items = set, !.upd = u] /\ u \in SUBSET ReportStates
      BY <2>3 DEF Shapes
    <3> HIDE DEF u
    <3> QED BY <2>7, <2>8, <3>1 DEF Shapes
  <2>11. ASSUME NEW key \in Keys, NEW c \in {"up", "down"}, KeyOK(x, key, c) PROVE KeyOK(y, key, c)
    <3>1. PICK a \in {"up", "down"} : x.items[key] <= Level(a) /\ Leads(q, UsageStep(key), a, c)
      BY <2>11 DEF KeyOK
    <3> DEFINE its == x.items
    <3>2. its \in [Keys -> Nat] /\ its[key] <= Level(a) /\ Changes(its, q[i].key, q[i].val)
          /\ \A j \in 1 .. i - 1 : ~Changes(its, q[j].key, q[j].val)
      BY <1>1, <2>4, <2>5, <3>1 DEF k, v
    <3>3. \A j \in Keys : set[j] = IF j = q[i].key THEN its[j] + q[i].val ELSE its[j]
      BY <2>7 DEF k, v
    <3>5. q \in Seq(Usages) /\ i \in 1 .. Len(q) /\ Leads(q, UsageStep(key), a, c)
      BY <1>1, <2>4, <3>1
    <3> HIDE DEF its, q
    <3>4. \E b \in {"up", "down"} : /\ set[key] <= Level(b)
                                    /\ Leads(SubSeq(q, i + 1, Len(q)), UsageStep(key), b, c)
      BY <3>2, <3>3, <3>5, ReplayKey
    <3> QED BY <2>10, <3>4 DEF KeyOK, p
  <2>12. \A l \in ReportStates : Connected(y, l) = Connected(x, l)
    BY <2>10 DEF Connected
  <2>13. Fits(x) => Fits(y)
    BY <2>10 DEF Fits
  <2>14. (\A r \in Reports : Owed(y, r) = Owed(x, r)) /\ Debt(y) = Debt(x) /\ Moving(y) = Moving(x)
    BY <2>10 DEF Owed, Debt, Moving
  <2>15. Fresh(x) => Fresh(y)
    BY <1>1, <2>8, <2>9, <2>10 DEF Fresh
  <2>16. (Small(x) => Small(y)) /\ Len(y.evq) <= Len(x.evq)
    BY <1>1, <2>4, <2>7, <2>8, <2>10 DEF Small, Pressed
  <2>17. x.link # NoLink
    BY DEF NoLink, ReportStates, Subs
  <2>18. Sends(x, y)
    BY <2>10, <2>11, <2>12, <2>13, <2>14, <2>15, <2>16, <2>17 DEF Sends, Keeps
  <2> QED BY <2>18 DEF y
<1> QED BY <1>2, <1>3

-----------------------------------------------------------------------------
(* Filling the pipeline.                                                   *)

\* Nothing but the progress of a report state changes.
LEMMA SendsMark ==
    ASSUME NEW x \in Shapes, NEW y \in Shapes,
           y.on = x.on, y.link = x.link, y.rd = x.rd, y.cnt = x.cnt,
           y.report_cnt = x.report_cnt, y.out = x.out, y.axis = x.axis, y.items = x.items,
           y.evq = x.evq, \A l \in ReportStates : Connected(y, l) = Connected(x, l)
    PROVE  Sends(x, y)
<1>1. Fits(x) => Fits(y)
  BY DEF Fits
<1>2. (\A r \in Reports : Owed(y, r) = Owed(x, r)) /\ Debt(y) = Debt(x) /\ Moving(y) = Moving(x)
  BY DEF Owed, Debt, Moving
<1>3. /\ \A key \in Keys : \A c \in {"up", "down"} : KeyOK(x, key, c) => KeyOK(y, key, c)
      /\ (Fresh(x) => Fresh(y)) /\ (Small(x) => Small(y))
  BY DEF KeyOK, Fresh, Small, Pressed
<1>4. Len(y.evq) <= Len(x.evq)
  BY LenType
<1> QED BY <1>1, <1>2, <1>3, <1>4 DEF Sends, Keeps

\* The report state is connected and sends what it may.
Ready(x, l) == Connected(x, l) /\ (x.rd[l] = "empty" \/ x.link = l)

LEMMA ReadyStays ==
    ASSUME NEW x, NEW y, NEW l \in ReportStates, Sends(x, y), Ready(x, l) PROVE Ready(y, l)
BY DEF Sends, Keeps, Ready

LEMMA SendRoundSends ==
    ASSUME NEW x \in Shapes, NEW l \in ReportStates, Ready(x, l), NEW always \in BOOLEAN
    PROVE  Sends(x, SendRound(x, l, always))
<1> DEFINE g == UpdateReport(x, l)
<1>1. Sends(x, g)
  <2>1. CASE x.rd[l] = "empty"
    BY <2>1, SendsSelf DEF UpdateReport
  <2>2. CASE x.rd[l] # "empty"
    <3>1. x.link \in ReportStates
      BY <2>2 DEF Ready
    <3> QED BY <2>2, <3>1, ReplaySends DEF UpdateReport
  <2> QED BY <2>1, <2>2
<1>2. CASE HasRoom(x, l)
  <2>1. g \in Shapes /\ Ready(g, l)
    BY <1>1, ReadyStays DEF Sends, Keeps
  <2>2. HasRoom(g, l)
    <3>1. g.cnt = x.cnt /\ g.report_cnt = x.report_cnt
      BY DEF UpdateReport, Replay, Shapes
    <3> QED BY <1>2, <3>1 DEF HasRoom
  <2> HIDE DEF g
  <2>3. Sends(g, SendReport(g, l))
    BY <2>1, <2>2, SendReportSends DEF Ready
  <2>4. Sends(x, SendReport(g, l))
    BY <1>1, <2>1, <2>3, SendsTwice
  <2> QED BY <1>1, <1>2, <2>4 DEF SendRound, g
<1>3. CASE ~HasRoom(x, l)
  BY <1>3, SendsSelf DEF SendRound
<1> QED BY <1>2, <1>3

LEMMA FillSends ==
    ASSUME NEW x \in Shapes, NEW l \in ReportStates, Ready(x, l), NEW always \in BOOLEAN
    PROVE  Sends(x, FillPipeline(x, l, always))
<1> DEFINE g == SendRound(x, l, always)
<1>1. Sends(x, g)
  BY SendRoundSends
<1>2. g \in Shapes /\ Ready(g, l)
  BY <1>1, ReadyStays DEF Sends, Keeps
<1> HIDE DEF g
<1>3. Sends(g, SendRound(g, l, always))
  BY <1>2, SendRoundSends
<1>4. Sends(x, SendRound(g, l, always))
  BY <1>1, <1>2, <1>3, SendsTwice
<1> QED BY <1>4 DEF FillPipeline, g

LEMMA ReportSendSends ==
    ASSUME NEW x \in Shapes, NEW l \in ReportStates, NEW check \in BOOLEAN, NEW always \in BOOLEAN,
           check \/ Connected(x, l), x.rd[l] = "empty" \/ x.link = l
    PROVE  Sends(x, ReportSend(x, l, check, always))
<1> DEFINE f == FillPipeline(x, l, always)
           b == [f EXCEPT !.state[l] = "BUSY"]
           g == IF check /\ ~Connected(x, l) THEN x ELSE IF f.cnt[l] # 0 THEN b ELSE f
           u == [g EXCEPT !.upd = @ \union {l}]
<1>1. Sends(x, g)
  <2>1. CASE check /\ ~Connected(x, l)
    BY <2>1, SendsSelf
  <2>2. CASE ~(check /\ ~Connected(x, l))
    <3>1. Ready(x, l)
      BY <2>2 DEF Ready
    <3>2. Sends(x, f)
      BY <3>1, FillSends
    <3>3. f \in Shapes /\ Ready(f, l)
      BY <3>1, <3>2, ReadyStays DEF Sends, Keeps
    <3> HIDE DEF f
    <3>4. Sends(f, b)
      <4>1. /\ b \in Shapes /\ b.on = f.on /\ b.link = f.link /\ b.rd = f.rd /\ b.cnt = f.cnt
            /\ b.report_cnt = f.report_cnt /\ b.out = f.out /\ b.axis = f.axis
            /\ b.items = f.items /\ b.evq = f.evq
            /\ b.state = [f.state EXCEPT ![l] = "BUSY"]
        BY <3>3 DEF Shapes
      <4>2. \A m \in ReportStates : Connected(b, m) = Connected(f, m)
        <5>1. f.state \in [ReportStates -> {"DISCONNECTED", "IDLE", "BUSY"}]
          BY <3>3 DEF Shapes
        <5> HIDE DEF b
        <5> QED BY <3>3, <4>1, <5>1 DEF Connected, Ready
      <4> HIDE DEF b
      <4> QED BY <3>3, <4>1, <4>2, SendsMark
    <3>5. Sends(x, b)
      BY <3>2, <3>4, SendsTwice
    <3> QED BY <2>2, <3>2, <3>5
  <2> QED BY <2>1, <2>2
<1>2. g \in Shapes
  BY <1>1 DEF Sends, Keeps
<1>3. ReportSend(x, l, check, always) = IF always /\ g.out = x.out THEN u ELSE g
  BY DEF ReportSend
<1> HIDE DEF g
<1>4. Sends(g, u)
  <2>1. /\ u \in Shapes /\ u.on = g.on /\ u.link = g.link /\ u.rd = g.rd /\ u.cnt = g.cnt
        /\ u.report_cnt = g.report_cnt /\ u.out = g.out /\ u.axis = g.axis
        /\ u.items = g.items /\ u.evq = g.evq /\ u.state = g.state
    BY <1>2 DEF Shapes
  <2>2. \A m \in ReportStates : Connected(u, m) = Connected(g, m)
    BY <2>1 DEF Connected
  <2> HIDE DEF u
  <2> QED BY <1>2, <2>1, <2>2, SendsMark
<1>5. Sends(x, u)
  BY <1>1, <1>4, SendsTwice
<1> QED BY <1>1, <1>3, <1>5

LEMMA DataSends ==
    ASSUME NEW x \in Shapes, NEW check \in BOOLEAN, NEW always \in BOOLEAN,
           Linked(x) => check \/ Connected(x, x.link)
    PROVE  Sends(x, ReportSendData(x, check, always))
<1>1. CASE Linked(x)
  <2> DEFINE l == x.link
  <2>1. l \in ReportStates
    BY <1>1 DEF Linked, Shapes
  <2>2. check \/ Connected(x, l)
    BY <1>1
  <2>3. x.link = l
    OBVIOUS
  <2> HIDE DEF l
  <2>4. Sends(x, ReportSend(x, l, check, always))
    BY <2>1, <2>2, <2>3, ReportSendSends
  <2> QED BY <1>1, <2>4 DEF ReportSendData, l
<1>2. CASE ~Linked(x)
  BY <1>2, SendsSelf DEF ReportSendData
<1> QED BY <1>1, <1>2

\* A report state that is not the linked one has the empty report, or none.
Apart(x) == \A l \in ReportStates : Connected(x, l) /\ ~Linked(x) => x.rd[l] = "empty"

LEMMA TrySendSends ==
    ASSUME NEW x \in Shapes, NEW l \in ReportStates, Apart(x)
    PROVE  Sends(x, TrySend(x, l))
<1>1. CASE Connected(x, l) /\ x.cnt[l] = 0 /\ (x.rd[l] = "empty" \/ ~Linked(x) \/ x.link = l)
  <2>1. x.rd[l] = "empty" \/ x.link = l
    BY <1>1 DEF Apart
  <2>2. Sends(x, ReportSend(x, l, FALSE, FALSE))
    BY <1>1, <2>1, ReportSendSends
  <2> QED BY <1>1, <2>2 DEF TrySend
<1>2. CASE ~(Connected(x, l) /\ x.cnt[l] = 0 /\ (x.rd[l] = "empty" \/ ~Linked(x) \/ x.link = l))
  BY <1>2, SendsSelf DEF TrySend
<1> QED BY <1>1, <1>2

LEMMA AfterType == ASSUME NEW l \in ReportStates PROVE After(l) \in ReportStates
BY DEF After, ReportStates, Reports

LEMMA SendNextSends ==
    ASSUME NEW x \in Shapes, NEW l \in ReportStates, NEW unblocked \in BOOLEAN, Apart(x)
    PROVE  Sends(x, SendNext(x, l, unblocked))
<1> DEFINE f == IF unblocked THEN TrySend(x, After(l)) ELSE x
<1>1. Sends(x, f)
  BY AfterType, TrySendSends, SendsSelf
<1>2. f \in Shapes /\ Apart(f)
  BY <1>1 DEF Sends, Keeps, Apart, Linked
<1>3. SendNext(x, l, unblocked) = IF f.out # x.out THEN f ELSE TrySend(f, l)
  BY DEF SendNext
<1> HIDE DEF f
<1>4. Sends(f, TrySend(f, l))
  BY <1>2, TrySendSends
<1>5. Sends(x, TrySend(f, l))
  BY <1>1, <1>4, SendsTwice
<1> QED BY <1>1, <1>3, <1>5

-----------------------------------------------------------------------------
(* The link.                                                               *)

(* The report data is linked to a connected report state of the highest    *)
(* priority; a report state that is not connected has sent nothing.        *)
Routed(x) ==
    /\ \A l \in ReportStates : Connected(x, l) = (x.rd[l] # "none")
    /\ \A l \in ReportStates : Connected(x, l) => l[1] \in x.on
    /\ \A l \in ReportStates : ~Connected(x, l) => x.cnt[l] = 0
    /\ Linked(x) => /\ Connected(x, x.link) /\ x.rd[x.link] = "data"
                    /\ \A l \in ReportStates :
                          Connected(x, l) => Priority(l[1]) <= Priority(x.link[1])
    /\ ~Linked(x) => /\ \A l \in ReportStates : ~Connected(x, l)
                     /\ x.items = NoItems

LEMMA NoItemsType == NoItems \in [Keys -> Nat] /\ \A k \in Keys : NoItems[k] = 0
BY DEF NoItems

LEMMA LinkType ==
    ASSUME NEW x \in Shapes PROVE Linked(x) => x.link \in ReportStates
BY DEF Linked, Shapes

LEMMA PriorityOf ==
    ASSUME NEW l \in ReportStates
    PROVE  /\ l[1] \in Subs /\ Priority(l[1]) \in {100, 255}
           /\ l[1] = "usb" => Priority(l[1]) = 255
           /\ l[1] = "esb" => Priority(l[1]) = 100
<1>1. l[1] \in Subs
  BY DEF ReportStates
<1> QED BY <1>1 DEF Priority

LEMMA SmallNone ==
    ASSUME NEW x, x.items = NoItems PROVE Small(x)
<1>1. Held(NoItems) = {}
  BY NoItemsType DEF Held
<1>2. Cardinality(Held(NoItems)) = 0
  BY <1>1, FS_EmptySet
<1> QED BY <1>2, PipelineAssumption DEF Small, Pressed

Recorded(x, y) == \/ y.items = NoItems /\ y.evq = <<>>
                  \/ y.items = x.items /\ y.evq = x.evq

\* Dropping the report data, or only relinking it, keeps the rest.
LEMMA KeepsRoute ==
    ASSUME NEW x \in Shapes, NEW y \in Shapes,
           y.on = x.on, y.state = x.state, y.cnt = x.cnt, y.report_cnt = x.report_cnt,
           y.out = x.out,
           Recorded(x, y)
    PROVE  Keeps(x, y)
<1>1. \A l \in ReportStates : Connected(y, l) = Connected(x, l)
  BY DEF Connected
<1>2. Fits(x) => Fits(y)
  BY DEF Fits
<1>3. (\A r \in Reports : Owed(y, r) = Owed(x, r)) /\ Debt(y) = Debt(x)
  BY DEF Owed, Debt
<1>4. CASE y.items = x.items /\ y.evq = x.evq
  <2>1. /\ \A key \in Keys : \A c \in {"up", "down"} : KeyOK(x, key, c) => KeyOK(y, key, c)
        /\ (Fresh(x) => Fresh(y)) /\ (Small(x) => Small(y))
    BY <1>4 DEF KeyOK, Fresh, Small, Pressed
  <2>2. Len(y.evq) <= Len(x.evq)
    BY <1>4, LenType
  <2> QED BY <1>1, <1>2, <1>3, <2>1, <2>2 DEF Keeps
<1>5. CASE y.items = NoItems /\ y.evq = <<>>
  <2>1. ASSUME NEW key \in Keys, NEW c \in {"up", "down"} PROVE KeyOK(y, key, c)
    <3>1. Leads(<<>>, UsageStep(key), c, c)
      BY LeadsNone
    <3>2. y.items[key] <= Level(c)
      BY <1>5, NoItemsType DEF Level
    <3> QED BY <1>5, <3>1, <3>2 DEF KeyOK
  <2>2. Fresh(y)
    BY <1>5 DEF Fresh
  <2>3. Len(y.evq) <= Len(x.evq)
    BY <1>5, LenType
  <2> QED BY <1>1, <1>2, <1>3, <1>5, <2>1, <2>2, <2>3, SmallNone DEF Keeps
<1> QED BY <1>4, <1>5 DEF Recorded

LEMMA SendsRouted ==
    ASSUME NEW x \in Shapes, Routed(x), NEW y, Sends(x, y) PROVE Routed(y)
<1>1. Linked(x) => x.link \in ReportStates
  BY LinkType
<1>2. x.link = NoLink => y.items = x.items
  BY DEF Sends
<1>3. /\ y.on = x.on /\ y.link = x.link /\ y.rd = x.rd
      /\ \A l \in ReportStates : Connected(y, l) = Connected(x, l)
      /\ \A l \in ReportStates : ~Connected(x, l) => y.cnt[l] = x.cnt[l]
  BY DEF Sends, Keeps
<1> QED BY <1>1, <1>2, <1>3 DEF Routed, Linked

LEMMA RoutedApart == ASSUME NEW x, Routed(x) PROVE Apart(x)
BY DEF Routed, Apart

-----------------------------------------------------------------------------
(* Cleaning up the event queue removes events at its front.                *)

LEMMA MaxIn ==
    ASSUME NEW n \in Nat, NEW S \in SUBSET (1 .. n), S # {}
    PROVE  Max(S) \in S
<1> DEFINE U == {k \in Nat : \A y \in S : y <= k}
<1>1. n \in U
  OBVIOUS
<1>2. U \subseteq Nat /\ U # {}
  BY <1>1
<1>3. \E k \in U : \A y \in U : ~(y < k)
  <2> HIDE DEF U
  <2> QED BY <1>2, LeastNatural
<1>4. PICK k \in U : \A y \in U : ~(y < k)
  BY <1>3
<1>5. k \in S
  <2>1. PICK y \in S : TRUE
    OBVIOUS
  <2>2. k \in Nat /\ k >= 1 /\ y <= k /\ y >= 1
    BY <1>4
  <2>3. k - 1 \in Nat /\ k - 1 \notin U
    BY <1>4, <2>2
  <2>4. PICK z \in S : ~(z <= k - 1)
    BY <2>3
  <2>5. z <= k /\ z \in Nat
    BY <1>4
  <2>6. z = k
    BY <2>2, <2>4, <2>5
  <2> QED BY <2>6
<1>6. \A y \in S : k >= y
  BY <1>4
<1> HIDE DEF U
<1> QED BY <1>5, <1>6 DEF Max

LEMMA PurgedType ==
    ASSUME NEW q, NEW n \in Nat PROVE Purged(q, n) \in 0 .. n
<1> DEFINE Downs(c) == {i \in 1 .. c : q[i].val > 0}
           maxfound(c) == Max({1} \union {PairOf(q, n, i) : i \in Downs(c)})
           Ends == {c \in 1 .. n : /\ \A i \in Downs(c) : PairOf(q, n, i) # 0
                                   /\ c = maxfound(c)}
<1>1. Purged(q, n) = IF Ends = {} THEN 0 ELSE Max(Ends)
  BY DEF Purged
<1>2. Ends \in SUBSET (1 .. n)
  OBVIOUS
<1> HIDE DEF Ends
<1>3. Ends # {} => Max(Ends) \in 1 .. n
  BY <1>2, MaxIn
<1> QED BY <1>1, <1>3

LEMMA ExpiredType ==
    ASSUME NEW q \in Seq(Usages)
    PROVE  /\ ExpiredCount(q) \in 0 .. Len(q)
           /\ (\A i \in DOMAIN q : q[i].age = "fresh") => ExpiredCount(q) = 0
<1>1. Len(q) \in Nat /\ DOMAIN q = 1 .. Len(q)
  BY LenProperties
<1> DEFINE O == {i \in DOMAIN q : q[i].age = "old"}
<1>2. O \subseteq 1 .. Len(q)
  BY <1>1
<1>3. IsFiniteSet(1 .. Len(q)) /\ Cardinality(1 .. Len(q)) = Len(q)
  <2>1. 1 \in Int /\ Len(q) \in Int
    BY <1>1
  <2>2. IsFiniteSet(1 .. Len(q)) /\ Cardinality(1 .. Len(q)) = IF 1 > Len(q) THEN 0 ELSE Len(q) - 1 + 1
    BY <2>1, FS_Interval
  <2> QED BY <1>1, <2>2
<1>4. (\A i \in DOMAIN q : q[i].age = "fresh") => O = {}
  OBVIOUS
<1>5. ExpiredCount(q) = Cardinality(O)
  BY DEF ExpiredCount
<1> HIDE DEF O
<1>6. IsFiniteSet(O) /\ Cardinality(O) <= Len(q) /\ Cardinality(O) \in Nat
  BY <1>2, <1>3, FS_Subset, FS_CardinalityType
<1>7. O = {} => Cardinality(O) = 0
  BY FS_EmptySet
<1> QED BY <1>1, <1>4, <1>5, <1>6, <1>7

AllFresh(q) == \A i \in DOMAIN q : q[i].age = "fresh"
\* No usage of p is missing that is the last of its key in q.
Tails(p, q) ==
    /\ p \in Seq(Usages) /\ Len(p) <= Len(q)
    /\ AllFresh(q) => AllFresh(p)
    /\ \A key \in Keys : \A a \in {"up", "down"} : \A c :
          Leads(q, UsageStep(key), a, c) =>
              \E b \in {"up", "down"} : Leads(p, UsageStep(key), b, c)

LEMMA CleanupTails ==
    ASSUME NEW q \in Seq(Usages), NEW n \in 0 .. Len(q)
    PROVE  Tails(Cleanup(q, n), q) /\ (n = 0 => Cleanup(q, n) = q)
<1> DEFINE i == Purged(q, n)
           p == SubSeq(q, i + 1, Len(q))
<1>1. Len(q) \in Nat /\ n \in Nat /\ DOMAIN q = 1 .. Len(q) /\ Cleanup(q, n) = p
  BY LenProperties DEF Cleanup
<1>2. i \in 0 .. n
  BY <1>1, PurgedType
<1> HIDE DEF i
<1>3. i \in 0 .. Len(q)
  BY <1>1, <1>2
<1>4. /\ p \in Seq(Usages) /\ Len(p) = Len(q) - i
      /\ \A j \in 1 .. Len(q) - i : p[j] = q[i + j] /\ i + j \in 1 .. Len(q)
  BY <1>3, SuffixType
<1>5. DOMAIN p = 1 .. Len(p)
  <2> HIDE DEF p
  <2> QED BY <1>4, LenProperties
<1>6. Len(p) <= Len(q)
  <2> HIDE DEF p
  <2> QED BY <1>1, <1>3, <1>4
<1>7. AllFresh(q) => AllFresh(p)
  <2> HIDE DEF p
  <2> QED BY <1>1, <1>4, <1>5 DEF AllFresh
<1>8. ASSUME NEW key \in Keys, NEW a \in {"up", "down"}, NEW c, Leads(q, UsageStep(key), a, c)
      PROVE  \E b \in {"up", "down"} : Leads(p, UsageStep(key), b, c)
  <2> DEFINE T == UsageStep(key)
             S == {"up", "down"}
  <2>1. PICK z : z[1] = a /\ z[Len(q) + 1] = c /\ Via(q, T, z)
    BY <1>8 DEF Leads
  <2>2. \A j \in 1 .. i : \A x \in S : \A d : <<x, d>> \in T[q[j]] => d \in S
    <3> SUFFICES ASSUME NEW j \in 1 .. i, NEW x \in S, NEW d, <<x, d>> \in T[q[j]] PROVE d \in S
      OBVIOUS
    <3>1. j \in 1 .. Len(q)
      BY <1>1, <1>3
    <3>2. q[j] \in Usages
      BY <3>1, UsageType
    <3> QED BY <3>2, UsagePlaces
  <2>3. z[1] \in S
    BY <2>1
  <2> HIDE DEF T, S
  <2>4. \A j \in 1 .. i + 1 : z[j] \in S
    BY <1>1, <1>3, <2>1, <2>2, <2>3, Stays
  <2>5. z[i + 1] \in S
    BY <1>3, <2>4
  <2>6. Leads(p, T, z[i + 1], c)
    BY <1>3, <2>1, LeadsSuffix
  <2> QED BY <2>5, <2>6 DEF T, S
<1>9. n = 0 => p = q
  <2>1. SubSeq(q, 1, Len(q)) = q
    BY SubSeqFull
  <2> QED BY <1>2, <2>1
<1> QED BY <1>1, <1>4, <1>6, <1>7, <1>8, <1>9 DEF Tails

-----------------------------------------------------------------------------
(* Changes of the link.                                                    *)

\* An unlinked report data with no item is linked to l.
LEMMA LinkToKeeps ==
    ASSUME NEW x \in Shapes, NEW l \in ReportStates, Connected(x, l), x.items = NoItems
    PROVE  LET y == LinkTo(x, l)
           IN  Keeps(x, y) /\ y.link = l /\ y.rd = x.rd
<1> DEFINE q == x.evq
           p == Cleanup(q, ExpiredCount(q))
           g == [x EXCEPT !.link = l, !.axis = 0, !.evq = p]
           y == ReportSendData(g, FALSE, TRUE)
<1>1. q \in Seq(Usages)
  BY DEF Shapes
<1>2. Tails(p, q)
  <2> HIDE DEF q
  <2> QED BY <1>1, ExpiredType, CleanupTails
<1>3. p \in Seq(Usages)
  BY <1>2 DEF Tails
<1>4. LinkTo(x, l) = y
  BY DEF LinkTo, Shapes
<1> HIDE DEF p
<1>11. g \in Shapes
  <2> DEFINE o == 0
  <2>1. g = [x EXCEPT !.link = l, !.axis = o, !.evq = p] /\ o \in Int
    OBVIOUS
  <2> HIDE DEF g, o
  <2> QED BY <1>3, <2>1 DEF Shapes
<1>5. /\ g \in Shapes /\ g.on = x.on /\ g.state = x.state /\ g.cnt = x.cnt
      /\ g.report_cnt = x.report_cnt /\ g.out = x.out /\ g.items = x.items /\ g.evq = p
      /\ g.link = l /\ g.rd = x.rd
  BY <1>11 DEF Shapes
<1> HIDE DEF g, y
<1>6. \A m \in ReportStates : Connected(g, m) = Connected(x, m)
  BY <1>5 DEF Connected
<1>7. ASSUME NEW key \in Keys, NEW c \in {"up", "down"}, KeyOK(x, key, c) PROVE KeyOK(g, key, c)
  <2>1. PICK a \in {"up", "down"} : Leads(q, UsageStep(key), a, c)
    BY <1>7 DEF KeyOK
  <2>2. PICK b \in {"up", "down"} : Leads(p, UsageStep(key), b, c)
    BY <1>2, <2>1 DEF Tails
  <2>3. g.items[key] <= Level(b)
    BY <1>5, NoItemsType DEF Level
  <2> QED BY <1>5, <2>2, <2>3 DEF KeyOK
<1>8. Keeps(x, g)
  <2>1. Fits(x) => Fits(g)
    BY <1>5 DEF Fits
  <2>2. (\A r \in Reports : Owed(g, r) = Owed(x, r)) /\ Debt(g) = Debt(x)
    BY <1>5 DEF Owed, Debt
  <2>3. Fresh(x) => Fresh(g)
    BY <1>2, <1>5 DEF Fresh, Tails, AllFresh
  <2>4. Len(g.evq) <= Len(x.evq)
    BY <1>2, <1>5 DEF Tails
  <2>5. Small(x) => Small(g)
    BY <1>5 DEF Small, Pressed
  <2> QED BY <1>5, <1>6, <1>7, <2>1, <2>2, <2>3, <2>4, <2>5 DEF Keeps
<1>9. Sends(g, y)
  BY <1>5, <1>6, DataSends DEF y
<1>10. Keeps(x, y)
  BY <1>8, <1>9, KeepsTwice DEF Sends
<1> QED BY <1>4, <1>5, <1>9, <1>10 DEF Sends

LEMMA ClearFields ==
    ASSUME NEW x \in Shapes
    PROVE  LET y == ClearReportData(x)
           IN  /\ y \in Shapes /\ y.on = x.on /\ y.state = x.state /\ y.cnt = x.cnt
               /\ y.report_cnt = x.report_cnt /\ y.out = x.out /\ y.link = x.link
               /\ y.rd = x.rd /\ y.upd = x.upd
               /\ y.items = NoItems /\ y.evq = <<>> /\ y.axis = 0
<1> DEFINE e == <<>>
           o == 0
           y == ClearReportData(x)
<1>1. /\ e \in Seq(Usages) /\ o \in Int
      /\ y = [x EXCEPT !.items = NoItems, !.evq = e, !.axis = o]
  BY EmptySeq DEF ClearReportData
<1>2. e = <<>> /\ o = 0
  OBVIOUS
<1> HIDE DEF e, o, y
<1>3. y \in Shapes
  BY <1>1, NoItemsType DEF Shapes
<1>4. /\ y.on = x.on /\ y.state = x.state /\ y.cnt = x.cnt
      /\ y.report_cnt = x.report_cnt /\ y.out = x.out /\ y.link = x.link
      /\ y.rd = x.rd /\ y.upd = x.upd
      /\ y.items = NoItems /\ y.evq = e /\ y.axis = o
  BY <1>1 DEF Shapes
<1> QED BY <1>2, <1>3, <1>4 DEF y

LEMMA ForceUnlinkKeeps ==
    ASSUME NEW x \in Shapes, x.link \in ReportStates
    PROVE  LET y == ForceUnlink(x)
           IN  /\ Keeps(x, y) /\ y.link = NoLink /\ y.rd = [x.rd EXCEPT ![x.link] = "empty"]
               /\ y.items = NoItems
<1> DEFINE k == ClearReportData(x)
           u == x.upd \union {x.link}
           e == [x.rd EXCEPT ![x.link] = "empty"]
           g == [k EXCEPT !.link = NoLink, !.upd = u, !.rd = e]
           l == x.link
           y == ReportSend(g, l, TRUE, FALSE)
<1>1. /\ k \in Shapes /\ k.on = x.on /\ k.state = x.state /\ k.cnt = x.cnt
      /\ k.report_cnt = x.report_cnt /\ k.out = x.out
      /\ k.items = NoItems /\ k.evq = <<>>
  BY ClearFields
<1>2. ForceUnlink(x) = y
  BY DEF ForceUnlink, ClearReportData, Shapes
<1>3. u \in SUBSET ReportStates /\ e \in [ReportStates -> {"none", "data", "empty"}] /\ e[l] = "empty"
  BY DEF Shapes
<1> HIDE DEF k, u, e
<1>4. /\ g \in Shapes /\ g.on = x.on /\ g.state = x.state /\ g.cnt = x.cnt
      /\ g.report_cnt = x.report_cnt /\ g.out = x.out /\ g.items = NoItems /\ g.evq = <<>>
      /\ g.link = NoLink /\ g.rd = e
  BY <1>1, <1>3 DEF Shapes
<1> HIDE DEF g
<1>5. Keeps(x, g)
  <2>1. Recorded(x, g)
    BY <1>4 DEF Recorded
  <2> QED BY <1>4, <2>1, KeepsRoute
<1>6. Sends(g, y)
  <2>1. l \in ReportStates /\ g.rd[l] = "empty"
    BY <1>3, <1>4
  <2> HIDE DEF l
  <2> QED BY <1>4, <2>1, ReportSendSends DEF y
<1> HIDE DEF y
<1>7. Keeps(x, y)
  BY <1>5, <1>6, KeepsTwice DEF Sends
<1>8. y.link = NoLink /\ y.rd = e /\ y.items = NoItems
  BY <1>4, <1>6 DEF Sends
<1> QED BY <1>2, <1>7, <1>8 DEF e

LEMMA RelinkKeeps ==
    ASSUME NEW x \in Shapes, NEW next \in ReportStates \union {NoLink}
    PROVE  LET y == Relink(x, next)
           IN  /\ Keeps(x, y) /\ y.link = next
               /\ next = NoLink => y.rd = x.rd /\ y.items = NoItems
               /\ next # NoLink => y.rd = [x.rd EXCEPT ![next] = "data"]
<1> DEFINE k == ClearReportData(x)
           g == [k EXCEPT !.link = next]
           f == [g EXCEPT !.rd[next] = "data"]
           y == Relink(x, next)
<1>1. /\ k \in Shapes /\ k.on = x.on /\ k.state = x.state /\ k.cnt = x.cnt
      /\ k.report_cnt = x.report_cnt /\ k.out = x.out /\ k.rd = x.rd
      /\ k.items = NoItems /\ k.evq = <<>>
  BY ClearFields
<1>2. y = IF next = NoLink THEN g ELSE ReportSendData(f, TRUE, TRUE)
  BY DEF Relink
<1> HIDE DEF k, y
<1>3. /\ g \in Shapes /\ g.on = x.on /\ g.state = x.state /\ g.cnt = x.cnt
      /\ g.report_cnt = x.report_cnt /\ g.out = x.out /\ g.items = NoItems /\ g.evq = <<>>
      /\ g.link = next /\ g.rd = x.rd
  BY <1>1 DEF Shapes
<1>4. CASE next = NoLink
  <2>1. Keeps(x, g)
    <3> HIDE DEF g
    <3>1. Recorded(x, g)
      BY <1>3 DEF Recorded
    <3> QED BY <1>3, <3>1, KeepsRoute
  <2> QED BY <1>2, <1>3, <1>4, <2>1 DEF y
<1>5. CASE next # NoLink
  <2>1. next \in ReportStates
    BY <1>5
  <2> HIDE DEF g
  <2>2. /\ f \in Shapes /\ f.on = x.on /\ f.state = x.state /\ f.cnt = x.cnt
        /\ f.report_cnt = x.report_cnt /\ f.out = x.out /\ f.items = NoItems /\ f.evq = <<>>
        /\ f.link = next /\ f.rd = [x.rd EXCEPT ![next] = "data"]
    BY <1>3, <2>1 DEF Shapes
  <2> HIDE DEF f
  <2>3. Keeps(x, f)
    <3>1. Recorded(x, f)
      BY <2>2 DEF Recorded
    <3> QED BY <2>2, <3>1, KeepsRoute
  <2>4. y = ReportSendData(f, TRUE, TRUE)
    BY <1>2, <1>5
  <2>5. Sends(f, y)
    BY <2>2, <2>4, DataSends
  <2>6. Keeps(x, y)
    BY <2>2, <2>3, <2>5, KeepsTwice DEF Sends
  <2> QED BY <1>5, <2>2, <2>5, <2>6 DEF Sends, y
<1> QED BY <1>4, <1>5

LEMMA FindNextType ==
    ASSUME NEW x \in Shapes, NEW former \in ReportStates
    PROVE  LET Users == {l \in ReportStates : l[1] \in x.on /\ x.rd[l] # "none" /\ l # former}
               next == FindNext(x, former)
           IN  /\ Users = {} => next = NoLink
               /\ Users # {} => next \in Users /\ \A m \in Users : Priority(m[1]) <= Priority(next[1])
<1> DEFINE Users == {l \in ReportStates : l[1] \in x.on /\ x.rd[l] # "none" /\ l # former}
           next == FindNext(x, former)
           Best(l) == \A m \in Users : Priority(l[1]) >= Priority(m[1])
<1>1. next = IF Users = {} THEN NoLink ELSE CHOOSE l \in Users : Best(l)
  BY DEF FindNext
<1>2. Users \subseteq ReportStates
  OBVIOUS
<1> HIDE DEF Users, next
<1>3. ASSUME Users # {} PROVE \E l \in Users : Best(l)
  <2>1. \A m \in Users : Priority(m[1]) \in {100, 255}
    BY <1>2, PriorityOf
  <2>2. CASE \E l \in Users : Priority(l[1]) = 255
    <3>1. PICK l \in Users : Priority(l[1]) = 255
      BY <2>2
    <3>2. Best(l)
      BY <2>1, <3>1
    <3> QED BY <3>2
  <2>3. CASE ~\E l \in Users : Priority(l[1]) = 255
    <3>1. PICK l \in Users : TRUE
      BY <1>3
    <3>2. Best(l)
      BY <2>1, <2>3
    <3> QED BY <3>2
  <2> QED BY <2>2, <2>3
<1>4. Users # {} => next \in Users /\ Best(next)
  BY <1>1, <1>3
<1>5. Users # {} => \A m \in Users : Priority(m[1]) <= Priority(next[1])
  <2> SUFFICES ASSUME Users # {}, NEW m \in Users PROVE Priority(m[1]) <= Priority(next[1])
    OBVIOUS
  <2>1. Priority(m[1]) \in {100, 255} /\ Priority(next[1]) \in {100, 255}
    BY <1>2, <1>4, PriorityOf
  <2> QED BY <1>4, <2>1
<1> QED BY <1>1, <1>4, <1>5 DEF Users, next

-----------------------------------------------------------------------------
(* Subscribers and subscriptions.  A handler turns x to a state c in which *)
(* nothing is sent yet, and only keeps c from then on.                     *)


LEMMA ConnectTurns ==
    ASSUME NEW x \in Shapes, Routed(x), NEW l \in ReportStates, l[1] \in x.on, ~Connected(x, l)
    PROVE  LET y == Connect(x, l)
               c == [x EXCEPT !.state[l] = "IDLE", !.rd[l] = "data"]
           IN  /\ c \in Shapes /\ c.out = x.out /\ c.items = x.items /\ c.evq = x.evq
               /\ c.on = x.on /\ c.report_cnt = x.report_cnt /\ c.cnt = x.cnt
               /\ \A m \in ReportStates : Connected(c, m) = (m = l \/ Connected(x, m))
               /\ Keeps(c, y) /\ Routed(y)
<1> DEFINE c == [x EXCEPT !.state[l] = "IDLE", !.rd[l] = "data"]
           f == ForceUnlink(c)
           u == IF Outranks(c, l[1]) THEN f ELSE c
           k == LinkTo(u, l)
           y == Connect(x, l)
<1>1. /\ c \in Shapes /\ c.out = x.out /\ c.items = x.items /\ c.evq = x.evq
      /\ c.on = x.on /\ c.report_cnt = x.report_cnt /\ c.cnt = x.cnt /\ c.link = x.link
      /\ c.rd = [x.rd EXCEPT ![l] = "data"] /\ c.state = [x.state EXCEPT ![l] = "IDLE"]
  BY DEF Shapes
<1>2. y = IF Linked(u) THEN u ELSE k
  BY DEF Connect
<1>3. x.rd \in [ReportStates -> {"none", "data", "empty"}]
      /\ x.state \in [ReportStates -> {"DISCONNECTED", "IDLE", "BUSY"}]
  BY DEF Shapes
<1> HIDE DEF c
<1>4. \A m \in ReportStates : Connected(c, m) = (m = l \/ Connected(x, m))
  BY <1>1, <1>3 DEF Connected
<1> HIDE DEF f, y
<1>5. Linked(x) => x.link \in ReportStates /\ x.link # l
  BY LinkType DEF Routed
<1>6. /\ \A m \in ReportStates : Connected(x, m) = (x.rd[m] # "none")
      /\ \A m \in ReportStates : Connected(x, m) => m[1] \in x.on
      /\ \A m \in ReportStates : ~Connected(x, m) => x.cnt[m] = 0
      /\ Linked(x) => /\ Connected(x, x.link) /\ x.rd[x.link] = "data"
                      /\ \A m \in ReportStates :
                            Connected(x, m) => Priority(m[1]) <= Priority(x.link[1])
      /\ ~Linked(x) => (\A m \in ReportStates : ~Connected(x, m)) /\ x.items = NoItems
  BY DEF Routed
<1>7. \A m \in ReportStates : Priority(m[1]) \in {100, 255}
  BY PriorityOf
<1>8. CASE Outranks(c, l[1])
  <2>1. Linked(x) /\ Priority(x.link[1]) < Priority(l[1])
    BY <1>1, <1>8 DEF Outranks, Linked
  <2>2. /\ Keeps(c, f) /\ f.link = NoLink /\ f.rd = [c.rd EXCEPT ![c.link] = "empty"]
        /\ f.items = NoItems
    BY <1>1, <1>5, <2>1, ForceUnlinkKeeps DEF f
  <2>3. f \in Shapes /\ Connected(f, l)
    BY <1>4, <2>2 DEF Keeps
  <2>4. u = f
    BY <1>8
  <2> HIDE DEF u
  <2>5. Keeps(u, k) /\ k.link = l /\ k.rd = u.rd
    BY <2>2, <2>3, <2>4, LinkToKeeps
  <2> HIDE DEF k
  <2>6. y = k
    BY <1>2, <2>2, <2>4 DEF Linked
  <2>7. Keeps(c, y)
    BY <1>1, <2>2, <2>4, <2>5, <2>6, KeepsTwice
  <2>8. Routed(y)
    <3>1. /\ y.link = l /\ y.on = x.on
          /\ \A m \in ReportStates : Connected(y, m) = (m = l \/ Connected(x, m))
          /\ \A m \in ReportStates : ~Connected(y, m) => y.cnt[m] = x.cnt[m]
      BY <1>1, <1>4, <2>5, <2>6, <2>7 DEF Keeps
    <3>2. y.rd = [[x.rd EXCEPT ![l] = "data"] EXCEPT ![x.link] = "empty"]
      BY <1>1, <2>2, <2>4, <2>5, <2>6
    <3>3. \A m \in ReportStates : y.rd[m] = IF m = x.link THEN "empty" ELSE
                                            IF m = l THEN "data" ELSE x.rd[m]
      BY <1>3, <1>5, <2>1, <3>2
    <3>4. Linked(y) /\ y.link = l
      BY <3>1 DEF Linked, NoLink, ReportStates, Subs
    <3>5. \A m \in ReportStates : Connected(y, m) = (y.rd[m] # "none")
      BY <1>5, <1>6, <2>1, <3>1, <3>3
    <3>6. \A m \in ReportStates : Connected(y, m) => m[1] \in y.on
      BY <1>6, <3>1
    <3>7. \A m \in ReportStates : ~Connected(y, m) => y.cnt[m] = 0
      BY <1>6, <3>1
    <3>8. Connected(y, l) /\ y.rd[l] = "data"
      BY <1>5, <2>1, <3>1, <3>3
    <3>9. \A m \in ReportStates : Connected(y, m) => Priority(m[1]) <= Priority(l[1])
      <4>1. \A m \in ReportStates : Connected(x, m) => Priority(m[1]) <= Priority(x.link[1])
        BY <1>6, <2>1
      <4> QED BY <1>5, <1>7, <2>1, <3>1, <4>1
    <3> QED BY <3>4, <3>5, <3>6, <3>7, <3>8, <3>9 DEF Routed
  <2> QED BY <1>1, <1>4, <2>7, <2>8 DEF y, c
<1>9. CASE ~Outranks(c, l[1]) /\ Linked(x)
  <2>1. y = c
    BY <1>1, <1>2, <1>9 DEF Linked
  <2>2. Keeps(c, c)
    BY <1>1, SendsSelf DEF Sends
  <2>3. Priority(l[1]) <= Priority(x.link[1])
    <3>1. ~(Priority(x.link[1]) < Priority(l[1]))
      BY <1>1, <1>9 DEF Outranks, Linked
    <3> QED BY <1>5, <1>7, <1>9, <3>1
  <2>4. \A m \in ReportStates : c.rd[m] = IF m = l THEN "data" ELSE x.rd[m]
    BY <1>1, <1>3
  <2>5. Routed(c)
    <3>1. Linked(c) /\ c.link = x.link
      BY <1>1, <1>9 DEF Linked
    <3>2. \A m \in ReportStates : Connected(c, m) = (c.rd[m] # "none")
      BY <1>4, <1>6, <2>4
    <3>3. \A m \in ReportStates : Connected(c, m) => m[1] \in c.on
      BY <1>1, <1>4, <1>6
    <3>4. \A m \in ReportStates : ~Connected(c, m) => c.cnt[m] = 0
      <4>1. \A m \in ReportStates : ~Connected(c, m) => ~Connected(x, m)
        BY <1>4
      <4>2. c.cnt = x.cnt /\ \A m \in ReportStates : ~Connected(x, m) => x.cnt[m] = 0
        BY <1>1, <1>6
      <4> QED BY <4>1, <4>2
    <3>5. Connected(c, c.link) /\ c.rd[c.link] = "data"
      BY <1>4, <1>5, <1>6, <1>9, <2>4, <3>1
    <3>6. \A m \in ReportStates : Connected(c, m) => Priority(m[1]) <= Priority(c.link[1])
      BY <1>4, <1>6, <1>9, <2>3, <3>1
    <3> QED BY <3>1, <3>2, <3>3, <3>4, <3>5, <3>6 DEF Routed
  <2> QED BY <1>1, <1>4, <2>1, <2>2, <2>5 DEF y, c
<1>10. CASE ~Outranks(c, l[1]) /\ ~Linked(x)
  <2>1. u = c /\ y = k
    BY <1>1, <1>2, <1>10 DEF Linked
  <2> HIDE DEF u
  <2>2. Connected(u, l) /\ u.items = NoItems /\ u \in Shapes
    BY <1>1, <1>4, <1>6, <1>10, <2>1
  <2>3. Keeps(u, k) /\ k.link = l /\ k.rd = u.rd
    BY <2>2, LinkToKeeps
  <2> HIDE DEF k
  <2>4. Routed(y)
    <3>1. /\ y.link = l /\ y.on = x.on /\ y.rd = [x.rd EXCEPT ![l] = "data"]
          /\ \A m \in ReportStates : Connected(y, m) = (m = l \/ Connected(x, m))
          /\ \A m \in ReportStates : ~Connected(y, m) => y.cnt[m] = x.cnt[m]
      BY <1>1, <1>4, <2>1, <2>3 DEF Keeps
    <3>2. \A m \in ReportStates : y.rd[m] = IF m = l THEN "data" ELSE x.rd[m]
      BY <1>3, <3>1
    <3>3. Linked(y)
      BY <3>1 DEF Linked, NoLink, ReportStates, Subs
    <3>4. \A m \in ReportStates : Connected(y, m) = (m = l)
      BY <1>6, <1>10, <3>1
    <3>5. Priority(l[1]) <= Priority(l[1])
      BY <1>7
    <3> QED BY <1>6, <1>10, <3>1, <3>2, <3>3, <3>4, <3>5 DEF Routed
  <2> QED BY <1>1, <1>4, <2>1, <2>3, <2>4 DEF y, c
<1> QED BY <1>8, <1>9, <1>10

LEMMA DisconnectTurns ==
    ASSUME NEW x \in Shapes, Routed(x), NEW l \in ReportStates, Connected(x, l)
    PROVE  LET y == Disconnect(x, l)
               c == [x EXCEPT !.state[l] = "DISCONNECTED", !.cnt[l] = 0, !.rd[l] = "none"]
           IN  /\ c \in Shapes /\ c.out = x.out /\ c.items = x.items /\ c.evq = x.evq
               /\ c.on = x.on /\ c.report_cnt = x.report_cnt
               /\ \A m \in ReportStates : c.cnt[m] = IF m = l THEN 0 ELSE x.cnt[m]
               /\ \A m \in ReportStates : Connected(c, m) = (m # l /\ Connected(x, m))
               /\ Keeps(c, y) /\ Routed(y)
<1> DEFINE c == [x EXCEPT !.state[l] = "DISCONNECTED", !.cnt[l] = 0, !.rd[l] = "none"]
           next == FindNext(c, l)
           k == Relink(c, next)
           y == Disconnect(x, l)
<1>1. /\ c.out = x.out /\ c.items = x.items /\ c.evq = x.evq
      /\ c.on = x.on /\ c.report_cnt = x.report_cnt /\ c.cnt = [x.cnt EXCEPT ![l] = 0]
      /\ c.link = x.link /\ c.rd = [x.rd EXCEPT ![l] = "none"]
      /\ c.state = [x.state EXCEPT ![l] = "DISCONNECTED"]
  BY DEF Shapes
<1>2. c \in Shapes
  <2> DEFINE n == [x.cnt EXCEPT ![l] = 0]
             r == [x.rd EXCEPT ![l] = "none"]
             s == [x.state EXCEPT ![l] = "DISCONNECTED"]
  <2>1. /\ n \in [ReportStates -> Int] /\ r \in [ReportStates -> {"none", "data", "empty"}]
        /\ s \in [ReportStates -> {"DISCONNECTED", "IDLE", "BUSY"}]
    BY DEF Shapes
  <2>2. c = [x EXCEPT !.state = s, !.cnt = n, !.rd = r]
    BY DEF Shapes
  <2> HIDE DEF c, n, r, s
  <2> QED BY <2>1, <2>2 DEF Shapes
<1>3. /\ \A m \in ReportStates : Connected(x, m) = (x.rd[m] # "none")
      /\ \A m \in ReportStates : Connected(x, m) => m[1] \in x.on
      /\ \A m \in ReportStates : ~Connected(x, m) => x.cnt[m] = 0
      /\ Linked(x) => /\ Connected(x, x.link) /\ x.rd[x.link] = "data"
                      /\ \A m \in ReportStates :
                            Connected(x, m) => Priority(m[1]) <= Priority(x.link[1])
      /\ Linked(x)
  BY DEF Routed
<1>4. x.rd \in [ReportStates -> {"none", "data", "empty"}]
      /\ x.state \in [ReportStates -> {"DISCONNECTED", "IDLE", "BUSY"}]
      /\ x.cnt \in [ReportStates -> Int]
  BY DEF Shapes
<1>5. y = IF x.link = l THEN k ELSE c
  BY <1>3 DEF Disconnect
<1> HIDE DEF c, next, y
<1>6. \A m \in ReportStates : /\ Connected(c, m) = (m # l /\ Connected(x, m))
                              /\ c.cnt[m] = IF m = l THEN 0 ELSE x.cnt[m]
                              /\ c.rd[m] = IF m = l THEN "none" ELSE x.rd[m]
  BY <1>1, <1>4 DEF Connected
<1>7. x.link \in ReportStates
  BY <1>3, LinkType
<1>8. CASE x.link # l
  <2>1. y = c
    BY <1>5, <1>8
  <2>2. Keeps(c, c)
    BY <1>2, SendsSelf DEF Sends
  <2>3. Routed(c)
    <3>1. Linked(c) /\ c.link = x.link
      BY <1>1, <1>3 DEF Linked
    <3>2. \A m \in ReportStates : Connected(c, m) = (c.rd[m] # "none")
      BY <1>3, <1>6
    <3>3. \A m \in ReportStates : Connected(c, m) => m[1] \in c.on
      BY <1>1, <1>3, <1>6
    <3>4. \A m \in ReportStates : ~Connected(c, m) => c.cnt[m] = 0
      BY <1>3, <1>6
    <3>5. Connected(c, c.link) /\ c.rd[c.link] = "data"
      BY <1>3, <1>6, <1>7, <1>8, <3>1
    <3>6. \A m \in ReportStates : Connected(c, m) => Priority(m[1]) <= Priority(c.link[1])
      BY <1>3, <1>6, <3>1
    <3> QED BY <3>1, <3>2, <3>3, <3>4, <3>5, <3>6 DEF Routed
  <2> QED BY <1>1, <1>2, <1>6, <2>1, <2>2, <2>3 DEF y, c
<1>9. CASE x.link = l
  <2> DEFINE Users == {m \in ReportStates : m[1] \in c.on /\ c.rd[m] # "none" /\ m # l}
  <2>1. /\ Users = {} => next = NoLink
        /\ Users # {} => next \in Users /\ \A m \in Users : Priority(m[1]) <= Priority(next[1])
    BY <1>2, FindNextType DEF next
  <2>2. \A m \in ReportStates : m \in Users <=> Connected(c, m)
    BY <1>1, <1>3, <1>6
  <2>3. Users \subseteq ReportStates
    OBVIOUS
  <2> HIDE DEF Users
  <2>4. next \in ReportStates \union {NoLink}
    BY <2>1, <2>3
  <2>5. /\ Keeps(c, k) /\ k.link = next
        /\ next = NoLink => k.rd = c.rd /\ k.items = NoItems
        /\ next # NoLink => k.rd = [c.rd EXCEPT ![next] = "data"]
    BY <1>2, <2>4, RelinkKeeps
  <2> HIDE DEF k
  <2>6. y = k
    BY <1>5, <1>9
  <2>7. /\ y.on = c.on /\ \A m \in ReportStates : Connected(y, m) = Connected(c, m)
        /\ \A m \in ReportStates : ~Connected(c, m) => y.cnt[m] = c.cnt[m]
    BY <2>5, <2>6 DEF Keeps
  <2>8. c.rd \in [ReportStates -> {"none", "data", "empty"}]
    BY <1>2 DEF Shapes
  <2>9. Routed(y)
    <3>1. /\ \A m \in ReportStates : Connected(y, m) => m[1] \in y.on
          /\ \A m \in ReportStates : ~Connected(y, m) => y.cnt[m] = 0
      BY <1>1, <1>3, <1>6, <2>7
    <3>2. CASE Users = {}
      <4>1. ~Linked(y) /\ y.items = NoItems /\ y.rd = c.rd
        BY <2>1, <2>5, <2>6, <3>2 DEF Linked
      <4>2. \A m \in ReportStates : ~Connected(y, m) /\ Connected(c, m) = (c.rd[m] # "none")
        BY <1>3, <1>6, <2>2, <2>7, <3>2
      <4> QED BY <2>7, <3>1, <4>1, <4>2 DEF Routed
    <3>3. CASE Users # {}
      <4>1. next \in ReportStates /\ Connected(c, next) /\ next # NoLink
        <5>1. next \in ReportStates
          BY <2>1, <2>3, <3>3
        <5>2. next # NoLink
          BY <5>1 DEF NoLink, ReportStates, Subs
        <5> QED BY <2>1, <2>2, <3>3, <5>1, <5>2
      <4>2. Linked(y) /\ y.link = next
        BY <2>5, <2>6, <4>1 DEF Linked
      <4>3. \A m \in ReportStates : y.rd[m] = IF m = next THEN "data" ELSE c.rd[m]
        BY <2>5, <2>6, <2>8, <4>1
      <4>4. \A m \in ReportStates : Connected(y, m) = (y.rd[m] # "none")
        BY <1>3, <1>6, <2>7, <4>1, <4>3
      <4>5. \A m \in ReportStates : Connected(y, m) => Priority(m[1]) <= Priority(next[1])
        BY <2>1, <2>2, <2>7, <3>3
      <4> QED BY <2>7, <3>1, <4>1, <4>2, <4>3, <4>4, <4>5 DEF Routed
    <3> QED BY <3>2, <3>3
  <2> QED BY <1>1, <1>2, <1>6, <2>5, <2>6, <2>9 DEF y, c
<1> QED BY <1>8, <1>9

LEMMA ConnectSubscriberTurns ==
    ASSUME NEW x \in Shapes, Routed(x), NEW s \in Subs, s \notin x.on
    PROVE  LET y == ConnectSubscriber(x, s)
           IN  /\ y \in Shapes /\ y.out = x.out /\ y.items = x.items /\ y.evq = x.evq
               /\ y.on = x.on \union {s} /\ y.cnt = x.cnt
               /\ \A t \in Subs : y.report_cnt[t] = IF t = s THEN 0 ELSE x.report_cnt[t]
               /\ \A m \in ReportStates : Connected(y, m) = Connected(x, m)
               /\ Routed(y)
<1> DEFINE y == ConnectSubscriber(x, s)
           o == x.on \union {s}
           n == [x.report_cnt EXCEPT ![s] = 0]
<1>1. o \in SUBSET Subs /\ n \in [Subs -> Int]
  BY DEF Shapes
<1>2. y = [x EXCEPT !.on = o, !.report_cnt = n]
  BY DEF ConnectSubscriber, Shapes
<1>3. \A t \in Subs : n[t] = IF t = s THEN 0 ELSE x.report_cnt[t]
  BY DEF Shapes
<1>4. x.on \subseteq o
  OBVIOUS
<1> HIDE DEF y, n
<1>5. /\ y \in Shapes /\ y.out = x.out /\ y.items = x.items /\ y.evq = x.evq /\ y.on = o
      /\ y.cnt = x.cnt /\ y.report_cnt = n /\ y.state = x.state /\ y.rd = x.rd /\ y.link = x.link
  BY <1>1, <1>2 DEF Shapes
<1>6. \A m \in ReportStates : Connected(y, m) = Connected(x, m)
  BY <1>5 DEF Connected
<1> HIDE DEF o
<1>7. Linked(x) => x.link \in ReportStates
  BY LinkType
<1>8. Routed(y)
  BY <1>4, <1>5, <1>6, <1>7 DEF Routed, Linked
<1> QED BY <1>3, <1>5, <1>6, <1>8 DEF y, o

LEMMA DisconnectSubscriberTurns ==
    ASSUME NEW x \in Shapes, Routed(x), NEW s \in Subs, s \in x.on,
           \A l \in ReportStates : l[1] = s => ~Connected(x, l)
    PROVE  LET y == DisconnectSubscriber(x, s)
           IN  /\ y \in Shapes /\ y.out = x.out /\ y.items = x.items /\ y.evq = x.evq
               /\ y.on = x.on \ {s}
               /\ \A t \in Subs : y.report_cnt[t] = IF t = s THEN 0 ELSE x.report_cnt[t]
               /\ \A m \in ReportStates : Connected(y, m) = Connected(x, m) /\ y.cnt[m] = x.cnt[m]
               /\ Routed(y)
<1> DEFINE y == DisconnectSubscriber(x, s)
           o == x.on \ {s}
           n == [x.report_cnt EXCEPT ![s] = 0]
           st == [l \in ReportStates |-> IF l[1] = s THEN "DISCONNECTED" ELSE x.state[l]]
           cn == [l \in ReportStates |-> IF l[1] = s THEN 0 ELSE x.cnt[l]]
           rd == [l \in ReportStates |-> IF l[1] = s THEN "none" ELSE x.rd[l]]
           up == {l \in x.upd : l[1] # s}
<1>1. <<s, "mouse">> \in ReportStates /\ <<s, "boot">> \in ReportStates
  BY DEF ReportStates, Reports
<1>2. x.link # <<s, "mouse">> /\ x.link # <<s, "boot">>
  <2>1. ~Connected(x, <<s, "mouse">>) /\ ~Connected(x, <<s, "boot">>)
    BY <1>1
  <2>2. CASE Linked(x)
    BY <2>1, <2>2 DEF Routed
  <2>3. CASE ~Linked(x)
    BY <1>1, <2>3 DEF Linked, NoLink, ReportStates, Subs
  <2> QED BY <2>2, <2>3
<1>3. y = [x EXCEPT !.on = o, !.report_cnt = n, !.state = st, !.cnt = cn, !.upd = up, !.rd = rd]
  BY <1>2 DEF DisconnectSubscriber, UnlinkState, Forget, Shapes
<1>4. /\ o \in SUBSET Subs /\ n \in [Subs -> Int] /\ cn \in [ReportStates -> Int]
      /\ st \in [ReportStates -> {"DISCONNECTED", "IDLE", "BUSY"}]
      /\ rd \in [ReportStates -> {"none", "data", "empty"}] /\ up \in SUBSET ReportStates
  BY DEF Shapes
<1>5. /\ \A t \in Subs : n[t] = IF t = s THEN 0 ELSE x.report_cnt[t]
      /\ \A l \in ReportStates : /\ st[l] = IF l[1] = s THEN "DISCONNECTED" ELSE x.state[l]
                                 /\ cn[l] = IF l[1] = s THEN 0 ELSE x.cnt[l]
                                 /\ rd[l] = IF l[1] = s THEN "none" ELSE x.rd[l]
  BY DEF Shapes
<1> HIDE DEF y, n, st, cn, rd, up
<1>6. /\ y \in Shapes /\ y.out = x.out /\ y.items = x.items /\ y.evq = x.evq /\ y.on = o
      /\ y.cnt = cn /\ y.report_cnt = n /\ y.state = st /\ y.rd = rd /\ y.link = x.link
  BY <1>3, <1>4 DEF Shapes
<1>7. /\ \A m \in ReportStates : Connected(x, m) = (x.rd[m] # "none")
      /\ \A m \in ReportStates : Connected(x, m) => m[1] \in x.on
      /\ \A m \in ReportStates : ~Connected(x, m) => x.cnt[m] = 0
  BY DEF Routed
<1>8. \A m \in ReportStates : /\ Connected(y, m) = Connected(x, m)
                              /\ cn[m] = x.cnt[m] /\ rd[m] = x.rd[m]
  <2> SUFFICES ASSUME NEW m \in ReportStates
               PROVE  Connected(y, m) = Connected(x, m) /\ cn[m] = x.cnt[m] /\ rd[m] = x.rd[m]
    OBVIOUS
  <2>1. CASE m[1] = s
    <3>1. ~Connected(x, m) /\ ~Connected(y, m)
      BY <1>5, <1>6, <2>1 DEF Connected
    <3>2. x.rd[m] = "none" /\ x.cnt[m] = 0
      BY <1>7, <3>1
    <3>3. rd[m] = "none" /\ cn[m] = 0
      BY <1>5, <2>1
    <3> QED BY <3>1, <3>2, <3>3 DEF Connected
  <2>2. CASE m[1] # s
    BY <1>5, <1>6, <2>2 DEF Connected
  <2> QED BY <2>1, <2>2
<1>9. Linked(x) => x.link \in ReportStates
  BY LinkType
<1>10. \A m \in ReportStates : Connected(y, m) => m[1] \in y.on
  BY <1>6, <1>7, <1>8
<1> HIDE DEF o
<1>11. Routed(y)
  BY <1>6, <1>8, <1>9, <1>10 DEF Routed, Linked
<1> QED BY <1>5, <1>6, <1>8, <1>11 DEF y, o

-----------------------------------------------------------------------------
(* A report that has left its subscriber, and the inputs.                  *)

LEMMA AnsweredFields ==
    ASSUME NEW x \in Shapes, NEW l \in ReportStates
    PROVE  LET a == Answered(x, l)
           IN  /\ a \in Shapes /\ a.out = x.out /\ a.items = x.items /\ a.evq = x.evq
               /\ a.axis = x.axis /\ a.on = x.on /\ a.link = x.link /\ a.rd = x.rd
               /\ \A s \in Subs : a.report_cnt[s] = IF s = l[1] THEN (x.report_cnt[s] - 1) % 256
                                                    ELSE x.report_cnt[s]
               /\ \A m \in ReportStates : a.cnt[m] = IF m = l /\ Connected(x, l) THEN x.cnt[m] - 1
                                                     ELSE x.cnt[m]
               /\ \A m \in ReportStates : Connected(a, m) = Connected(x, m)
<1> DEFINE n == [x.report_cnt EXCEPT ![l[1]] = (@ - 1) % 256]
           cn == [x.cnt EXCEPT ![l] = @ - 1]
           st == [x.state EXCEPT ![l] = IF x.cnt[l] = 1 THEN "IDLE" ELSE @]
           g == [x EXCEPT !.report_cnt = n]
           a == Answered(x, l)
<1>1. /\ x.report_cnt \in [Subs -> Int] /\ x.cnt \in [ReportStates -> Int] /\ l[1] \in Subs
      /\ x.state \in [ReportStates -> {"DISCONNECTED", "IDLE", "BUSY"}]
  BY DEF Shapes, ReportStates
<1>2. n \in [Subs -> Int] /\ cn \in [ReportStates -> Int]
  BY <1>1
<1>3. st \in [ReportStates -> {"DISCONNECTED", "IDLE", "BUSY"}]
  BY <1>1
<1>4. a = IF Connected(x, l) THEN [g EXCEPT !.cnt = cn, !.state = st] ELSE g
  BY DEF Answered, Shapes
<1>5. /\ \A s \in Subs : n[s] = IF s = l[1] THEN (x.report_cnt[s] - 1) % 256 ELSE x.report_cnt[s]
      /\ \A m \in ReportStates : cn[m] = IF m = l THEN x.cnt[m] - 1 ELSE x.cnt[m]
      /\ \A m \in ReportStates : m # l => st[m] = x.state[m]
      /\ st[l] \in {"IDLE", x.state[l]}
  BY <1>1
<1> HIDE DEF n, cn, st, a
<1>6. /\ g \in Shapes /\ g.out = x.out /\ g.items = x.items /\ g.evq = x.evq
      /\ g.axis = x.axis /\ g.on = x.on /\ g.link = x.link /\ g.rd = x.rd
      /\ g.report_cnt = n /\ g.cnt = x.cnt /\ g.state = x.state
  BY <1>2 DEF Shapes
<1> HIDE DEF g
<1>7. CASE Connected(x, l)
  <2>1. a = [g EXCEPT !.cnt = cn, !.state = st]
    BY <1>4, <1>7
  <2>2. /\ a \in Shapes /\ a.out = x.out /\ a.items = x.items /\ a.evq = x.evq
        /\ a.axis = x.axis /\ a.on = x.on /\ a.link = x.link /\ a.rd = x.rd
        /\ a.report_cnt = n /\ a.cnt = cn /\ a.state = st
    BY <1>2, <1>3, <1>6, <2>1 DEF Shapes
  <2>3. \A m \in ReportStates : Connected(a, m) = Connected(x, m)
    BY <1>5, <1>7, <2>2 DEF Connected
  <2> QED BY <1>5, <1>7, <2>2, <2>3 DEF a
<1>8. CASE ~Connected(x, l)
  <2>1. a = g
    BY <1>4, <1>8
  <2>2. \A m \in ReportStates : Connected(a, m) = Connected(x, m)
    BY <1>6, <2>1 DEF Connected
  <2> QED BY <1>5, <1>6, <1>8, <2>1, <2>2 DEF a
<1> QED BY <1>7, <1>8

LEMMA IssuedTurns ==
    ASSUME NEW x \in Shapes, Routed(x), NEW l \in ReportStates, l[1] \in x.on,
           NEW error \in BOOLEAN
    PROVE  LET y == ReportIssued(x, l, error)
           IN  /\ Keeps(Answered(x, l), y) /\ Routed(y) /\ y.link = x.link
               /\ ~error /\ x.link[1] = "usb" => Moving(y) = Moving(x)
<1> DEFINE a == Answered(x, l)
           k == ClearReportData(a)
           b == x.report_cnt[l[1]] = Depth(l[1])
           s == SendNext(a, l, b)
           y == ReportIssued(x, l, error)
<1>1. /\ a \in Shapes /\ a.out = x.out /\ a.items = x.items /\ a.evq = x.evq
      /\ a.axis = x.axis /\ a.on = x.on /\ a.link = x.link /\ a.rd = x.rd
      /\ \A m \in ReportStates : a.cnt[m] = IF m = l /\ Connected(x, l) THEN x.cnt[m] - 1
                                            ELSE x.cnt[m]
      /\ \A m \in ReportStates : Connected(a, m) = Connected(x, m)
  BY AnsweredFields
<1>2. y = IF error /\ x.link = l /\ Connected(x, l) /\ x.rd[l] = "data" THEN k ELSE s
  BY DEF ReportIssued
<1> HIDE DEF a, b, y
<1>3. Linked(x) => x.link \in ReportStates
  BY LinkType
<1>4. Routed(a)
  <2>1. \A m \in ReportStates : ~Connected(a, m) => a.cnt[m] = x.cnt[m]
    BY <1>1
  <2> QED BY <1>1, <1>3, <2>1 DEF Routed, Linked
<1>5. CASE error /\ x.link = l /\ Connected(x, l) /\ x.rd[l] = "data"
  <2>1. y = k
    BY <1>2, <1>5
  <2>2. /\ k \in Shapes /\ k.on = a.on /\ k.state = a.state /\ k.cnt = a.cnt
        /\ k.report_cnt = a.report_cnt /\ k.out = a.out /\ k.link = a.link
        /\ k.rd = a.rd /\ k.items = NoItems /\ k.evq = <<>>
    BY <1>1, ClearFields
  <2> HIDE DEF k
  <2>3. Recorded(a, k)
    BY <2>2 DEF Recorded
  <2>4. Keeps(a, k)
    BY <1>1, <2>2, <2>3, KeepsRoute
  <2>5. \A m \in ReportStates : Connected(k, m) = Connected(a, m)
    BY <2>2 DEF Connected
  <2>6. Linked(a) => a.link \in ReportStates
    BY <1>1, LinkType
  <2>7. Routed(k)
    BY <1>4, <2>2, <2>5, <2>6 DEF Routed, Linked
  <2> QED BY <1>1, <1>5, <2>1, <2>2, <2>4, <2>7 DEF y, a
<1>6. CASE ~(error /\ x.link = l /\ Connected(x, l) /\ x.rd[l] = "data")
  <2>1. y = s
    BY <1>2, <1>6
  <2>2. b \in BOOLEAN
    BY DEF b
  <2>3. Sends(a, s)
    BY <1>1, <1>4, <2>2, SendNextSends, RoutedApart
  <2> HIDE DEF s
  <2>4. Routed(s)
    BY <1>1, <1>4, <2>3, SendsRouted
  <2>5. Moving(a) = Moving(x)
    BY <1>1 DEF Moving
  <2>6. Keeps(a, s) /\ s.link = a.link /\ (a.link[1] = "usb" => Moving(s) = Moving(a))
    BY <2>3 DEF Sends
  <2> QED BY <1>1, <2>1, <2>4, <2>5, <2>6 DEF y, a
<1> QED BY <1>5, <1>6

LEMMA MotionSends ==
    ASSUME NEW x \in Shapes, Routed(x), NEW dx \in Int
    PROVE  LET y == Motion(x, dx)
           IN  /\ Keeps(x, y) /\ Routed(y) /\ y.link = x.link
               /\ x.link[1] = "usb" => Moving(y) = Moving(x) + dx
<1> DEFINE n == x.axis + dx
           g == [x EXCEPT !.axis = n]
           y == Motion(x, dx)
<1>1. n \in Int /\ x.axis \in Int
  BY DEF Shapes
<1>2. y = ReportSendData(g, TRUE, TRUE)
  BY DEF Motion, Shapes
<1> HIDE DEF n, y
<1>3. /\ g \in Shapes /\ g.out = x.out /\ g.items = x.items /\ g.evq = x.evq /\ g.axis = n
      /\ g.on = x.on /\ g.link = x.link /\ g.rd = x.rd /\ g.cnt = x.cnt /\ g.state = x.state
      /\ g.report_cnt = x.report_cnt
  BY <1>1 DEF Shapes
<1> HIDE DEF g
<1>4. Keeps(x, g)
  <2>1. Recorded(x, g)
    BY <1>3 DEF Recorded
  <2> QED BY <1>3, <2>1, KeepsRoute
<1>5. \A m \in ReportStates : Connected(g, m) = Connected(x, m)
  BY <1>3 DEF Connected
<1>6. Linked(x) => x.link \in ReportStates
  BY LinkType
<1>7. Routed(g)
  BY <1>3, <1>5, <1>6 DEF Routed, Linked
<1>8. Sends(g, y)
  BY <1>2, <1>3, DataSends
<1>9. Routed(y)
  BY <1>3, <1>7, <1>8, SendsRouted
<1>10. Keeps(x, y)
  BY <1>4, <1>8, KeepsTwice DEF Sends
<1>11. Moving(g) = Moving(x) + dx
  <2> DEFINE w == Weigh(x.out, Dx)
             p == x.axis
  <2>1. w \in Int
    <3>1. x.out \in Seq(Events)
      BY ReportsAreEvents DEF Shapes
    <3> QED BY <3>1, WeighType, DxType
  <2>2. Moving(g) = (p + dx) + w /\ Moving(x) = p + w /\ p \in Int
    BY <1>1, <1>3 DEF Moving, n
  <2> HIDE DEF w, p
  <2> QED BY <2>1, <2>2
<1>12. y.link = x.link /\ (x.link[1] = "usb" => Moving(y) = Moving(x) + dx)
  BY <1>3, <1>8, <1>11 DEF Sends
<1> QED BY <1>9, <1>10, <1>12 DEF y

-----------------------------------------------------------------------------
(* Buttons.                                                                *)

\* How the press or release of key moves the button k.
Moves(k, c, d, key, val) ==
    IF k # key THEN d = c ELSE IF val = 1 THEN c = "up" /\ d = "down" ELSE c = "down" /\ d = "up"

LEMMA TailsSelf == ASSUME NEW q \in Seq(Usages) PROVE Tails(q, q)
<1>1. Len(q) \in Nat
  BY LenProperties
<1> QED BY <1>1 DEF Tails

LEMMA TailsTwice ==
    ASSUME NEW p, NEW q \in Seq(Usages), NEW u, Tails(q, u), Tails(p, q), u \in Seq(Usages)
    PROVE  Tails(p, u)
<1>1. p \in Seq(Usages) /\ (AllFresh(u) => AllFresh(p))
  BY DEF Tails
<1>2. Len(p) <= Len(u)
  <2>1. Len(p) \in Nat /\ Len(q) \in Nat /\ Len(u) \in Nat
    BY <1>1, LenProperties
  <2> QED BY <2>1 DEF Tails
<1>3. ASSUME NEW key \in Keys, NEW a \in {"up", "down"}, NEW c, Leads(u, UsageStep(key), a, c)
      PROVE  \E b \in {"up", "down"} : Leads(p, UsageStep(key), b, c)
  BY <1>3 DEF Tails
<1> QED BY <1>1, <1>2, <1>3 DEF Tails

\* A recorded usage behind the others.
LEMMA AppendKey ==
    ASSUME NEW q \in Seq(Usages), NEW key \in Keys, NEW val \in Values, NEW u \in Usages,
           u.key = key, u.val = val, NEW k \in Keys, NEW b, NEW c \in {"up", "down"},
           NEW d \in {"up", "down"}, Leads(q, UsageStep(k), b, c), Moves(k, c, d, key, val)
    PROVE  Leads(Append(q, u), UsageStep(k), b, d)
<1>1. <<c, d>> \in UsageStep(k)[u]
  <2>1. CASE k # key
    <3>1. UsageStep(k)[u] = {<<"up", "up">>, <<"down", "down">>} /\ c = d
      BY <2>1 DEF UsageStep, Moves
    <3> QED BY <3>1
  <2>2. CASE k = key /\ val = 1
    BY <2>2 DEF UsageStep, Moves
  <2>3. CASE k = key /\ val # 1
    BY <2>3 DEF UsageStep, Moves
  <2> QED BY <2>1, <2>2, <2>3
<1> QED BY <1>1, LeadsAppend

LEMMA EnqueueTurns ==
    ASSUME NEW x \in Shapes, NEW key \in Keys, NEW val \in Values,
           Linked(x) \/ x.items = NoItems, Len(x.evq) <= EventQueueSize
    PROVE  LET y == Enqueue(x, key, val, Linked(x))
           IN  /\ y \in Shapes /\ y.on = x.on /\ y.state = x.state /\ y.cnt = x.cnt
               /\ y.report_cnt = x.report_cnt /\ y.out = x.out /\ y.link = x.link /\ y.rd = x.rd
               /\ y.items \in {x.items, NoItems}
               /\ Len(y.evq) <= EventQueueSize
               /\ Len(x.evq) # EventQueueSize => y.axis = x.axis
               /\ Fresh(x) => Fresh(y)
               /\ Fresh(x) => \A k \in Keys : \A c, d \in {"up", "down"} :
                      KeyOK(x, k, c) /\ Moves(k, c, d, key, val) => KeyOK(y, k, d)
<1> DEFINE e == x.evq
           n == ExpiredCount(e)
           q == Cleanup(e, n)
           Frees == {i \in DOMAIN q : Len(Cleanup(q, i)) < EventQueueSize}
           p == Cleanup(q, Min(Frees))
           k0 == ClearReportData(x)
           g == IF Len(q) < EventQueueSize THEN [x EXCEPT !.evq = q]
                ELSE IF ~Linked(x) /\ Frees # {} THEN [x EXCEPT !.evq = p] ELSE k0
           u == [key |-> key, val |-> val, age |-> "fresh"]
           y == Enqueue(x, key, val, Linked(x))
<1>1. e \in Seq(Usages) /\ Len(e) \in Nat /\ EventQueueSize \in Nat \ {0}
  BY LenType, PipelineAssumption DEF Shapes
<1>2. n \in 0 .. Len(e) /\ (Fresh(x) => n = 0)
  BY <1>1, ExpiredType DEF Fresh
<1>3. Tails(q, e) /\ (n = 0 => q = e)
  <2> HIDE DEF e, n
  <2> QED BY <1>1, <1>2, CleanupTails
<1>4. y = [g EXCEPT !.evq = Append(@, u)]
  BY DEF Enqueue
<1>5. u \in Usages /\ u.key = key /\ u.val = val /\ u.age = "fresh"
  BY DEF Usages
<1>6. /\ k0 \in Shapes /\ k0.on = x.on /\ k0.state = x.state /\ k0.cnt = x.cnt
      /\ k0.report_cnt = x.report_cnt /\ k0.out = x.out /\ k0.link = x.link
      /\ k0.rd = x.rd /\ k0.items = NoItems /\ k0.evq = <<>>
  BY ClearFields
<1>7. q \in Seq(Usages) /\ Len(q) \in Nat /\ DOMAIN q = 1 .. Len(q) /\ Len(q) <= Len(e)
  <2>1. q \in Seq(Usages) /\ Len(q) <= Len(e)
    BY <1>3 DEF Tails
  <2> HIDE DEF q
  <2> QED BY <2>1, LenProperties
<1> HIDE DEF e, n, q, k0, u, y
\* The events that stay in the queue.
<1>8. ASSUME NEW s \in Seq(Usages), Tails(s, e), Len(s) < EventQueueSize,
             Fresh(x) /\ Linked(x) => s = e, g = [x EXCEPT !.evq = s]
      PROVE  /\ y \in Shapes /\ y.on = x.on /\ y.state = x.state /\ y.cnt = x.cnt
             /\ y.report_cnt = x.report_cnt /\ y.out = x.out /\ y.link = x.link /\ y.rd = x.rd
             /\ y.items = x.items /\ y.axis = x.axis
             /\ Len(y.evq) <= EventQueueSize
             /\ Fresh(x) => Fresh(y)
             /\ Fresh(x) => \A k \in Keys : \A c, d \in {"up", "down"} :
                    KeyOK(x, k, c) /\ Moves(k, c, d, key, val) => KeyOK(y, k, d)
  <2> HIDE DEF g
  <2> DEFINE z == Append(s, u)
  <2>1. /\ z \in Seq(Usages) /\ Len(z) = Len(s) + 1 /\ Len(s) \in Nat
        /\ \A i \in 1 .. Len(s) : z[i] = s[i]
        /\ z[Len(s) + 1] = u
    BY <1>5, <1>8, AppendProperties, LenProperties
  <2>2. DOMAIN z = 1 .. Len(s) + 1 /\ DOMAIN s = 1 .. Len(s)
    <3>1. DOMAIN z = 1 .. Len(z)
      <4> HIDE DEF z
      <4> QED BY <2>1, LenProperties
    <3> HIDE DEF z
    <3> QED BY <2>1, <3>1, LenProperties
  <2>3. y = [x EXCEPT !.evq = z]
    BY <1>4, <1>8 DEF Shapes
  <2> HIDE DEF z
  <2>4. /\ y \in Shapes /\ y.on = x.on /\ y.state = x.state /\ y.cnt = x.cnt
        /\ y.report_cnt = x.report_cnt /\ y.out = x.out /\ y.link = x.link /\ y.rd = x.rd
        /\ y.items = x.items /\ y.axis = x.axis /\ y.evq = z
    BY <2>1, <2>3 DEF Shapes
  <2>5. Len(z) <= EventQueueSize
    BY <1>1, <1>8, <2>1
  <2>6. Fresh(x) => Fresh(y)
    <3> SUFFICES ASSUME Fresh(x), NEW i \in DOMAIN z PROVE z[i].age = "fresh"
      BY <2>4 DEF Fresh
    <3>1. AllFresh(s)
      BY <1>8 DEF Tails, AllFresh, Fresh, e
    <3>2. CASE i = Len(s) + 1
      BY <1>5, <2>1, <3>2
    <3>3. CASE i # Len(s) + 1
      <4>1. i \in 1 .. Len(s)
        BY <2>1, <2>2, <3>3
      <4> QED BY <2>1, <2>2, <3>1, <4>1 DEF AllFresh
    <3> QED BY <3>2, <3>3
  <2>7. ASSUME Fresh(x), NEW k \in Keys, NEW c \in {"up", "down"}, NEW d \in {"up", "down"},
               KeyOK(x, k, c), Moves(k, c, d, key, val)
        PROVE  KeyOK(y, k, d)
    <3>1. PICK a \in {"up", "down"} : x.items[k] <= Level(a) /\ Leads(e, UsageStep(k), a, c)
      BY <2>7 DEF KeyOK, e
    <3>2. \E b \in {"up", "down"} : x.items[k] <= Level(b) /\ Leads(s, UsageStep(k), b, c)
      <4>1. CASE Linked(x)
        BY <1>8, <2>7, <3>1, <4>1
      <4>2. CASE ~Linked(x)
        <5>1. x.items[k] = 0
          BY <4>2, NoItemsType
        <5>2. PICK b \in {"up", "down"} : Leads(s, UsageStep(k), b, c)
          BY <1>8, <3>1 DEF Tails
        <5>3. x.items[k] <= Level(b)
          BY <5>1 DEF Level
        <5> QED BY <5>2, <5>3
      <4> QED BY <4>1, <4>2
    <3>3. PICK b \in {"up", "down"} : x.items[k] <= Level(b) /\ Leads(s, UsageStep(k), b, c)
      BY <3>2
    <3>4. Leads(z, UsageStep(k), b, d)
      BY <1>5, <2>7, <3>3, AppendKey DEF z
    <3> QED BY <2>4, <3>3, <3>4 DEF KeyOK
  <2> QED BY <2>4, <2>5, <2>6, <2>7
<1>9. CASE Len(q) < EventQueueSize
  <2>1. g = [x EXCEPT !.evq = q]
    BY <1>9
  <2>2. Fresh(x) /\ Linked(x) => q = e
    BY <1>2, <1>3
  <2> HIDE DEF g
  <2> QED BY <1>3, <1>7, <1>8, <1>9, <2>1, <2>2 DEF y
<1>10. CASE ~(Len(q) < EventQueueSize) /\ ~Linked(x) /\ Frees # {}
  <2>1. Frees \subseteq Nat /\ Frees \subseteq 1 .. Len(q)
    BY <1>7
  <2>2. Min(Frees) \in Frees
    <3> HIDE DEF Frees
    <3> QED BY <1>10, <2>1, MinIn
  <2>3. Min(Frees) \in 0 .. Len(q) /\ Len(p) < EventQueueSize
    BY <1>7, <2>1, <2>2
  <2>4. Tails(p, q)
    <3> HIDE DEF Frees
    <3> QED BY <1>7, <2>3, CleanupTails
  <2>5. g = [x EXCEPT !.evq = p]
    BY <1>10
  <2> HIDE DEF p, g
  <2>6. Tails(p, e) /\ p \in Seq(Usages)
    BY <1>1, <1>3, <1>7, <2>4, TailsTwice DEF Tails
  <2> QED BY <1>8, <1>10, <2>3, <2>5, <2>6 DEF y
<1>11. CASE ~(Len(q) < EventQueueSize) /\ ~(~Linked(x) /\ Frees # {})
  <2>1. g = k0
    BY <1>11
  <2> DEFINE z == Append(<<>>, u)
  <2>2. /\ z \in Seq(Usages) /\ Len(z) = 1 /\ z[1] = u /\ DOMAIN z = {1}
    BY <1>5
  <2>3. y = [k0 EXCEPT !.evq = z]
    BY <1>4, <1>6, <2>1
  <2> HIDE DEF z, g
  <2>4. /\ y \in Shapes /\ y.on = x.on /\ y.state = x.state /\ y.cnt = x.cnt
        /\ y.report_cnt = x.report_cnt /\ y.out = x.out /\ y.link = x.link /\ y.rd = x.rd
        /\ y.items = NoItems /\ y.evq = z
    BY <1>6, <2>2, <2>3 DEF Shapes
  <2>5. Len(y.evq) <= EventQueueSize /\ Len(e) = EventQueueSize
    <3>1. Len(e) <= EventQueueSize
      BY DEF e
    <3> QED BY <1>1, <1>7, <1>11, <2>2, <2>4, <3>1
  <2>6. Fresh(y)
    BY <1>5, <2>2, <2>4 DEF Fresh
  <2>7. ASSUME NEW k \in Keys, NEW c \in {"up", "down"}, NEW d \in {"up", "down"},
               Moves(k, c, d, key, val)
        PROVE  KeyOK(y, k, d)
    <3>1. Leads(<<>>, UsageStep(k), c, c) /\ <<>> \in Seq(Usages)
      BY LeadsNone, EmptySeq
    <3>2. Leads(z, UsageStep(k), c, d)
      BY <1>5, <2>7, <3>1, AppendKey DEF z
    <3>3. y.items[k] <= Level(c)
      BY <2>4, NoItemsType DEF Level
    <3> QED BY <2>4, <3>2, <3>3 DEF KeyOK
  <2> QED BY <2>4, <2>5, <2>6, <2>7 DEF y, e
<1> QED BY <1>9, <1>10, <1>11


LEMMA UpdateKeyTurns ==
    ASSUME NEW x \in Shapes, Routed(x), NEW key \in Keys, NEW val \in Values,
           Len(x.evq) <= EventQueueSize, Small(x)
    PROVE  LET y == UpdateKey(x, key, val)
           IN  /\ y \in Shapes /\ y.on = x.on /\ y.link = x.link /\ Routed(y)
               /\ \A l \in ReportStates : Connected(y, l) = Connected(x, l)
               /\ Fits(x) => Fits(y)
               /\ (\A r \in Reports : Owed(y, r) = Owed(x, r)) /\ Debt(y) = Debt(x)
               /\ Len(x.evq) # EventQueueSize /\ x.link[1] = "usb" => Moving(y) = Moving(x)
               /\ Small(y) /\ Len(y.evq) <= EventQueueSize
               /\ Fresh(x) => Fresh(y)
               /\ Fresh(x) => \A k \in Keys : \A c, d \in {"up", "down"} :
                      KeyOK(x, k, c) /\ Moves(k, c, d, key, val) => KeyOK(y, k, d)
<1> DEFINE y == UpdateKey(x, key, val)
           q == Enqueue(x, key, val, Linked(x))
           set == KeyValueSet(x.items, key, val)
           g == [x EXCEPT !.items = set]
<1>1. y = IF ~Linked(x) \/ x.evq # <<>> THEN q
          ELSE IF Changes(x.items, key, val) THEN ReportSendData(g, FALSE, TRUE) ELSE x
  BY DEF UpdateKey, Shapes
<1>2. Linked(x) => x.link \in ReportStates
  BY LinkType
<1>3. x.items \in [Keys -> Nat] /\ Len(x.evq) \in Nat
  BY LenType DEF Shapes
<1> HIDE DEF y
<1>4. CASE ~Linked(x) \/ x.evq # <<>>
  <2>1. y = q
    BY <1>1, <1>4
  <2>2. Linked(x) \/ x.items = NoItems
    BY DEF Routed
  <2>3. /\ q \in Shapes /\ q.on = x.on /\ q.state = x.state /\ q.cnt = x.cnt
        /\ q.report_cnt = x.report_cnt /\ q.out = x.out /\ q.link = x.link /\ q.rd = x.rd
        /\ q.items \in {x.items, NoItems}
        /\ Len(q.evq) <= EventQueueSize
        /\ Len(x.evq) # EventQueueSize => q.axis = x.axis
        /\ Fresh(x) => Fresh(q)
        /\ Fresh(x) => \A k \in Keys : \A c, d \in {"up", "down"} :
               KeyOK(x, k, c) /\ Moves(k, c, d, key, val) => KeyOK(q, k, d)
    BY <2>2, EnqueueTurns
  <2> HIDE DEF q
  <2>4. \A l \in ReportStates : Connected(q, l) = Connected(x, l)
    BY <2>3 DEF Connected
  <2>5. ~Linked(x) => q.items = NoItems
    BY <2>2, <2>3
  <2>6. Routed(q)
    BY <1>2, <2>3, <2>4, <2>5 DEF Routed, Linked
  <2>7. Fits(x) => Fits(q)
    BY <2>3 DEF Fits
  <2>8. (\A r \in Reports : Owed(q, r) = Owed(x, r)) /\ Debt(q) = Debt(x)
    BY <2>3 DEF Owed, Debt
  <2>9. Len(x.evq) # EventQueueSize => Moving(q) = Moving(x)
    BY <2>3 DEF Moving
  <2>10. Small(q)
    <3>1. CASE q.items = NoItems
      BY <3>1, SmallNone
    <3>2. CASE q.items = x.items
      BY <3>2 DEF Small, Pressed
    <3> QED BY <2>3, <3>1, <3>2
  <2> QED BY <2>1, <2>3, <2>4, <2>6, <2>7, <2>8, <2>9, <2>10 DEF y
<1>5. CASE Linked(x) /\ x.evq = <<>> /\ Changes(x.items, key, val)
  <2>1. y = ReportSendData(g, FALSE, TRUE)
    BY <1>1, <1>5
  <2>2. /\ set \in [Keys -> Nat]
        /\ \A k \in Keys : set[k] = IF k = key THEN x.items[k] + val ELSE x.items[k]
        /\ Cardinality(Held(x.items)) <= ItemCountMax => Cardinality(Held(set)) <= ItemCountMax
    BY <1>3, <1>5, SetKey
  <2> HIDE DEF set
  <2>3. /\ g \in Shapes /\ g.out = x.out /\ g.items = set /\ g.evq = x.evq /\ g.axis = x.axis
        /\ g.on = x.on /\ g.link = x.link /\ g.rd = x.rd /\ g.cnt = x.cnt /\ g.state = x.state
        /\ g.report_cnt = x.report_cnt
    BY <2>2 DEF Shapes
  <2> HIDE DEF g
  <2>4. \A l \in ReportStates : Connected(g, l) = Connected(x, l)
    BY <2>3 DEF Connected
  <2>5. Routed(g)
    BY <1>2, <1>5, <2>3, <2>4 DEF Routed, Linked
  <2>6. Sends(g, y)
    <3>1. Linked(g) => Connected(g, g.link)
      BY <2>5 DEF Routed
    <3> QED BY <2>1, <2>3, <3>1, DataSends
  <2>7. Routed(y)
    BY <2>3, <2>5, <2>6, SendsRouted
  <2>8. /\ y \in Shapes /\ y.on = x.on /\ y.link = x.link
        /\ \A l \in ReportStates : Connected(y, l) = Connected(x, l)
    BY <2>3, <2>4, <2>6 DEF Sends, Keeps
  <2>9. Fits(x) => Fits(y)
    <3>1. Fits(x) => Fits(g)
      BY <2>3 DEF Fits
    <3> QED BY <2>6, <3>1 DEF Sends, Keeps
  <2>10. (\A r \in Reports : Owed(y, r) = Owed(x, r)) /\ Debt(y) = Debt(x)
    <3>1. (\A r \in Reports : Owed(g, r) = Owed(x, r)) /\ Debt(g) = Debt(x)
      BY <2>3 DEF Owed, Debt
    <3> QED BY <2>6, <3>1 DEF Sends, Keeps
  <2>11. x.link[1] = "usb" => Moving(y) = Moving(x)
    <3>1. Moving(g) = Moving(x)
      BY <2>3 DEF Moving
    <3> QED BY <2>3, <2>6, <3>1 DEF Sends
  <2>12. Small(y)
    <3>1. Small(g)
      BY <2>2, <2>3 DEF Small, Pressed
    <3> QED BY <2>6, <3>1 DEF Sends, Keeps
  <2>13. Len(y.evq) <= EventQueueSize
    <3>1. Len(y.evq) <= Len(x.evq) /\ Len(y.evq) \in Nat
      BY <2>3, <2>6, <2>8, LenType DEF Sends, Keeps
    <3> QED BY <1>3, <3>1, PipelineAssumption
  <2>14. Fresh(x) => Fresh(y)
    <3>1. Fresh(x) => Fresh(g)
      BY <2>3 DEF Fresh
    <3> QED BY <2>6, <3>1 DEF Sends, Keeps
  <2>15. ASSUME NEW k \in Keys, NEW c \in {"up", "down"}, NEW d \in {"up", "down"},
                KeyOK(x, k, c), Moves(k, c, d, key, val)
         PROVE  KeyOK(y, k, d)
    <3>1. PICK a \in {"up", "down"} : x.items[k] <= Level(a) /\ Leads(x.evq, UsageStep(k), a, c)
      BY <2>15 DEF KeyOK
    <3>2. a = c
      BY <1>5, <3>1, LeadsEmpty
    <3>3. g.items[k] <= Level(d)
      <4>1. x.items[k] <= Level(c) /\ x.items[k] \in Nat /\ (val = 1 \/ val = -1)
        BY <1>3, <3>1, <3>2 DEF Values
      <4>2. CASE k # key
        BY <2>2, <2>3, <2>15, <4>1, <4>2 DEF Moves
      <4>3. CASE k = key /\ val = 1
        BY <2>2, <2>3, <2>15, <4>1, <4>3 DEF Moves, Level
      <4>4. CASE k = key /\ val = -1
        BY <2>2, <2>3, <2>15, <4>1, <4>4 DEF Moves, Level
      <4> QED BY <4>1, <4>2, <4>3, <4>4
    <3>4. Leads(g.evq, UsageStep(k), d, d)
      BY <1>5, <2>3, LeadsNone
    <3>5. KeyOK(g, k, d)
      BY <3>3, <3>4 DEF KeyOK
    <3> QED BY <2>6, <3>5 DEF Sends, Keeps
  <2> QED BY <2>7, <2>8, <2>9, <2>10, <2>11, <2>12, <2>13, <2>14, <2>15 DEF y
<1>6. CASE Linked(x) /\ x.evq = <<>> /\ ~Changes(x.items, key, val)
  <2>1. y = x
    BY <1>1, <1>6
  <2>2. ASSUME NEW k \in Keys, NEW c \in {"up", "down"}, NEW d \in {"up", "down"},
               KeyOK(x, k, c), Moves(k, c, d, key, val)
        PROVE  KeyOK(x, k, d)
    <3>1. PICK a \in {"up", "down"} : x.items[k] <= Level(a) /\ Leads(x.evq, UsageStep(k), a, c)
      BY <2>2 DEF KeyOK
    <3>2. x.items[k] <= Level(d)
      <4>1. a = c
        BY <1>6, <3>1, LeadsEmpty
      <4>2. CASE k # key
        BY <2>2, <3>1, <4>1, <4>2 DEF Moves
      <4>3. CASE k = key
        <5>1. x.items[k] = 0
          BY <1>3, <1>6, <4>3 DEF Changes
        <5> QED BY <5>1 DEF Level
      <4> QED BY <4>2, <4>3
    <3>3. Leads(x.evq, UsageStep(k), d, d)
      BY <1>6, LeadsNone
    <3> QED BY <3>2, <3>3 DEF KeyOK
  <2> QED BY <1>3, <2>1, <2>2, PipelineAssumption DEF y
<1> QED BY <1>4, <1>5, <1>6

-----------------------------------------------------------------------------
(* An event taken through hid_state.c.                                     *)

\* The sessions of a report state: its subscriber is announced before its
\* subscription and withdrawn after it.
Phases == {"off", "on", "sub"}
PhaseStep(l) ==
    [e \in Events |->
        IF e.t = "subscriber" /\ e.s = l[1]
        THEN IF e.to = "on" THEN {<<"off", "on">>} ELSE {<<"on", "off">>}
        ELSE IF e.t = "subscription" /\ e.l = l
        THEN IF e.to = "on" THEN {<<"on", "sub">>} ELSE {<<"sub", "on">>}
        ELSE {<<"off", "off">>, <<"on", "on">>, <<"sub", "sub">>}]
HidPhase(x, l) == IF Connected(x, l) THEN "sub" ELSE IF l[1] \in x.on THEN "on" ELSE "off"

\* A press and a release of key alternate.
ButtonStep(key) ==
    [e \in Events |->
        IF e.t = "button" /\ e.key = key
        THEN IF e.val = 1 THEN {<<"up", "down">>} ELSE {<<"down", "up">>}
        ELSE {<<"up", "up">>, <<"down", "down">>}]

Answer(e, r) == IF e.t \in {"sent", "failed"} /\ e.l = Usb(r) THEN 1 ELSE 0

\* The state in which e finds hid_state.c.
Expected(e) ==
    /\ h \in Shapes /\ h.out = <<>> /\ Routed(h) /\ Small(h) /\ Len(h.evq) <= EventQueueSize
    /\ \A l \in ReportStates : \E c : <<HidPhase(h, l), c>> \in PhaseStep(l)[e]

Turned(e, y) ==
    /\ y \in Shapes /\ Routed(y) /\ Small(y) /\ Len(y.evq) <= EventQueueSize
    /\ \A l \in ReportStates : <<HidPhase(h, l), HidPhase(y, l)>> \in PhaseStep(l)[e]
    /\ ~MayDiscard(e) =>
          /\ y.link = h.link
          /\ h.link[1] = "usb" => Moving(y) = h.axis + IF e.t = "motion" THEN e.dx ELSE 0
    /\ Fresh(h) => Fresh(y)
    /\ Fresh(h) => \A k \in Keys : \A c, d \in {"up", "down"} :
          KeyOK(h, k, c) /\ <<c, d>> \in ButtonStep(k)[e] => KeyOK(y, k, d)

\* The reports that e answers have been counted.
Due(e) ==
    /\ Fits(h)
    /\ e.t \in {"sent", "failed"} /\ "usb" \in h.on =>
          h.report_cnt["usb"] >= 1 /\ (Connected(h, e.l) => h.cnt[e.l] >= 1)

Balanced(e, y) ==
    /\ \A r \in Reports :
          /\ Connected(y, Usb(r)) => Owed(y, r) = h.cnt[Usb(r)] - Answer(e, r)
          /\ ~Connected(y, Usb(r)) => Weigh(y.out, Awaiting(r)) = 0
    /\ "usb" \in y.on => Debt(y) = (IF "usb" \in h.on THEN h.report_cnt["usb"] ELSE 0)
                                   - (Answer(e, "mouse") + Answer(e, "boot"))

LEMMA UsbType == ASSUME NEW r \in Reports PROVE Usb(r) \in ReportStates /\ Usb(r)[1] = "usb"
BY DEF Usb, ReportStates, Subs

LEMMA UsbReport ==
    ASSUME NEW l \in {"usb"} \X Reports
    PROVE  \/ l = Usb("mouse") /\ l # Usb("boot")
           \/ l = Usb("boot") /\ l # Usb("mouse")
<1>1. l = <<"usb", l[2]>> /\ l[2] \in Reports
  OBVIOUS
<1>2. l[2] = "mouse" \/ l[2] = "boot"
  BY <1>1 DEF Reports
<1> QED BY <1>1, <1>2 DEF Usb

LEMMA EmptyOut ==
    ASSUME NEW x \in Shapes, x.out = <<>>
    PROVE  /\ \A r \in Reports : Owed(x, r) = x.cnt[Usb(r)] /\ Weigh(x.out, Awaiting(r)) = 0
           /\ Debt(x) = x.report_cnt["usb"] /\ Moving(x) = x.axis
<1>1. Weigh(x.out, Dx) = 0 /\ \A r \in Reports : Weigh(x.out, Awaiting(r)) = 0
  BY WeighEmpty
<1>2. \A r \in Reports : x.cnt[Usb(r)] \in Int
  BY UsbType DEF Shapes
<1>3. x.report_cnt["usb"] \in Int /\ x.axis \in Int
  BY DEF Shapes, Subs
<1>4. "mouse" \in Reports /\ "boot" \in Reports
  BY DEF Reports
<1> QED BY <1>1, <1>2, <1>3, <1>4 DEF Owed, Debt, Moving

LEMMA KeptCounts ==
    ASSUME NEW c \in Shapes, c.out = <<>>, NEW y, Keeps(c, y)
    PROVE  /\ \A r \in Reports : /\ Owed(y, r) = c.cnt[Usb(r)]
                                 /\ Connected(y, Usb(r)) = Connected(c, Usb(r))
                                 /\ ~Connected(c, Usb(r)) => Weigh(y.out, Awaiting(r)) = 0
           /\ Debt(y) = c.report_cnt["usb"] /\ y.on = c.on
<1>1. ASSUME NEW r \in Reports, ~Connected(c, Usb(r)) PROVE Weigh(y.out, Awaiting(r)) = 0
  <2> DEFINE w == Weigh(y.out, Awaiting(r))
             n == c.cnt[Usb(r)]
  <2>1. w \in Int
    <3>1. y.out \in Seq(HidReports)
      BY DEF Keeps, Shapes
    <3> QED BY <3>1, ReportsAreEvents, WeighType, AwaitingInt
  <2>2. y.cnt[Usb(r)] = n /\ n \in Int
    BY <1>1, UsbType DEF Keeps, Shapes
  <2>3. y.cnt[Usb(r)] - w = n
    BY EmptyOut DEF Keeps, Owed
  <2> HIDE DEF w, n
  <2>4. w = 0
    BY <2>1, <2>2, <2>3
  <2> QED BY <2>4 DEF w
<1> QED BY <1>1, EmptyOut, UsbType DEF Keeps

\* An event that moves no button leaves the recorded ones alone.
LEMMA NoButton ==
    ASSUME NEW e \in Events, e.t # "button", NEW k, NEW c \in {"up", "down"}, NEW d,
           <<c, d>> \in ButtonStep(k)[e]
    PROVE  d = c
BY DEF ButtonStep

LEMMA NoPhase ==
    ASSUME NEW e \in Events, e.t \notin {"subscriber", "subscription"}, NEW x, NEW y,
           y.on = x.on, \A l \in ReportStates : Connected(y, l) = Connected(x, l)
    PROVE  \A l \in ReportStates : <<HidPhase(x, l), HidPhase(y, l)>> \in PhaseStep(l)[e]
<1> SUFFICES ASSUME NEW l \in ReportStates
             PROVE  <<HidPhase(x, l), HidPhase(y, l)>> \in PhaseStep(l)[e]
  OBVIOUS
<1>1. HidPhase(x, l) = HidPhase(y, l) /\ HidPhase(x, l) \in {"off", "on", "sub"}
  BY DEF HidPhase
<1>2. PhaseStep(l)[e] = {<<"off", "off">>, <<"on", "on">>, <<"sub", "sub">>}
  BY DEF PhaseStep
<1> QED BY <1>1, <1>2

LEMMA KeptKeys ==
    ASSUME NEW e \in Events, e.t # "button", NEW c, c.items = h.items, c.evq = h.evq, NEW y, Keeps(c, y)
    PROVE  /\ Fresh(h) => Fresh(y)
           /\ \A k \in Keys : \A p, q \in {"up", "down"} :
                 KeyOK(h, k, p) /\ <<p, q>> \in ButtonStep(k)[e] => KeyOK(y, k, q)
<1>1. Fresh(h) => Fresh(c)
  BY DEF Fresh
<1>2. ASSUME NEW k \in Keys, NEW p \in {"up", "down"}, NEW q \in {"up", "down"},
             KeyOK(h, k, p), <<p, q>> \in ButtonStep(k)[e]
      PROVE  KeyOK(y, k, q)
  <2>1. q = p
    BY <1>2, NoButton
  <2>2. KeyOK(c, k, p)
    BY <1>2 DEF KeyOK
  <2> QED BY <2>1, <2>2 DEF Keeps
<1> QED BY <1>1, <1>2 DEF Keeps

LEMMA KeptSmall ==
    ASSUME Small(h), Len(h.evq) <= EventQueueSize, NEW c \in Shapes, c.items = h.items, c.evq = h.evq,
           NEW y, Keeps(c, y)
    PROVE  Small(y) /\ Len(y.evq) <= EventQueueSize
<1>1. Small(c)
  BY DEF Small, Pressed
<1>2. Len(y.evq) \in Nat /\ Len(c.evq) \in Nat /\ Len(y.evq) <= Len(c.evq)
  BY LenType DEF Keeps
<1> QED BY <1>1, <1>2, PipelineAssumption DEF Keeps

-----------------------------------------------------------------------------
LEMMA ReportTurn ==
    ASSUME NEW e \in Events, Expected(e), e.t = "report"
    PROVE  Turned(e, HidHandler(e)) /\ (Due(e) => Balanced(e, HidHandler(e)) /\ Fits(HidHandler(e)))
<1>1. HidHandler(e) = h
  BY DEF HidHandler
<1>2. h \in Shapes /\ h.out = <<>> /\ Routed(h) /\ Small(h) /\ Len(h.evq) <= EventQueueSize
  BY DEF Expected
<1>3. Keeps(h, h)
  BY <1>2, SendsSelf DEF Sends
<1>4. \A l \in ReportStates : <<HidPhase(h, l), HidPhase(h, l)>> \in PhaseStep(l)[e]
  <2>1. e.t \notin {"subscriber", "subscription"}
    OBVIOUS
  <2> QED BY <2>1, NoPhase
<1>5. Moving(h) = h.axis /\ h.axis \in Int
  BY <1>2, EmptyOut DEF Shapes
<1>6. Turned(e, h)
  <2>1. \A k \in Keys : \A c, d \in {"up", "down"} :
           KeyOK(h, k, c) /\ <<c, d>> \in ButtonStep(k)[e] => KeyOK(h, k, d)
    BY <1>3, KeptKeys
  <2> QED BY <1>2, <1>4, <1>5, <2>1 DEF Turned
<1>7. Balanced(e, h)
  <2>1. Answer(e, "mouse") = 0 /\ Answer(e, "boot") = 0 /\ \A r \in Reports : Answer(e, r) = 0
    BY DEF Answer
  <2>2. h.report_cnt["usb"] \in Int /\ \A r \in Reports : h.cnt[Usb(r)] \in Int
    BY <1>2, UsbType DEF Shapes, Subs
  <2> QED BY <1>2, <2>1, <2>2, EmptyOut DEF Balanced
<1> QED BY <1>1, <1>6, <1>7 DEF Due

LEMMA IssuedTurn ==
    ASSUME NEW e \in Events, Expected(e), e.t \in {"sent", "failed"}
    PROVE  Turned(e, HidHandler(e)) /\ (Due(e) => Balanced(e, HidHandler(e)) /\ Fits(HidHandler(e)))
<1> DEFINE l == e.l
           error == e.t = "failed"
           y == HidHandler(e)
           a == Answered(h, l)
<1>1. l \in ReportStates /\ l[1] = "usb" /\ error \in BOOLEAN
  BY EventKinds DEF ReportStates, Subs
<1>2. y = ReportIssued(h, l, error)
  <2>1. CASE e.t = "sent"
    <3>1. error = FALSE
      BY <2>1
    <3> QED BY <2>1, <3>1 DEF HidHandler
  <2>2. CASE e.t = "failed"
    <3>1. error = TRUE
      BY <2>2
    <3> QED BY <2>2, <3>1 DEF HidHandler
  <2> QED BY <2>1, <2>2
<1>3. h \in Shapes /\ h.out = <<>> /\ Routed(h) /\ Small(h) /\ Len(h.evq) <= EventQueueSize
  BY DEF Expected
<1>4. Moving(h) = h.axis /\ h.axis \in Int
  BY <1>3, EmptyOut DEF Shapes
<1>5. e.t \notin {"subscriber", "subscription"} /\ e.t # "button" /\ e.t # "motion"
      /\ (~MayDiscard(e) => ~error)
  BY DEF MayDiscard
<1>6. h.report_cnt \in [Subs -> Int] /\ h.cnt \in [ReportStates -> Int] /\ "usb" \in Subs
  BY <1>3 DEF Shapes, Subs
<1>7. \A r \in Reports : Answer(e, r) = IF Usb(r) = l THEN 1 ELSE 0
  BY DEF Answer
<1>8. Answer(e, "mouse") + Answer(e, "boot") = 1
  <2>1. \/ l = Usb("mouse") /\ l # Usb("boot")
        \/ l = Usb("boot") /\ l # Usb("mouse")
    <3>1. l \in {"usb"} \X Reports
      BY EventKinds
    <3> QED BY <3>1, UsbReport
  <2>2. "mouse" \in Reports /\ "boot" \in Reports
    BY DEF Reports
  <2>3. Answer(e, "mouse") = (IF Usb("mouse") = l THEN 1 ELSE 0)
        /\ Answer(e, "boot") = (IF Usb("boot") = l THEN 1 ELSE 0)
    BY <1>7, <2>2
  <2> QED BY <2>1, <2>3
<1> HIDE DEF y, error, l
<1>9. CASE l[1] \notin h.on
  <2>1. y = h
    BY <1>2, <1>9 DEF ReportIssued
  <2>2. Keeps(h, h)
    BY <1>3, SendsSelf DEF Sends
  <2>3. \A m \in ReportStates : <<HidPhase(h, m), HidPhase(h, m)>> \in PhaseStep(m)[e]
    BY <1>5, NoPhase
  <2>4. \A k \in Keys : \A c, d \in {"up", "down"} :
           KeyOK(h, k, c) /\ <<c, d>> \in ButtonStep(k)[e] => KeyOK(h, k, d)
    BY <1>5, <2>2, KeptKeys
  <2>5. Turned(e, h)
    BY <1>3, <1>4, <1>5, <2>3, <2>4 DEF Turned
  <2>6. \A r \in Reports : ~Connected(h, Usb(r))
    BY <1>1, <1>3, <1>9, UsbType DEF Routed
  <2>7. Balanced(e, h)
    BY <1>1, <1>3, <1>9, <2>6, EmptyOut DEF Balanced
  <2> QED BY <2>1, <2>5, <2>7 DEF Due, y
<1>10. CASE l[1] \in h.on
  <2>1. /\ a \in Shapes /\ a.out = h.out /\ a.items = h.items /\ a.evq = h.evq
        /\ a.axis = h.axis /\ a.on = h.on /\ a.link = h.link /\ a.rd = h.rd
        /\ \A s \in Subs : a.report_cnt[s] = IF s = l[1] THEN (h.report_cnt[s] - 1) % 256
                                             ELSE h.report_cnt[s]
        /\ \A m \in ReportStates : a.cnt[m] = IF m = l /\ Connected(h, l) THEN h.cnt[m] - 1
                                              ELSE h.cnt[m]
        /\ \A m \in ReportStates : Connected(a, m) = Connected(h, m)
    BY <1>1, <1>3, AnsweredFields
  <2>2. /\ Keeps(a, y) /\ Routed(y) /\ y.link = h.link
        /\ ~error /\ h.link[1] = "usb" => Moving(y) = Moving(h)
    BY <1>1, <1>2, <1>3, <1>10, IssuedTurns
  <2> HIDE DEF a
  <2>3. y \in Shapes /\ y.on = h.on /\ \A m \in ReportStates : Connected(y, m) = Connected(h, m)
    BY <2>1, <2>2 DEF Keeps
  <2>4. \A m \in ReportStates : <<HidPhase(h, m), HidPhase(y, m)>> \in PhaseStep(m)[e]
    BY <1>5, <2>3, NoPhase
  <2>5. /\ Fresh(h) => Fresh(y)
        /\ \A k \in Keys : \A c, d \in {"up", "down"} :
              KeyOK(h, k, c) /\ <<c, d>> \in ButtonStep(k)[e] => KeyOK(y, k, d)
    BY <1>5, <2>1, <2>2, KeptKeys
  <2>6. Small(y) /\ Len(y.evq) <= EventQueueSize
    BY <1>3, <2>1, <2>2, KeptSmall
  <2>7. Turned(e, y)
    <3>1. ~MayDiscard(e) => /\ y.link = h.link
                            /\ h.link[1] = "usb" => Moving(y) = h.axis + IF e.t = "motion" THEN e.dx ELSE 0
      BY <1>4, <1>5, <2>2
    <3> QED BY <2>2, <2>3, <2>4, <2>5, <2>6, <3>1 DEF Turned
  <2>8. ASSUME Due(e) PROVE Balanced(e, y) /\ Fits(y)
    <3>1. /\ \A s \in Subs : h.report_cnt[s] \in 0 .. Depth(s)
          /\ \A m \in ReportStates : h.cnt[m] \in 0 .. Depth(m[1])
          /\ h.report_cnt["usb"] >= 1 /\ (Connected(h, l) => h.cnt[l] >= 1)
      BY <1>1, <1>10, <2>8 DEF Due, Fits, l
    <3>2. Depth("usb") \in 1 .. 2 /\ \A s \in Subs : Depth(s) \in Nat
      BY PipelineAssumption DEF Depth
    <3>3. a.report_cnt["usb"] = h.report_cnt["usb"] - 1
      <4>1. a.report_cnt["usb"] = (h.report_cnt["usb"] - 1) % 256
        BY <1>1, <1>6, <2>1
      <4>2. h.report_cnt["usb"] \in 0 .. Depth("usb")
        BY <1>6, <3>1
      <4>3. h.report_cnt["usb"] = 1 \/ h.report_cnt["usb"] = 2
        BY <3>1, <3>2, <4>2
      <4> QED BY <4>1, <4>3
    <3>4. Fits(a)
      <4>1. ASSUME NEW s \in Subs PROVE a.report_cnt[s] \in 0 .. Depth(s)
        <5>1. Depth(s) \in Nat /\ h.report_cnt[s] \in 0 .. Depth(s)
          BY <3>1, <3>2
        <5>2. CASE s = "usb"
          BY <3>1, <3>3, <5>1, <5>2
        <5>3. CASE s # "usb"
          BY <1>1, <2>1, <5>1, <5>3
        <5> QED BY <5>2, <5>3
      <4>2. ASSUME NEW m \in ReportStates PROVE a.cnt[m] \in 0 .. Depth(m[1])
        <5>1. Depth(m[1]) \in Nat /\ h.cnt[m] \in 0 .. Depth(m[1])
          BY <3>1, <3>2 DEF ReportStates
        <5> QED BY <2>1, <3>1, <5>1
      <4> QED BY <4>1, <4>2 DEF Fits
    <3>5. Fits(y)
      BY <2>2, <3>4 DEF Keeps
    <3>6. /\ \A r \in Reports : /\ Owed(y, r) = a.cnt[Usb(r)]
                                /\ Connected(y, Usb(r)) = Connected(a, Usb(r))
                                /\ ~Connected(a, Usb(r)) => Weigh(y.out, Awaiting(r)) = 0
          /\ Debt(y) = a.report_cnt["usb"] /\ y.on = a.on
      BY <1>3, <2>1, <2>2, KeptCounts
    <3>7. ASSUME NEW r \in Reports, Connected(y, Usb(r))
          PROVE  Owed(y, r) = h.cnt[Usb(r)] - Answer(e, r)
      <4>1. Usb(r) \in ReportStates /\ h.cnt[Usb(r)] \in Int /\ Connected(h, Usb(r))
        BY <1>6, <2>3, <3>7, UsbType
      <4>2. a.cnt[Usb(r)] = IF Usb(r) = l THEN h.cnt[Usb(r)] - 1 ELSE h.cnt[Usb(r)]
        BY <2>1, <4>1
      <4>3. Answer(e, r) = IF Usb(r) = l THEN 1 ELSE 0
        BY <1>7
      <4> QED BY <3>6, <4>1, <4>2, <4>3
    <3>8. Balanced(e, y)
      <4>1. "usb" \in h.on
        BY <1>1, <1>10
      <4>2. Debt(y) = h.report_cnt["usb"] - (Answer(e, "mouse") + Answer(e, "boot"))
        BY <1>8, <3>3, <3>6
      <4>3. \A r \in Reports : ~Connected(y, Usb(r)) => Weigh(y.out, Awaiting(r)) = 0
        BY <3>6
      <4> QED BY <3>7, <4>1, <4>2, <4>3 DEF Balanced
    <3> QED BY <3>5, <3>8
  <2> QED BY <2>7, <2>8 DEF y
<1> QED BY <1>9, <1>10


NoAnswer(e) == e.t \notin {"sent", "failed"}

LEMMA NoAnswers ==
    ASSUME NEW e, NoAnswer(e)
    PROVE  Answer(e, "mouse") + Answer(e, "boot") = 0 /\ \A r \in Reports : Answer(e, r) = 0
BY DEF Answer, NoAnswer

\* The phases that make room for e.
LEMMA SubscriptionPhase ==
    ASSUME NEW e \in Events, e.t = "subscription", NEW c, <<HidPhase(h, e.l), c>> \in PhaseStep(e.l)[e]
    PROVE  IF e.to = "on" THEN HidPhase(h, e.l) = "on" ELSE HidPhase(h, e.l) = "sub"
BY EventKinds DEF PhaseStep

LEMMA SubscriberPhase ==
    ASSUME NEW e \in Events, e.t = "subscriber", NEW l, l[1] = e.s, NEW c,
           <<HidPhase(h, l), c>> \in PhaseStep(l)[e]
    PROVE  IF e.to = "on" THEN HidPhase(h, l) = "off" ELSE HidPhase(h, l) = "on"
BY EventKinds DEF PhaseStep

LEMMA SubscriptionTurn ==
    ASSUME NEW e \in Events, Expected(e), e.t = "subscription"
    PROVE  Turned(e, HidHandler(e)) /\ (Due(e) => Balanced(e, HidHandler(e)) /\ Fits(HidHandler(e)))
<1> DEFINE l == e.l
           y == HidHandler(e)
<1>1. l \in ReportStates /\ e.to \in {"on", "off"}
  BY EventKinds
<1>2. y = IF e.to = "on" THEN Connect(h, l) ELSE Disconnect(h, l)
  BY DEF HidHandler
<1>3. h \in Shapes /\ h.out = <<>> /\ Routed(h) /\ Small(h) /\ Len(h.evq) <= EventQueueSize
  BY DEF Expected
<1>4. MayDiscard(e) /\ NoAnswer(e) /\ e.t # "button"
  BY DEF MayDiscard, NoAnswer
<1>5. IF e.to = "on" THEN HidPhase(h, l) = "on" ELSE HidPhase(h, l) = "sub"
  <2>1. \E c : <<HidPhase(h, l), c>> \in PhaseStep(l)[e]
    BY <1>1 DEF Expected
  <2> QED BY <2>1, SubscriptionPhase
<1>6. \A m \in ReportStates : Connected(h, m) => m[1] \in h.on
  BY <1>3 DEF Routed
<1>7. \A m \in ReportStates :
          PhaseStep(m)[e] = IF m # l THEN {<<"off", "off">>, <<"on", "on">>, <<"sub", "sub">>}
                            ELSE IF e.to = "on" THEN {<<"on", "sub">>} ELSE {<<"sub", "on">>}
  BY DEF PhaseStep
<1> HIDE DEF y, l
<1>8. \E c \in Shapes :
        /\ c.out = h.out /\ c.items = h.items /\ c.evq = h.evq
        /\ c.on = h.on /\ c.report_cnt = h.report_cnt
        /\ \A m \in ReportStates : m # l => c.cnt[m] = h.cnt[m] /\ Connected(c, m) = Connected(h, m)
        /\ (e.to = "on") = Connected(c, l)
        /\ e.to = "on" => c.cnt[l] = h.cnt[l]
        /\ e.to # "on" => c.cnt[l] = 0
        /\ Keeps(c, y) /\ Routed(y)
  <2>1. CASE e.to = "on"
    <3>1. l[1] \in h.on /\ ~Connected(h, l)
      BY <1>5, <2>1 DEF HidPhase
    <3> DEFINE c == [h EXCEPT !.state[l] = "IDLE", !.rd[l] = "data"]
    <3>2. y = Connect(h, l)
      BY <1>2, <2>1
    <3>3. /\ c \in Shapes /\ c.out = h.out /\ c.items = h.items /\ c.evq = h.evq
          /\ c.on = h.on /\ c.report_cnt = h.report_cnt /\ c.cnt = h.cnt
          /\ \A m \in ReportStates : Connected(c, m) = (m = l \/ Connected(h, m))
          /\ Keeps(c, y) /\ Routed(y)
      BY <1>1, <1>3, <3>1, <3>2, ConnectTurns
    <3> HIDE DEF c
    <3>4. \A m \in ReportStates : m # l => Connected(c, m) = Connected(h, m)
      BY <3>3 DEF Connected
    <3> QED BY <1>1, <2>1, <3>3, <3>4
  <2>2. CASE e.to # "on"
    <3>1. Connected(h, l)
      BY <1>5, <2>2 DEF HidPhase
    <3> DEFINE c == [h EXCEPT !.state[l] = "DISCONNECTED", !.cnt[l] = 0, !.rd[l] = "none"]
    <3>2. y = Disconnect(h, l)
      BY <1>2, <2>2
    <3>3. /\ c \in Shapes /\ c.out = h.out /\ c.items = h.items /\ c.evq = h.evq
          /\ c.on = h.on /\ c.report_cnt = h.report_cnt
          /\ \A m \in ReportStates : c.cnt[m] = IF m = l THEN 0 ELSE h.cnt[m]
          /\ \A m \in ReportStates : Connected(c, m) = (m # l /\ Connected(h, m))
          /\ Keeps(c, y) /\ Routed(y)
      BY <1>1, <1>3, <3>1, <3>2, DisconnectTurns
    <3> HIDE DEF c
    <3>4. \A m \in ReportStates : m # l => Connected(c, m) = Connected(h, m)
      BY <3>3 DEF Connected
    <3>5. ~Connected(c, l)
      BY <1>1, <3>3
    <3>6. (e.to = "on") = Connected(c, l)
      BY <2>2, <3>5 DEF Connected
    <3> QED BY <1>1, <2>2, <3>3, <3>4, <3>6
  <2> QED BY <2>1, <2>2
<1>9. PICK c \in Shapes :
        /\ c.out = h.out /\ c.items = h.items /\ c.evq = h.evq
        /\ c.on = h.on /\ c.report_cnt = h.report_cnt
        /\ \A m \in ReportStates : m # l => c.cnt[m] = h.cnt[m] /\ Connected(c, m) = Connected(h, m)
        /\ (e.to = "on") = Connected(c, l)
        /\ e.to = "on" => c.cnt[l] = h.cnt[l]
        /\ e.to # "on" => c.cnt[l] = 0
        /\ Keeps(c, y) /\ Routed(y)
  BY <1>8
<1>10. y \in Shapes /\ y.on = h.on /\ \A m \in ReportStates : Connected(y, m) = Connected(c, m)
  BY <1>9 DEF Keeps
<1>11. \A m \in ReportStates : <<HidPhase(h, m), HidPhase(y, m)>> \in PhaseStep(m)[e]
  <2> SUFFICES ASSUME NEW m \in ReportStates
               PROVE  <<HidPhase(h, m), HidPhase(y, m)>> \in PhaseStep(m)[e]
    OBVIOUS
  <2>1. CASE m # l
    <3>1. HidPhase(h, m) = HidPhase(y, m) /\ HidPhase(h, m) \in {"off", "on", "sub"}
      BY <1>9, <1>10, <2>1 DEF HidPhase
    <3> QED BY <1>7, <2>1, <3>1
  <2>2. CASE m = l /\ e.to = "on"
    <3>1. HidPhase(h, l) = "on" /\ HidPhase(y, l) = "sub"
      BY <1>1, <1>5, <1>9, <1>10, <2>2 DEF HidPhase
    <3> QED BY <1>7, <2>2, <3>1
  <2>3. CASE m = l /\ e.to # "on"
    <3>1. HidPhase(h, l) = "sub" /\ l[1] \in h.on
      BY <1>1, <1>5, <1>6, <2>3 DEF HidPhase
    <3>2. ~Connected(y, l)
      BY <1>1, <1>9, <1>10, <2>3
    <3>3. HidPhase(y, l) = "on"
      BY <1>10, <3>1, <3>2 DEF HidPhase
    <3> QED BY <1>7, <2>3, <3>1, <3>3
  <2> QED BY <2>1, <2>2, <2>3
<1>12. /\ Fresh(h) => Fresh(y)
       /\ \A k \in Keys : \A p, q \in {"up", "down"} :
             KeyOK(h, k, p) /\ <<p, q>> \in ButtonStep(k)[e] => KeyOK(y, k, q)
  BY <1>4, <1>9, KeptKeys
<1>13. Small(y) /\ Len(y.evq) <= EventQueueSize
  BY <1>3, <1>9, KeptSmall
<1>14. Turned(e, y)
  BY <1>4, <1>9, <1>10, <1>11, <1>12, <1>13 DEF Turned
<1>15. ASSUME Due(e) PROVE Balanced(e, y) /\ Fits(y)
  <2>1. /\ \A s \in Subs : h.report_cnt[s] \in 0 .. Depth(s)
        /\ \A m \in ReportStates : h.cnt[m] \in 0 .. Depth(m[1])
    BY <1>15 DEF Due, Fits
  <2>2. \A m \in ReportStates : Depth(m[1]) \in Nat
    BY PipelineAssumption DEF Depth, ReportStates
  <2>3. ASSUME NEW m \in ReportStates PROVE c.cnt[m] \in 0 .. Depth(m[1])
    <3>1. CASE m # l \/ e.to = "on"
      BY <1>9, <2>1, <3>1
    <3>2. CASE m = l /\ e.to # "on"
      BY <1>9, <2>2, <3>2
    <3> QED BY <3>1, <3>2
  <2>4. Fits(c)
    BY <1>9, <2>1, <2>3 DEF Fits
  <2>5. Fits(y)
    BY <1>9, <2>4 DEF Keeps
  <2>6. /\ \A r \in Reports : /\ Owed(y, r) = c.cnt[Usb(r)]
                              /\ Connected(y, Usb(r)) = Connected(c, Usb(r))
                              /\ ~Connected(c, Usb(r)) => Weigh(y.out, Awaiting(r)) = 0
        /\ Debt(y) = c.report_cnt["usb"] /\ y.on = c.on
    BY <1>3, <1>9, KeptCounts
  <2>7. Answer(e, "mouse") + Answer(e, "boot") = 0 /\ \A r \in Reports : Answer(e, r) = 0
    BY <1>4, NoAnswers
  <2>8. ASSUME NEW r \in Reports, Connected(y, Usb(r)) PROVE Owed(y, r) = h.cnt[Usb(r)] - Answer(e, r)
    <3>1. Usb(r) \in ReportStates /\ h.cnt[Usb(r)] \in Int
      BY <1>3, UsbType DEF Shapes
    <3>2. c.cnt[Usb(r)] = h.cnt[Usb(r)]
      <4>1. CASE Usb(r) # l
        BY <1>9, <3>1, <4>1
      <4>2. CASE Usb(r) = l
        BY <1>9, <2>6, <2>8, <4>2
      <4> QED BY <4>1, <4>2
    <3> QED BY <2>6, <2>7, <3>1, <3>2
  <2>9. \A r \in Reports : ~Connected(y, Usb(r)) => Weigh(y.out, Awaiting(r)) = 0
    BY <2>6
  <2>10. "usb" \in y.on => Debt(y) = (IF "usb" \in h.on THEN h.report_cnt["usb"] ELSE 0)
                                     - (Answer(e, "mouse") + Answer(e, "boot"))
    <3>1. h.report_cnt["usb"] \in Int
      BY <1>3 DEF Shapes, Subs
    <3> QED BY <1>9, <2>6, <2>7, <3>1
  <2> QED BY <2>5, <2>8, <2>9, <2>10 DEF Balanced
<1> QED BY <1>14, <1>15 DEF y

LEMMA SubscriberTurn ==
    ASSUME NEW e \in Events, Expected(e), e.t = "subscriber"
    PROVE  Turned(e, HidHandler(e)) /\ (Due(e) => Balanced(e, HidHandler(e)) /\ Fits(HidHandler(e)))
<1> DEFINE s == e.s
           y == HidHandler(e)
<1>1. s \in Subs /\ e.to \in {"on", "off"}
  BY EventKinds
<1>2. y = IF e.to = "on" THEN ConnectSubscriber(h, s) ELSE DisconnectSubscriber(h, s)
  BY DEF HidHandler
<1>3. h \in Shapes /\ h.out = <<>> /\ Routed(h) /\ Small(h) /\ Len(h.evq) <= EventQueueSize
  BY DEF Expected
<1>4. MayDiscard(e) /\ NoAnswer(e) /\ e.t # "button"
  BY DEF MayDiscard, NoAnswer
<1>5. \A l \in ReportStates : l[1] = s =>
          IF e.to = "on" THEN HidPhase(h, l) = "off" ELSE HidPhase(h, l) = "on"
  <2> SUFFICES ASSUME NEW l \in ReportStates, l[1] = s
               PROVE  IF e.to = "on" THEN HidPhase(h, l) = "off" ELSE HidPhase(h, l) = "on"
    OBVIOUS
  <2>1. \E c : <<HidPhase(h, l), c>> \in PhaseStep(l)[e]
    BY DEF Expected
  <2> QED BY <2>1, SubscriberPhase
<1>6. \A m \in ReportStates :
          PhaseStep(m)[e] = IF m[1] # s THEN {<<"off", "off">>, <<"on", "on">>, <<"sub", "sub">>}
                            ELSE IF e.to = "on" THEN {<<"off", "on">>} ELSE {<<"on", "off">>}
  BY DEF PhaseStep
<1>7. <<s, "mouse">> \in ReportStates /\ <<s, "mouse">>[1] = s
  BY <1>1 DEF ReportStates, Reports
<1> HIDE DEF y, s
<1>8. \A l \in ReportStates : l[1] = s => ~Connected(h, l)
  BY <1>5 DEF HidPhase
<1>9. /\ y \in Shapes /\ y.out = h.out /\ y.items = h.items /\ y.evq = h.evq
      /\ y.on = IF e.to = "on" THEN h.on \union {s} ELSE h.on \ {s}
      /\ s \in h.on <=> e.to # "on"
      /\ \A t \in Subs : y.report_cnt[t] = IF t = s THEN 0 ELSE h.report_cnt[t]
      /\ \A m \in ReportStates : Connected(y, m) = Connected(h, m) /\ y.cnt[m] = h.cnt[m]
      /\ Routed(y)
  <2>1. CASE e.to = "on"
    <3>1. HidPhase(h, <<s, "mouse">>) = "off"
      BY <1>5, <1>7, <2>1
    <3>2. s \notin h.on
      BY <1>7, <3>1 DEF HidPhase
    <3>3. y = ConnectSubscriber(h, s)
      BY <1>2, <2>1
    <3>4. /\ y \in Shapes /\ y.out = h.out /\ y.items = h.items /\ y.evq = h.evq
          /\ y.on = h.on \union {s} /\ y.cnt = h.cnt
          /\ \A t \in Subs : y.report_cnt[t] = IF t = s THEN 0 ELSE h.report_cnt[t]
          /\ \A m \in ReportStates : Connected(y, m) = Connected(h, m)
          /\ Routed(y)
      BY <1>1, <1>3, <3>2, <3>3, ConnectSubscriberTurns
    <3> QED BY <2>1, <3>2, <3>4
  <2>2. CASE e.to # "on"
    <3>1. HidPhase(h, <<s, "mouse">>) = "on"
      BY <1>5, <1>7, <2>2
    <3>2. s \in h.on
      BY <1>7, <1>8, <3>1 DEF HidPhase
    <3>3. y = DisconnectSubscriber(h, s)
      BY <1>2, <2>2
    <3>4. /\ y \in Shapes /\ y.out = h.out /\ y.items = h.items /\ y.evq = h.evq
          /\ y.on = h.on \ {s}
          /\ \A t \in Subs : y.report_cnt[t] = IF t = s THEN 0 ELSE h.report_cnt[t]
          /\ \A m \in ReportStates : Connected(y, m) = Connected(h, m) /\ y.cnt[m] = h.cnt[m]
          /\ Routed(y)
      BY <1>1, <1>3, <1>8, <3>2, <3>3, DisconnectSubscriberTurns
    <3> QED BY <2>2, <3>2, <3>4
  <2> QED BY <2>1, <2>2
<1>10. Keeps(y, y)
  BY <1>9, SendsSelf DEF Sends
<1>11. \A m \in ReportStates : <<HidPhase(h, m), HidPhase(y, m)>> \in PhaseStep(m)[e]
  <2> SUFFICES ASSUME NEW m \in ReportStates
               PROVE  <<HidPhase(h, m), HidPhase(y, m)>> \in PhaseStep(m)[e]
    OBVIOUS
  <2>1. CASE m[1] # s
    <3>1. m[1] \in y.on <=> m[1] \in h.on
      BY <1>9, <2>1
    <3>2. HidPhase(h, m) = HidPhase(y, m) /\ HidPhase(h, m) \in {"off", "on", "sub"}
      BY <1>9, <3>1 DEF HidPhase
    <3> QED BY <1>6, <2>1, <3>2
  <2>2. CASE m[1] = s
    <3>1. ~Connected(y, m) /\ ~Connected(h, m)
      BY <1>8, <1>9, <2>2
    <3>2. CASE e.to = "on"
      <4>1. HidPhase(h, m) = "off" /\ HidPhase(y, m) = "on"
        BY <1>9, <2>2, <3>1, <3>2 DEF HidPhase
      <4> QED BY <1>6, <2>2, <3>2, <4>1
    <3>3. CASE e.to # "on"
      <4>1. HidPhase(h, m) = "on" /\ HidPhase(y, m) = "off"
        BY <1>9, <2>2, <3>1, <3>3 DEF HidPhase
      <4> QED BY <1>6, <2>2, <3>3, <4>1
    <3> QED BY <3>2, <3>3
  <2> QED BY <2>1, <2>2
<1>12. /\ Fresh(h) => Fresh(y)
       /\ \A k \in Keys : \A p, q \in {"up", "down"} :
             KeyOK(h, k, p) /\ <<p, q>> \in ButtonStep(k)[e] => KeyOK(y, k, q)
  BY <1>4, <1>9, <1>10, KeptKeys
<1>13. Small(y) /\ Len(y.evq) <= EventQueueSize
  BY <1>3, <1>9, <1>10, KeptSmall
<1>14. Turned(e, y)
  BY <1>4, <1>9, <1>11, <1>12, <1>13 DEF Turned
<1>15. ASSUME Due(e) PROVE Balanced(e, y) /\ Fits(y)
  <2>1. /\ \A t \in Subs : h.report_cnt[t] \in 0 .. Depth(t)
        /\ \A m \in ReportStates : h.cnt[m] \in 0 .. Depth(m[1])
    BY <1>15 DEF Due, Fits
  <2>2. \A t \in Subs : Depth(t) \in Nat
    BY PipelineAssumption DEF Depth
  <2>3. \A t \in Subs : y.report_cnt[t] \in 0 .. Depth(t)
    BY <1>9, <2>1, <2>2
  <2>4. Fits(y)
    BY <1>9, <2>1, <2>3 DEF Fits
  <2>5. /\ \A r \in Reports : Owed(y, r) = y.cnt[Usb(r)] /\ Weigh(y.out, Awaiting(r)) = 0
        /\ Debt(y) = y.report_cnt["usb"]
    BY <1>3, <1>9, EmptyOut
  <2>6. Answer(e, "mouse") + Answer(e, "boot") = 0 /\ \A r \in Reports : Answer(e, r) = 0
    BY <1>4, NoAnswers
  <2>7. ASSUME NEW r \in Reports PROVE Owed(y, r) = h.cnt[Usb(r)] - Answer(e, r)
    <3>1. Usb(r) \in ReportStates /\ h.cnt[Usb(r)] \in Int
      BY <1>3, UsbType DEF Shapes
    <3> QED BY <1>9, <2>5, <2>6, <3>1
  <2>8. "usb" \in y.on => Debt(y) = (IF "usb" \in h.on THEN h.report_cnt["usb"] ELSE 0)
                                    - (Answer(e, "mouse") + Answer(e, "boot"))
    <3>1. h.report_cnt["usb"] \in Int /\ "usb" \in Subs
      BY <1>3 DEF Shapes, Subs
    <3>2. CASE s = "usb" /\ e.to = "on"
      BY <1>9, <2>5, <2>6, <3>1, <3>2
    <3>3. CASE s = "usb" /\ e.to # "on"
      BY <1>9, <3>3
    <3>4. CASE s # "usb"
      BY <1>9, <2>5, <2>6, <3>1, <3>4
    <3> QED BY <3>2, <3>3, <3>4
  <2> QED BY <2>4, <2>5, <2>7, <2>8 DEF Balanced
<1> QED BY <1>14, <1>15 DEF y

LEMMA MotionTurn ==
    ASSUME NEW e \in Events, Expected(e), e.t = "motion"
    PROVE  Turned(e, HidHandler(e)) /\ (Due(e) => Balanced(e, HidHandler(e)) /\ Fits(HidHandler(e)))
<1> DEFINE y == HidHandler(e)
           dx == e.dx
<1>1. dx \in Int
  BY EventKinds, ConstantsAssumption
<1>2. y = Motion(h, dx)
  BY DEF HidHandler
<1>3. h \in Shapes /\ h.out = <<>> /\ Routed(h) /\ Small(h) /\ Len(h.evq) <= EventQueueSize
  BY DEF Expected
<1>4. NoAnswer(e) /\ e.t # "button" /\ e.t \notin {"subscriber", "subscription"}
  BY DEF NoAnswer
<1> HIDE DEF y
<1>5. /\ Keeps(h, y) /\ Routed(y) /\ y.link = h.link
      /\ h.link[1] = "usb" => Moving(y) = Moving(h) + dx
  BY <1>1, <1>2, <1>3, MotionSends
<1>6. y \in Shapes /\ y.on = h.on /\ \A m \in ReportStates : Connected(y, m) = Connected(h, m)
  BY <1>5 DEF Keeps
<1>7. \A m \in ReportStates : <<HidPhase(h, m), HidPhase(y, m)>> \in PhaseStep(m)[e]
  BY <1>4, <1>6, NoPhase
<1>8. /\ Fresh(h) => Fresh(y)
      /\ \A k \in Keys : \A p, q \in {"up", "down"} :
            KeyOK(h, k, p) /\ <<p, q>> \in ButtonStep(k)[e] => KeyOK(y, k, q)
  BY <1>4, <1>5, KeptKeys
<1>9. Small(y) /\ Len(y.evq) <= EventQueueSize
  BY <1>3, <1>5, KeptSmall
<1>10. h.link[1] = "usb" => Moving(y) = h.axis + dx
  BY <1>3, <1>5, EmptyOut
<1>11. Turned(e, y)
  BY <1>5, <1>6, <1>7, <1>8, <1>9, <1>10 DEF Turned
<1>12. ASSUME Due(e) PROVE Balanced(e, y) /\ Fits(y)
  <2>1. Fits(y)
    BY <1>5, <1>12 DEF Due, Keeps
  <2>2. /\ \A r \in Reports : /\ Owed(y, r) = h.cnt[Usb(r)]
                              /\ Connected(y, Usb(r)) = Connected(h, Usb(r))
                              /\ ~Connected(h, Usb(r)) => Weigh(y.out, Awaiting(r)) = 0
        /\ Debt(y) = h.report_cnt["usb"] /\ y.on = h.on
    BY <1>3, <1>5, KeptCounts
  <2>3. Answer(e, "mouse") + Answer(e, "boot") = 0 /\ \A r \in Reports : Answer(e, r) = 0
    BY <1>4, NoAnswers
  <2>4. h.report_cnt["usb"] \in Int /\ \A r \in Reports : h.cnt[Usb(r)] \in Int
    BY <1>3, UsbType DEF Shapes, Subs
  <2> QED BY <2>1, <2>2, <2>3, <2>4 DEF Balanced
<1> QED BY <1>11, <1>12 DEF y

LEMMA ButtonTurn ==
    ASSUME NEW e \in Events, Expected(e), e.t = "button"
    PROVE  Turned(e, HidHandler(e)) /\ (Due(e) => Balanced(e, HidHandler(e)) /\ Fits(HidHandler(e)))
<1> DEFINE y == HidHandler(e)
           key == e.key
           val == e.val
<1>1. key \in Keys /\ val \in Values
  BY EventKinds
<1>2. y = UpdateKey(h, key, val)
  BY DEF HidHandler
<1>3. h \in Shapes /\ h.out = <<>> /\ Routed(h) /\ Small(h) /\ Len(h.evq) <= EventQueueSize
  BY DEF Expected
<1>4. NoAnswer(e) /\ e.t \notin {"subscriber", "subscription"}
  BY DEF NoAnswer
<1>5. ~MayDiscard(e) => Len(h.evq) # EventQueueSize
  BY DEF MayDiscard
<1> HIDE DEF y
<1>6. /\ y \in Shapes /\ y.on = h.on /\ y.link = h.link /\ Routed(y)
      /\ \A l \in ReportStates : Connected(y, l) = Connected(h, l)
      /\ Fits(h) => Fits(y)
      /\ (\A r \in Reports : Owed(y, r) = Owed(h, r)) /\ Debt(y) = Debt(h)
      /\ Len(h.evq) # EventQueueSize /\ h.link[1] = "usb" => Moving(y) = Moving(h)
      /\ Small(y) /\ Len(y.evq) <= EventQueueSize
      /\ Fresh(h) => Fresh(y)
      /\ Fresh(h) => \A k \in Keys : \A c, d \in {"up", "down"} :
             KeyOK(h, k, c) /\ Moves(k, c, d, key, val) => KeyOK(y, k, d)
  BY <1>1, <1>2, <1>3, UpdateKeyTurns
<1>7. \A m \in ReportStates : <<HidPhase(h, m), HidPhase(y, m)>> \in PhaseStep(m)[e]
  BY <1>4, <1>6, NoPhase
<1>8. ASSUME NEW k \in Keys, NEW c \in {"up", "down"}, NEW d \in {"up", "down"},
             <<c, d>> \in ButtonStep(k)[e]
      PROVE  Moves(k, c, d, key, val)
  BY <1>8 DEF ButtonStep, Moves
<1>9. Moving(h) = h.axis /\ h.axis \in Int
  BY <1>3, EmptyOut DEF Shapes
<1>10. Turned(e, y)
  <2>1. ~MayDiscard(e) =>
          /\ y.link = h.link
          /\ h.link[1] = "usb" => Moving(y) = h.axis + IF e.t = "motion" THEN e.dx ELSE 0
    BY <1>5, <1>6, <1>9
  <2> QED BY <1>6, <1>7, <1>8, <2>1 DEF Turned
<1>11. ASSUME Due(e) PROVE Balanced(e, y) /\ Fits(y)
  <2>1. Fits(y)
    BY <1>6, <1>11 DEF Due
  <2>2. Answer(e, "mouse") + Answer(e, "boot") = 0 /\ \A r \in Reports : Answer(e, r) = 0
    BY <1>4, NoAnswers
  <2>3. h.report_cnt["usb"] \in Int /\ \A r \in Reports : h.cnt[Usb(r)] \in Int
    BY <1>3, UsbType DEF Shapes, Subs
  <2>4. (\A r \in Reports : Owed(y, r) = h.cnt[Usb(r)]) /\ Debt(y) = h.report_cnt["usb"]
    BY <1>3, <1>6, EmptyOut
  <2>5. ASSUME NEW r \in Reports, ~Connected(y, Usb(r)) PROVE Weigh(y.out, Awaiting(r)) = 0
    <3> DEFINE w == Weigh(y.out, Awaiting(r))
               n == y.cnt[Usb(r)]
    <3>1. w \in Int
      <4>1. y.out \in Seq(HidReports)
        BY <1>6 DEF Shapes
      <4> QED BY <4>1, ReportsAreEvents, WeighType, AwaitingInt
    <3>2. n = 0 /\ h.cnt[Usb(r)] = 0
      <4>1. Usb(r) \in ReportStates /\ ~Connected(h, Usb(r))
        BY <1>6, <2>5, UsbType
      <4> QED BY <1>3, <1>6, <2>5, <4>1 DEF Routed
    <3>3. n - w = 0
      BY <2>4, <3>2 DEF Owed
    <3> HIDE DEF w, n
    <3>4. w = 0
      BY <3>1, <3>2, <3>3
    <3> QED BY <3>4 DEF w
  <2> QED BY <1>6, <2>1, <2>2, <2>3, <2>4, <2>5 DEF Balanced
<1> QED BY <1>10, <1>11 DEF y

LEMMA EventTurn ==
    ASSUME NEW e \in Events, Expected(e)
    PROVE  Turned(e, HidHandler(e)) /\ (Due(e) => Balanced(e, HidHandler(e)) /\ Fits(HidHandler(e)))
BY EventKinds, ReportTurn, IssuedTurn, SubscriptionTurn, SubscriberTurn, MotionTurn, ButtonTurn

-----------------------------------------------------------------------------
(* What a step adds to the event queue.                                    *)

Adds(p, q, S) == \E u \in Seq(S) : q = p \o u

\* Reports and their answers; they leave sessions and buttons alone.
Traffic == {e \in Events : e.t \in {"report", "sent", "failed"}}
Answers == {e \in Events : e.t \in {"sent", "failed"}}

LEMMA AddsNone == ASSUME NEW p \in Seq(Events), NEW S PROVE Adds(p, p, S)
<1>1. p = p \o <<>> /\ <<>> \in Seq(S)
  BY ConcatEmptySeq, EmptySeq
<1> QED BY <1>1 DEF Adds

LEMMA AddsConcat ==
    ASSUME NEW p \in Seq(Events), NEW S, S \subseteq Events, NEW q, Adds(p, q, S), NEW v \in Seq(S)
    PROVE  Adds(p, q \o v, S) /\ q \in Seq(Events) /\ q \o v \in Seq(Events)
<1>1. PICK u \in Seq(S) : q = p \o u
  BY DEF Adds
<1>2. u \in Seq(Events) /\ v \in Seq(Events) /\ u \o v \in Seq(S)
  BY SeqMonotonic, ConcatProperties
<1>3. q \in Seq(Events)
  BY <1>1, <1>2, ConcatProperties
<1>4. q \o v \in Seq(Events)
  BY <1>2, <1>3, ConcatProperties
<1>5. q \o v = p \o (u \o v)
  BY <1>1, <1>2, ConcatAssociative
<1> QED BY <1>2, <1>3, <1>4, <1>5 DEF Adds

LEMMA AddsAppend ==
    ASSUME NEW p \in Seq(Events), NEW S, S \subseteq Events, NEW q, Adds(p, q, S), NEW e \in S
    PROVE  Adds(p, Append(q, e), S) /\ q \in Seq(Events) /\ Append(q, e) \in Seq(Events)
<1>1. <<e>> \in Seq(S) /\ <<>> \in Seq(S) /\ e \in Events
  BY EmptySeq
<1>2. q \in Seq(Events)
  BY <1>1, AddsConcat
<1>3. Append(q, e) = q \o <<e>>
  BY <1>1, <1>2, AppendIsConcat
<1> QED BY <1>1, <1>3, AddsConcat

LEMMA AddsTwice ==
    ASSUME NEW p \in Seq(Events), NEW S, S \subseteq Events, NEW q, NEW z, Adds(p, q, S), Adds(q, z, S)
    PROVE  Adds(p, z, S)
<1>1. PICK v \in Seq(S) : z = q \o v
  BY DEF Adds
<1> QED BY <1>1, AddsConcat

LEMMA AddsMore ==
    ASSUME NEW p, NEW q, NEW S, NEW Z, S \subseteq Z, Adds(p, q, S)
    PROVE  Adds(p, q, Z)
<1>1. PICK u \in Seq(S) : q = p \o u
  BY DEF Adds
<1>2. u \in Seq(Z)
  BY SeqMonotonic
<1> QED BY <1>1, <1>2 DEF Adds

LEMMA AddsType ==
    ASSUME NEW p \in Seq(Events), NEW S, S \subseteq Events, NEW q, Adds(p, q, S)
    PROVE  /\ q \in Seq(Events) /\ Len(p) \in Nat /\ Len(q) \in Nat /\ Len(p) <= Len(q)
           /\ DOMAIN p = 1 .. Len(p) /\ DOMAIN q = 1 .. Len(q)
           /\ \A i \in 1 .. Len(p) : q[i] = p[i]
           /\ \A i \in Len(p) + 1 .. Len(q) : q[i] \in S
<1>1. PICK u \in Seq(S) : q = p \o u
  BY DEF Adds
<1>2. u \in Seq(Events)
  BY SeqMonotonic
<1>3. /\ q \in Seq(Events) /\ Len(q) = Len(p) + Len(u)
      /\ \A i \in 1 .. Len(p) + Len(u) : q[i] = IF i <= Len(p) THEN p[i] ELSE u[i - Len(p)]
  BY <1>1, <1>2, ConcatProperties
<1>4. Len(p) \in Nat /\ Len(u) \in Nat /\ Len(q) \in Nat
      /\ DOMAIN p = 1 .. Len(p) /\ DOMAIN q = 1 .. Len(q)
  BY <1>2, <1>3, LenProperties
<1>5. ASSUME NEW i \in Len(p) + 1 .. Len(q) PROVE q[i] \in S
  <2>1. i - Len(p) \in 1 .. Len(u) /\ i \in 1 .. Len(p) + Len(u) /\ ~(i <= Len(p))
    BY <1>3, <1>4
  <2>2. u[i - Len(p)] \in S
    BY <2>1, ElementOfSeq
  <2> QED BY <1>3, <2>1, <2>2
<1> QED BY <1>3, <1>4, <1>5

\* The end of a queue moves from b to c.
Ends(p, q, T, b, c) == \A a : Leads(p, T, a, b) => Leads(q, T, a, c)

LEMMA EndsSelf == ASSUME NEW p, NEW T, NEW b PROVE Ends(p, p, T, b, b)
BY DEF Ends

LEMMA EndsAppend ==
    ASSUME NEW p \in Seq(Events), NEW e \in Events, NEW T, NEW b, NEW c, <<b, c>> \in T[e]
    PROVE  Ends(p, Append(p, e), T, b, c)
BY LeadsAppend DEF Ends

LEMMA EndsIdle ==
    ASSUME NEW p \in Seq(Events), NEW S, S \subseteq Events, NEW q, Adds(p, q, S),
           NEW T, NEW b, \A e \in S : <<b, b>> \in T[e]
    PROVE  Ends(p, q, T, b, b)
<1> SUFFICES ASSUME NEW a, Leads(p, T, a, b) PROVE Leads(q, T, a, b)
  BY DEF Ends
<1>1. PICK u \in Seq(S) : q = p \o u
  BY DEF Adds
<1>2. u \in Seq(Events) /\ Len(u) \in Nat /\ \A i \in 1 .. Len(u) : u[i] \in S
  BY SeqMonotonic, LenProperties, ElementOfSeq
<1>3. Leads(u, T, b, b)
  BY <1>2, LeadsIdle
<1> QED BY <1>1, <1>2, <1>3, LeadsConcat

\* Sessions and buttons end where they did.
Idles(p, q) ==
    /\ \A l \in ReportStates : \A b \in Phases : Ends(p, q, PhaseStep(l), b, b)
    /\ \A k \in Keys : \A b \in {"up", "down"} : Ends(p, q, ButtonStep(k), b, b)

LEMMA TrafficIdles ==
    ASSUME NEW p \in Seq(Events), NEW q, Adds(p, q, Traffic)
    PROVE  Idles(p, q)
<1>1. Traffic \subseteq Events
  BY DEF Traffic
<1>2. ASSUME NEW l \in ReportStates, NEW b \in Phases PROVE Ends(p, q, PhaseStep(l), b, b)
  <2>1. \A e \in Traffic : <<b, b>> \in PhaseStep(l)[e]
    BY DEF PhaseStep, Phases, Traffic
  <2> QED BY <1>1, <2>1, EndsIdle
<1>3. ASSUME NEW k \in Keys, NEW b \in {"up", "down"} PROVE Ends(p, q, ButtonStep(k), b, b)
  <2>1. \A e \in Traffic : <<b, b>> \in ButtonStep(k)[e]
    BY DEF ButtonStep, Traffic
  <2> QED BY <1>1, <2>1, EndsIdle
<1> QED BY <1>2, <1>3 DEF Idles

LEMMA AnswersAreTraffic == Answers \subseteq Traffic /\ Traffic \subseteq Events /\ Answers \subseteq Events
BY DEF Answers, Traffic

\* A failure in the queue stays there.
Failed(q) == \E i \in DOMAIN q : q[i].t = "failed"

LEMMA FailedStays ==
    ASSUME NEW p \in Seq(Events), NEW q, Adds(p, q, Events), Failed(p)
    PROVE  Failed(q)
<1>1. PICK i \in DOMAIN p : p[i].t = "failed"
  BY DEF Failed
<1>2. /\ Len(p) \in Nat /\ Len(q) \in Nat /\ Len(p) <= Len(q)
      /\ DOMAIN p = 1 .. Len(p) /\ DOMAIN q = 1 .. Len(q)
      /\ \A j \in 1 .. Len(p) : q[j] = p[j]
  <2>1. Events \subseteq Events
    OBVIOUS
  <2> QED BY <2>1, AddsType
<1>3. i \in DOMAIN q /\ q[i] = p[i]
  BY <1>2
<1> QED BY <1>1, <1>3 DEF Failed

LEMMA FailedAppend ==
    ASSUME NEW p \in Seq(Events), NEW e \in Events, e.t = "failed"
    PROVE  Failed(Append(p, e))
<1>1. Append(p, e) \in Seq(Events) /\ Len(Append(p, e)) = Len(p) + 1 /\ Append(p, e)[Len(p) + 1] = e
  BY AppendProperties
<1>2. Len(p) \in Nat /\ DOMAIN Append(p, e) = 1 .. Len(p) + 1
  BY <1>1, LenProperties
<1> QED BY <1>1, <1>2 DEF Failed

-----------------------------------------------------------------------------
(* usb_state.c: a report stays awaited until its answer is handled.        *)

UsbReports == {e \in HidReports : e.l[1] = "usb"}
Usbs == [mode : {"off", "BOOT", "REPORT"}, report_enabled : SUBSET Reports,
         bufs : Seq(UsbReports), sof : Reports \union {NoReport}]
Devices == [usb : Usbs, ev : Seq(Events)]

Held1(u, r) == IF u.sof = r THEN 1 ELSE 0
Outside(d, r) == Weigh(d.ev, Awaiting(r)) + Weigh(d.usb.bufs, Awaiting(r)) + Held1(d.usb, r)
Carried(d) == Weigh(d.ev, Dx) + Weigh(d.usb.bufs, Dx)

(* What usb_state.c does to the reports it has: it answers them.           *)
Serves(d, f) ==
    /\ f \in Devices
    /\ f.usb.mode = d.usb.mode /\ f.usb.report_enabled = d.usb.report_enabled
    /\ Adds(d.ev, f.ev, Answers)
    /\ \A r \in Reports : Outside(f, r) = Outside(d, r)

LEMMA UsbReportType ==
    ASSUME NEW e \in UsbReports
    PROVE  /\ e \in Events /\ e \in HidReports /\ e.l[2] \in Reports /\ e.l = Usb(e.l[2])
           /\ e.dx \in Int /\ Dx[e] = e.dx
           /\ \A r \in Reports : Awaiting(r)[e] = IF r = e.l[2] THEN 1 ELSE 0
<1>1. e \in HidReports /\ e.l[1] = "usb" /\ e.t = "report" /\ e.l \in ReportStates /\ e.dx \in Int
  BY DEF UsbReports, HidReports
<1>2. e \in Events
  BY <1>1 DEF Events
<1>3. e.l[2] \in Reports /\ e.l = Usb(e.l[2])
  BY <1>1 DEF Usb, ReportStates
<1>4. Dx[e] = e.dx
  BY <1>1, <1>2 DEF Dx, ToUsb
<1>5. \A r \in Reports : Awaiting(r)[e] = IF r = e.l[2] THEN 1 ELSE 0
  BY <1>1, <1>2, <1>3 DEF Awaiting, Usb
<1> QED BY <1>1, <1>2, <1>3, <1>4, <1>5

LEMMA BufsType ==
    ASSUME NEW q \in Seq(UsbReports)
    PROVE  q \in Seq(Events) /\ q \in Seq(HidReports) /\ Len(q) \in Nat
<1>1. UsbReports \subseteq Events /\ UsbReports \subseteq HidReports
  BY UsbReportType
<1> QED BY <1>1, SeqMonotonic, LenProperties

LEMMA OutsideType ==
    ASSUME NEW d \in Devices, NEW r
    PROVE  /\ Weigh(d.ev, Awaiting(r)) \in Nat /\ Weigh(d.usb.bufs, Awaiting(r)) \in Nat
           /\ Held1(d.usb, r) \in 0 .. 1 /\ Outside(d, r) \in Nat
<1>1. d.ev \in Seq(Events) /\ d.usb.bufs \in Seq(UsbReports)
  BY DEF Devices, Usbs
<1>2. Weigh(d.ev, Awaiting(r)) \in Nat /\ Weigh(d.usb.bufs, Awaiting(r)) \in Nat
  BY <1>1, BufsType, WeighNatural, AwaitingType
<1> QED BY <1>2 DEF Held1, Outside

LEMMA CarriedType ==
    ASSUME NEW d \in Devices
    PROVE  Weigh(d.ev, Dx) \in Int /\ Weigh(d.usb.bufs, Dx) \in Int /\ Carried(d) \in Int
<1>1. d.ev \in Seq(Events) /\ d.usb.bufs \in Seq(UsbReports)
  BY DEF Devices, Usbs
<1>2. Weigh(d.ev, Dx) \in Int /\ Weigh(d.usb.bufs, Dx) \in Int
  BY <1>1, BufsType, WeighType, DxType
<1> QED BY <1>2 DEF Carried

LEMMA ServesTwice ==
    ASSUME NEW d \in Devices, NEW f, NEW g, Serves(d, f), Serves(f, g)
    PROVE  Serves(d, g)
<1>1. d.ev \in Seq(Events) /\ f \in Devices /\ g \in Devices
  BY DEF Serves, Devices
<1>2. Adds(d.ev, g.ev, Answers)
  <2>1. Adds(d.ev, f.ev, Answers) /\ Adds(f.ev, g.ev, Answers)
    BY DEF Serves
  <2> QED BY <1>1, <2>1, AnswersAreTraffic, AddsTwice
<1> QED BY <1>1, <1>2 DEF Serves

LEMMA ServesSelf == ASSUME NEW d \in Devices PROVE Serves(d, d)
<1>1. d.ev \in Seq(Events)
  BY DEF Devices
<1> QED BY <1>1, AddsNone DEF Serves

\* The event that answers r, if r is a report.
AnswerOf(r, error) == IF r = NoReport THEN <<>> ELSE <<Sent(r, error)>>

LEMMA AnswerOne ==
    ASSUME NEW r \in Reports \union {NoReport}, NEW error \in BOOLEAN
    PROVE  /\ AnswerOf(r, error) \in Seq(Answers) /\ AnswerOf(r, error) \in Seq(Events)
           /\ Weigh(AnswerOf(r, error), Dx) = 0
           /\ \A s \in Reports : Weigh(AnswerOf(r, error), Awaiting(s)) = IF r = s THEN 1 ELSE 0
<1> DEFINE v == AnswerOf(r, error)
<1>1. CASE r = NoReport
  <2>1. v = <<>> /\ r \notin Reports
    BY <1>1 DEF NoReport, Reports, AnswerOf
  <2> HIDE DEF v
  <2>2. v \in Seq(Answers) /\ v \in Seq(Events)
    BY <2>1, EmptySeq
  <2>3. Weigh(v, Dx) = 0 /\ \A s \in Reports : Weigh(v, Awaiting(s)) = IF r = s THEN 1 ELSE 0
    BY <2>1, WeighEmpty
  <2> QED BY <2>2, <2>3 DEF v
<1>2. CASE r # NoReport
  <2> DEFINE e == Sent(r, error)
  <2>1. e \in Events /\ e.t \in {"sent", "failed"} /\ Dx[e] = 0
        /\ \A s \in Reports : Awaiting(s)[e] = IF s = r THEN 1 ELSE 0
    BY <1>2, SentEvent
  <2>2. v = <<e>>
    BY <1>2 DEF AnswerOf
  <2> HIDE DEF e, v
  <2>3. e \in Answers
    BY <2>1 DEF Answers
  <2>4. Weigh(v, Dx) = 0
    BY <2>1, <2>2, WeighOne, DxType
  <2>5. \A s \in Reports : Weigh(v, Awaiting(s)) = IF r = s THEN 1 ELSE 0
    BY <2>1, <2>2, WeighOne, AwaitingInt
  <2>6. v \in Seq(Answers) /\ v \in Seq(Events)
    BY <2>1, <2>2, <2>3
  <2> QED BY <2>4, <2>5, <2>6 DEF v
<1> QED BY <1>1, <1>2

LEMMA ReportSentServes ==
    ASSUME NEW d \in Devices, d.usb.bufs # <<>>, NEW error \in BOOLEAN, NEW f, f = ReportSent(d, error)
    PROVE  /\ Serves(d, f) /\ f.usb.bufs = Tail(d.usb.bufs)
           /\ Carried(f) = Carried(d) - d.usb.bufs[1].dx
           /\ d.usb.bufs[1] \in UsbReports
           /\ error => Failed(f.ev) /\ f.usb.sof = NoReport
<1> DEFINE b == d.usb.bufs
           e == b[1]
           r == e.l[2]
           hold == SentOnSof /\ ~error
           held == AnswerOf(d.usb.sof, FALSE)
           kept == IF hold THEN r ELSE NoReport
           now == IF hold THEN NoReport ELSE r
           last == AnswerOf(now, error)
<1>1. /\ b \in Seq(UsbReports) /\ d.ev \in Seq(Events) /\ d.usb.sof \in Reports \union {NoReport}
      /\ d.usb \in Usbs
  BY DEF Devices, Usbs
<1>2. e = Head(b) /\ e \in UsbReports /\ Tail(b) \in Seq(UsbReports)
      /\ Len(Tail(b)) <= Len(b)
  <2>1. Head(b) \in UsbReports /\ Tail(b) \in Seq(UsbReports) /\ Len(Tail(b)) = Len(b) - 1
    BY <1>1, HeadTailProperties
  <2> QED BY <1>1, <2>1, BufsType
<1>3. /\ r \in Reports /\ r # NoReport /\ e.dx \in Int /\ Dx[e] = e.dx
      /\ \A s \in Reports : Awaiting(s)[e] = IF s = r THEN 1 ELSE 0
  BY <1>2, UsbReportType DEF Reports, NoReport
<1>4. /\ held \in Seq(Answers) /\ held \in Seq(Events) /\ Weigh(held, Dx) = 0
      /\ \A s \in Reports : Weigh(held, Awaiting(s)) = Held1(d.usb, s)
  BY <1>1, AnswerOne DEF Held1
<1>5. /\ last \in Seq(Answers) /\ last \in Seq(Events) /\ Weigh(last, Dx) = 0
      /\ \A s \in Reports : Weigh(last, Awaiting(s)) = IF now = s THEN 1 ELSE 0
  <2>1. now \in Reports \union {NoReport}
    BY <1>3
  <2> HIDE DEF now
  <2> QED BY <2>1, AnswerOne
<1>6. f.usb = [d.usb EXCEPT !.bufs = Tail(b), !.sof = kept] /\ f.ev = d.ev \o held \o last
      /\ f = [usb |-> f.usb, ev |-> f.ev]
  <2>1. last = IF hold THEN <<>> ELSE <<Sent(r, error)>>
    BY <1>3 DEF AnswerOf
  <2> QED BY <2>1 DEF ReportSent, AnswerOf
<1>7. \A s \in Reports : (IF kept = s THEN 1 ELSE 0) + (IF now = s THEN 1 ELSE 0) = IF r = s THEN 1 ELSE 0
  BY <1>3 DEF NoReport, Reports
<1>8. kept \in Reports \union {NoReport}
  BY <1>3
<1>9. error => now = r /\ kept = NoReport /\ last = <<Sent(r, error)>>
  BY <1>3 DEF AnswerOf
<1> HIDE DEF b, e, r, hold, held, kept, now, last
<1>10. /\ f.usb \in Usbs /\ f.usb.bufs = Tail(b) /\ f.usb.sof = kept
       /\ f.usb.mode = d.usb.mode /\ f.usb.report_enabled = d.usb.report_enabled
  BY <1>1, <1>2, <1>6, <1>8 DEF Usbs
<1>11. Adds(d.ev, f.ev, Answers) /\ d.ev \o held \in Seq(Events) /\ f.ev \in Seq(Events)
  <2>1. Adds(d.ev, d.ev, Answers)
    BY <1>1, AddsNone
  <2>2. Adds(d.ev, d.ev \o held, Answers) /\ d.ev \o held \in Seq(Events)
    BY <1>1, <1>4, <2>1, AnswersAreTraffic, AddsConcat
  <2>3. Adds(d.ev, d.ev \o held \o last, Answers) /\ d.ev \o held \o last \in Seq(Events)
    BY <1>1, <1>5, <2>2, AnswersAreTraffic, AddsConcat
  <2> QED BY <1>6, <2>2, <2>3
<1>12. f \in Devices
  BY <1>6, <1>10, <1>11 DEF Devices
<1>13. ASSUME NEW w \in [Events -> Int]
       PROVE  /\ Weigh(f.ev, w) = Weigh(d.ev, w) + Weigh(held, w) + Weigh(last, w)
              /\ Weigh(b, w) = w[e] + Weigh(Tail(b), w)
  <2>1. Weigh(d.ev \o held, w) = Weigh(d.ev, w) + Weigh(held, w)
    BY <1>1, <1>4, WeighConcat
  <2>2. Weigh(d.ev \o held \o last, w) = Weigh(d.ev \o held, w) + Weigh(last, w)
    BY <1>5, <1>11, WeighConcat
  <2>3. b \in Seq(Events) /\ b # <<>>
    BY <1>1, BufsType DEF b
  <2>4. Weigh(b, w) = w[Head(b)] + Weigh(Tail(b), w)
    BY <2>3, WeighHead
  <2> QED BY <1>2, <1>6, <2>1, <2>2, <2>4
<1>14. ASSUME NEW s \in Reports PROVE Outside(f, s) = Outside(d, s)
  <2> DEFINE w == Awaiting(s)
             we == w[e]
             o == Weigh(d.ev, w)
             v == Weigh(held, w)
             x == Weigh(last, w)
             u == Weigh(Tail(b), w)
             h0 == Held1(d.usb, s)
             h1 == Held1(f.usb, s)
             n == Weigh(f.ev, w)
             m == Weigh(b, w)
  <2>1. n = o + v + x /\ m = we + u
    BY <1>13, AwaitingInt
  <2>2. o \in Int /\ u \in Int /\ h0 \in Int /\ h1 \in Int
    <3>1. Tail(b) \in Seq(Events) /\ w \in [Events -> Int]
      BY <1>2, BufsType, AwaitingInt
    <3>2. h0 \in Int /\ h1 \in Int
      BY DEF Held1
    <3> HIDE DEF w
    <3> QED BY <1>1, <3>1, <3>2, WeighType
  <2>3. v = h0
    BY <1>4
  <2>4. x = (IF now = s THEN 1 ELSE 0) /\ we = (IF r = s THEN 1 ELSE 0) /\ h1 = (IF kept = s THEN 1 ELSE 0)
    BY <1>3, <1>5, <1>10 DEF Held1
  <2>5. Outside(f, s) = n + u + h1 /\ Outside(d, s) = o + m + h0
    BY <1>10 DEF Outside, b
  <2>6. (IF kept = s THEN 1 ELSE 0) + (IF now = s THEN 1 ELSE 0) = IF r = s THEN 1 ELSE 0
    BY <1>7
  <2> HIDE DEF we, o, v, x, u, h0, h1, n, m
  <2> QED BY <2>1, <2>2, <2>3, <2>4, <2>5, <2>6
<1>15. Carried(f) = Carried(d) - e.dx
  <2> DEFINE o == Weigh(d.ev, Dx)
             u == Weigh(Tail(b), Dx)
             n == Weigh(f.ev, Dx)
             m == Weigh(b, Dx)
  <2>1. n = o + Weigh(held, Dx) + Weigh(last, Dx) /\ m = Dx[e] + u
    BY <1>13, DxType
  <2>2. o \in Int /\ u \in Int
    <3>1. Tail(b) \in Seq(Events)
      BY <1>2, BufsType
    <3> QED BY <1>1, <3>1, WeighType, DxType
  <2>3. n = o /\ m = e.dx + u
    BY <1>3, <1>4, <1>5, <2>1, <2>2
  <2>4. Carried(f) = n + u /\ Carried(d) = o + m
    BY <1>10 DEF Carried, b
  <2> HIDE DEF o, u, n, m
  <2> QED BY <1>3, <2>2, <2>3, <2>4
<1>16. ASSUME error PROVE Failed(f.ev)
  <2>1. last = <<Sent(r, TRUE)>>
    BY <1>9, <1>16
  <2>2. Sent(r, TRUE) \in Events /\ Sent(r, TRUE).t = "failed"
    BY <1>3, SentEvent
  <2>3. f.ev = Append(d.ev \o held, Sent(r, TRUE))
    <3> DEFINE x == d.ev \o held
    <3>1. f.ev = x \o <<Sent(r, TRUE)>> /\ x \in Seq(Events)
      BY <1>6, <1>11, <2>1
    <3> HIDE DEF x
    <3>2. f.ev = Append(x, Sent(r, TRUE))
      BY <2>2, <3>1, AppendIsConcat
    <3> QED BY <3>2 DEF x
  <2> QED BY <1>11, <2>2, <2>3, FailedAppend
<1>17. Serves(d, f)
  BY <1>2, <1>10, <1>11, <1>12, <1>14 DEF Serves, b
<1>18. d.usb.bufs[1] = e /\ d.usb.bufs = b
  BY DEF e, b
<1> QED BY <1>2, <1>9, <1>10, <1>15, <1>16, <1>17, <1>18

LEMMA BufSendServes ==
    ASSUME NEW d \in Devices, NEW accepted \in BOOLEAN, NEW f, f = BufSend(d, accepted)
    PROVE  Serves(d, f) /\ (f = d \/ Failed(f.ev))
<1>1. CASE f = d
  BY <1>1, ServesSelf
<1>2. CASE f # d
  <2>1. d.usb.bufs # <<>> /\ f = ReportSent(d, TRUE) /\ TRUE \in BOOLEAN
    BY <1>2 DEF BufSend
  <2> QED BY <2>1, ReportSentServes
<1> QED BY <1>1, <1>2


\* The device takes e: it is awaited, and its motion on its way unless it fails.
Accepts(d, e, f) ==
    /\ f \in Devices
    /\ f.usb.mode = d.usb.mode /\ f.usb.report_enabled = d.usb.report_enabled
    /\ Adds(d.ev, f.ev, Answers)
    /\ \A r \in Reports : Outside(f, r) = Outside(d, r) + Awaiting(r)[e]
    /\ Carried(f) = Carried(d) + Dx[e] \/ Failed(f.ev)

LEMMA AcceptServes ==
    ASSUME NEW d \in Devices, NEW e \in UsbReports, NEW accepted \in BOOLEAN,
           NEW f, f = AcceptReport(d, e, accepted)
    PROVE  Accepts(d, e, f)
<1> DEFINE v == Append(d.usb.bufs, e)
           g == [usb |-> [d.usb EXCEPT !.bufs = v], ev |-> d.ev]
<1>1. d.usb.bufs \in Seq(UsbReports) /\ d.ev \in Seq(Events) /\ d.usb \in Usbs
  BY DEF Devices, Usbs
<1>2. v \in Seq(UsbReports)
  BY <1>1, AppendProperties
<1>3. /\ e \in Events /\ e.dx \in Int /\ Dx[e] = e.dx
      /\ d.usb.bufs \in Seq(Events)
  BY <1>1, UsbReportType, BufsType
<1>4. f = g \/ f = BufSend(g, accepted)
  BY DEF AcceptReport
<1>5. \A w \in [Events -> Int] : Weigh(v, w) = Weigh(d.usb.bufs, w) + w[e]
  BY <1>3, WeighAppend
<1> HIDE DEF v
<1>6. /\ g \in Devices /\ g.usb.mode = d.usb.mode /\ g.usb.report_enabled = d.usb.report_enabled
      /\ g.ev = d.ev /\ g.usb.sof = d.usb.sof /\ g.usb.bufs = v
  BY <1>1, <1>2 DEF Devices, Usbs
<1> HIDE DEF g
<1>7. ASSUME NEW r \in Reports PROVE Outside(g, r) = Outside(d, r) + Awaiting(r)[e]
  <2> DEFINE o == Weigh(d.ev, Awaiting(r))
             u == Weigh(d.usb.bufs, Awaiting(r))
             n == Weigh(v, Awaiting(r))
             x == Held1(d.usb, r)
             y == Awaiting(r)[e]
  <2>1. o \in Int /\ u \in Int /\ x \in Int
    BY OutsideType
  <2>2. y \in Int
    BY <1>3, AwaitingInt
  <2>3. n = u + y
    BY <1>5, AwaitingInt
  <2>4. Held1(g.usb, r) = x
    BY <1>6 DEF Held1
  <2>5. Outside(g, r) = o + n + x /\ Outside(d, r) = o + u + x
    BY <1>6, <2>4 DEF Outside
  <2> HIDE DEF o, u, n, x, y
  <2> QED BY <2>1, <2>2, <2>3, <2>5 DEF y
<1>8. Carried(g) = Carried(d) + Dx[e]
  <2> DEFINE o == Weigh(d.ev, Dx)
             u == Weigh(d.usb.bufs, Dx)
             n == Weigh(v, Dx)
             y == Dx[e]
  <2>1. o \in Int /\ u \in Int
    BY CarriedType
  <2>2. y \in Int
    BY <1>3
  <2>3. n = u + y
    BY <1>5, DxType
  <2>4. Carried(g) = o + n /\ Carried(d) = o + u
    BY <1>6 DEF Carried
  <2> HIDE DEF o, u, n, y
  <2> QED BY <2>1, <2>2, <2>3, <2>4 DEF y
<1>9. Serves(g, f) /\ (f = g \/ Failed(f.ev))
  BY <1>4, <1>6, BufSendServes, ServesSelf
<1> QED BY <1>6, <1>7, <1>8, <1>9 DEF Serves, Accepts

-----------------------------------------------------------------------------
(* Subscribers and subscriptions that are announced.                       *)

LEMMA EndsTwice ==
    ASSUME NEW p, NEW q, NEW z, NEW T, NEW b, NEW c, NEW d, Ends(p, q, T, b, c), Ends(q, z, T, c, d)
    PROVE  Ends(p, z, T, b, d)
BY DEF Ends

LEMMA IdlesTwice ==
    ASSUME NEW p, NEW q, NEW z, Idles(p, q), Idles(q, z)
    PROVE  Idles(p, z)
BY EndsTwice DEF Idles

\* The events after which reports of r may be awaited; and its subscriptions.
Announces(e, r) == e = Subscriber("usb", "on") \/ e = Subscription(Usb(r), "on")
Subscribes(e, r) == e.t = "subscription" /\ e.l = Usb(r)
Announced(q, r) == \E i \in DOMAIN q : Announces(q[i], r)
Unsubscribed(q, r) == \A i \in DOMAIN q : ~Subscribes(q[i], r)
Early(q, r) == \A i \in DOMAIN q : Announces(q[i], r) => \A j \in 1 .. i - 1 : ~Subscribes(q[j], r)
Disturbed(q) == \E i \in DOMAIN q : q[i].t \in {"subscriber", "subscription", "failed"}

LEMMA AnnouncementKind ==
    ASSUME NEW e \in Events, NEW r, Announces(e, r)
    PROVE  e.t \in {"subscriber", "subscription"}
BY DEF Announces, Subscriber, Subscription

LEMMA EarlyAdds ==
    ASSUME NEW p \in Seq(Events), NEW S, S \subseteq Events, NEW q, Adds(p, q, S), NEW r,
           \A e \in S : ~Announces(e, r)
    PROVE  /\ Early(p, r) => Early(q, r)
           /\ Announced(q, r) => Announced(p, r)
<1>1. /\ Len(p) \in Nat /\ Len(q) \in Nat /\ Len(p) <= Len(q)
      /\ DOMAIN p = 1 .. Len(p) /\ DOMAIN q = 1 .. Len(q)
      /\ \A i \in 1 .. Len(p) : q[i] = p[i]
      /\ \A i \in Len(p) + 1 .. Len(q) : q[i] \in S
  BY AddsType
<1>2. ASSUME NEW i \in DOMAIN q, Announces(q[i], r)
      PROVE  i \in 1 .. Len(p) /\ q[i] = p[i]
  <2>1. i \notin Len(p) + 1 .. Len(q)
    BY <1>1, <1>2
  <2> QED BY <1>1, <2>1
<1>3. Announced(q, r) => Announced(p, r)
  BY <1>1, <1>2 DEF Announced
<1>4. ASSUME Early(p, r) PROVE Early(q, r)
  <2> SUFFICES ASSUME NEW i \in DOMAIN q, Announces(q[i], r), NEW j \in 1 .. i - 1
               PROVE  ~Subscribes(q[j], r)
    BY DEF Early
  <2>1. i \in 1 .. Len(p) /\ Announces(p[i], r)
    BY <1>2
  <2>2. ~Subscribes(p[j], r)
    BY <1>1, <1>4, <2>1 DEF Early
  <2>3. j \in 1 .. Len(p)
    BY <1>1, <2>1
  <2> QED BY <1>1, <2>2, <2>3
<1> QED BY <1>3, <1>4

LEMMA DisturbedStays ==
    ASSUME NEW p \in Seq(Events), NEW q, Adds(p, q, Events), Disturbed(p)
    PROVE  Disturbed(q)
<1>1. Events \subseteq Events
  OBVIOUS
<1>2. /\ Len(p) \in Nat /\ Len(q) \in Nat /\ Len(p) <= Len(q)
      /\ DOMAIN p = 1 .. Len(p) /\ DOMAIN q = 1 .. Len(q)
      /\ \A j \in 1 .. Len(p) : q[j] = p[j]
  BY <1>1, AddsType
<1>3. PICK i \in DOMAIN p : p[i].t \in {"subscriber", "subscription", "failed"}
  BY DEF Disturbed
<1>4. i \in DOMAIN q /\ q[i] = p[i]
  BY <1>2
<1> QED BY <1>3, <1>4 DEF Disturbed

LEMMA AppendFields ==
    ASSUME NEW p \in Seq(Events), NEW e \in Events
    PROVE  /\ Append(p, e) \in Seq(Events) /\ Adds(p, Append(p, e), Events)
           /\ DOMAIN p = 1 .. Len(p) /\ DOMAIN Append(p, e) = 1 .. Len(p) + 1 /\ Len(p) \in Nat
           /\ Append(p, e)[Len(p) + 1] = e
           /\ \A i \in 1 .. Len(p) : Append(p, e)[i] = p[i]
           /\ Append(p, e) # <<>>
<1>1. Events \subseteq Events /\ Adds(p, p, Events)
  BY AddsNone
<1>2. Adds(p, Append(p, e), Events)
  BY <1>1, AddsAppend
<1>3. /\ Append(p, e) \in Seq(Events) /\ Len(Append(p, e)) = Len(p) + 1
      /\ Append(p, e)[Len(p) + 1] = e
      /\ \A i \in 1 .. Len(p) : Append(p, e)[i] = p[i]
  BY AppendProperties
<1>4. /\ Len(p) \in Nat /\ DOMAIN p = 1 .. Len(p) /\ DOMAIN Append(p, e) = 1 .. Len(p) + 1
  BY <1>3, LenProperties
<1>5. Append(p, e) # <<>>
  BY <1>3, <1>4, EmptySeq
<1> QED BY <1>2, <1>3, <1>4, <1>5


LEMMA PostFields ==
    ASSUME NEW p \in Seq(Events), NEW e \in Events, NEW q, q = Append(p, e)
    PROVE  /\ q \in Seq(Events) /\ Adds(p, q, Events)
           /\ e.t \in {"subscriber", "subscription", "failed"} => Disturbed(q)
           /\ \A r \in Reports :
                 /\ Early(p, r) /\ (Announces(e, r) => Unsubscribed(p, r)) => Early(q, r)
                 /\ Announced(q, r) => Announced(p, r) \/ Announces(e, r)
                 /\ Unsubscribed(p, r) /\ ~Subscribes(e, r) => Unsubscribed(q, r)
           /\ e.t \notin {"report", "sent", "failed"} =>
                 Weigh(q, Dx) = Weigh(p, Dx) /\ \A r \in Reports : Weigh(q, Awaiting(r)) = Weigh(p, Awaiting(r))
<1> DEFINE n == Len(p)
<1>1. /\ q \in Seq(Events) /\ Adds(p, q, Events)
      /\ n \in Nat /\ DOMAIN p = 1 .. n /\ DOMAIN q = 1 .. n + 1
      /\ q[n + 1] = e /\ \A i \in 1 .. n : q[i] = p[i]
  BY AppendFields
<1>2. e.t \in {"subscriber", "subscription", "failed"} => Disturbed(q)
  BY <1>1 DEF Disturbed
<1>3. ASSUME NEW r \in Reports
      PROVE  /\ Announced(q, r) => Announced(p, r) \/ Announces(e, r)
             /\ Unsubscribed(p, r) /\ ~Subscribes(e, r) => Unsubscribed(q, r)
  <2>1. \A i \in DOMAIN q : (i \in DOMAIN p /\ q[i] = p[i]) \/ q[i] = e
    BY <1>1
  <2> QED BY <2>1 DEF Announced, Unsubscribed
<1>4. ASSUME NEW r \in Reports, Early(p, r), Announces(e, r) => Unsubscribed(p, r)
      PROVE  Early(q, r)
  <2> SUFFICES ASSUME NEW i \in DOMAIN q, Announces(q[i], r), NEW j \in 1 .. i - 1
               PROVE  ~Subscribes(q[j], r)
    BY DEF Early
  <2>1. j \in DOMAIN p /\ q[j] = p[j]
    BY <1>1
  <2>2. CASE i = n + 1
    <3>1. Unsubscribed(p, r)
      BY <1>1, <1>4, <2>2
    <3> QED BY <2>1, <3>1 DEF Unsubscribed
  <2>3. CASE i # n + 1
    <3>1. i \in DOMAIN p /\ Announces(p[i], r)
      BY <1>1, <2>3
    <3>2. ~Subscribes(p[j], r)
      BY <1>4, <3>1 DEF Early
    <3> QED BY <2>1, <3>2
  <2> QED BY <2>2, <2>3
<1>5. ASSUME e.t \notin {"report", "sent", "failed"}
      PROVE  Weigh(q, Dx) = Weigh(p, Dx) /\ \A r \in Reports : Weigh(q, Awaiting(r)) = Weigh(p, Awaiting(r))
  <2>1. Dx[e] = 0 /\ \A r \in Reports : Awaiting(r)[e] = 0
    BY <1>5, OtherEvent
  <2>2. Weigh(q, Dx) = Weigh(p, Dx) + Dx[e] /\ Weigh(p, Dx) \in Int
    BY DxType, WeighAppend, WeighType
  <2>3. ASSUME NEW r \in Reports PROVE Weigh(q, Awaiting(r)) = Weigh(p, Awaiting(r))
    <3>1. Awaiting(r) \in [Events -> Int]
      BY AwaitingInt
    <3>2. Weigh(q, Awaiting(r)) = Weigh(p, Awaiting(r)) + Awaiting(r)[e] /\ Weigh(p, Awaiting(r)) \in Int
      BY <3>1, WeighAppend, WeighType
    <3> QED BY <2>1, <3>2
  <2> QED BY <2>1, <2>2, <2>3
<1> QED BY <1>1, <1>2, <1>3, <1>4, <1>5

\* Subscription l is announced or withdrawn at the end of the queue.
SubscriptionPosted(p, l, to, e, q) ==
    /\ e \in Events /\ e.t = "subscription"
    /\ \A r \in Reports : /\ Announces(e, r) <=> l = Usb(r) /\ to = "on"
                          /\ Subscribes(e, r) <=> l = Usb(r)
    /\ Ends(p, q, PhaseStep(l), IF to = "on" THEN "on" ELSE "sub", IF to = "on" THEN "sub" ELSE "on")
    /\ \A m \in ReportStates : m # l => \A b \in Phases : Ends(p, q, PhaseStep(m), b, b)
    /\ \A k \in Keys : \A b \in {"up", "down"} : Ends(p, q, ButtonStep(k), b, b)

LEMMA PostSubscription ==
    ASSUME NEW p \in Seq(Events), NEW l \in ReportStates, NEW to \in {"on", "off"},
           NEW e, e = Subscription(l, to), NEW q, q = Append(p, e)
    PROVE  SubscriptionPosted(p, l, to, e, q)
<1>1. e \in Events /\ e.t = "subscription" /\ e.l = l /\ e.to = to
  BY DEF Subscription, Events
<1>2. \A r \in Reports : /\ Announces(e, r) <=> l = Usb(r) /\ to = "on"
                         /\ Subscribes(e, r) <=> l = Usb(r)
  BY DEF Announces, Subscribes, Subscriber, Subscription
<1>3. Ends(p, q, PhaseStep(l), IF to = "on" THEN "on" ELSE "sub", IF to = "on" THEN "sub" ELSE "on")
  <2>1. <<IF to = "on" THEN "on" ELSE "sub", IF to = "on" THEN "sub" ELSE "on">> \in PhaseStep(l)[e]
    BY <1>1 DEF PhaseStep
  <2> QED BY <1>1, <2>1, EndsAppend
<1>4. ASSUME NEW m \in ReportStates, m # l, NEW b \in Phases PROVE Ends(p, q, PhaseStep(m), b, b)
  <2>1. <<b, b>> \in PhaseStep(m)[e]
    BY <1>1, <1>4 DEF PhaseStep, Phases
  <2> QED BY <1>1, <2>1, EndsAppend
<1>5. ASSUME NEW k \in Keys, NEW b \in {"up", "down"} PROVE Ends(p, q, ButtonStep(k), b, b)
  <2>1. <<b, b>> \in ButtonStep(k)[e]
    BY <1>1 DEF ButtonStep
  <2> QED BY <1>1, <2>1, EndsAppend
<1> QED BY <1>1, <1>2, <1>3, <1>4, <1>5 DEF SubscriptionPosted

\* Subscriber s is announced or withdrawn at the end of the queue.
SubscriberPosted(p, s, to, e, q) ==
    /\ e \in Events /\ e.t = "subscriber"
    /\ \A r \in Reports : /\ Announces(e, r) <=> s = "usb" /\ to = "on"
                          /\ ~Subscribes(e, r)
    /\ \A m \in ReportStates : m[1] = s =>
          Ends(p, q, PhaseStep(m), IF to = "on" THEN "off" ELSE "on", IF to = "on" THEN "on" ELSE "off")
    /\ \A m \in ReportStates : m[1] # s => \A b \in Phases : Ends(p, q, PhaseStep(m), b, b)
    /\ \A k \in Keys : \A b \in {"up", "down"} : Ends(p, q, ButtonStep(k), b, b)

LEMMA PostSubscriber ==
    ASSUME NEW p \in Seq(Events), NEW s \in Subs, NEW to \in {"on", "off"},
           NEW e, e = Subscriber(s, to), NEW q, q = Append(p, e)
    PROVE  SubscriberPosted(p, s, to, e, q)
<1>1. e \in Events /\ e.t = "subscriber" /\ e.s = s /\ e.to = to
  BY DEF Subscriber, Events
<1>2. \A r \in Reports : /\ Announces(e, r) <=> s = "usb" /\ to = "on"
                         /\ ~Subscribes(e, r)
  BY DEF Announces, Subscribes, Subscriber, Subscription
<1>3. ASSUME NEW m \in ReportStates, m[1] = s
      PROVE  Ends(p, q, PhaseStep(m), IF to = "on" THEN "off" ELSE "on", IF to = "on" THEN "on" ELSE "off")
  <2>1. <<IF to = "on" THEN "off" ELSE "on", IF to = "on" THEN "on" ELSE "off">> \in PhaseStep(m)[e]
    BY <1>1, <1>3 DEF PhaseStep
  <2> QED BY <1>1, <2>1, EndsAppend
<1>4. ASSUME NEW m \in ReportStates, m[1] # s, NEW b \in Phases PROVE Ends(p, q, PhaseStep(m), b, b)
  <2>1. <<b, b>> \in PhaseStep(m)[e]
    BY <1>1, <1>4 DEF PhaseStep, Phases
  <2> QED BY <1>1, <2>1, EndsAppend
<1>5. ASSUME NEW k \in Keys, NEW b \in {"up", "down"} PROVE Ends(p, q, ButtonStep(k), b, b)
  <2>1. <<b, b>> \in ButtonStep(k)[e]
    BY <1>1 DEF ButtonStep
  <2> QED BY <1>1, <2>1, EndsAppend
<1> QED BY <1>1, <1>2, <1>3, <1>4, <1>5 DEF SubscriberPosted


\* broadcast_subscription_change for one report.
Now(u) == {r \in Reports : u.mode = Protocol(r)}
Changed(u, r) == (r \in Now(u)) # (r \in u.report_enabled)
Enabled(u, r) == r \in Now(u) /\ r \notin u.report_enabled
Change(u, r) == IF (r \in Now(u)) = (r \in u.report_enabled) THEN <<>>
                ELSE <<Subscription(Usb(r), IF r \in Now(u) THEN "on" ELSE "off")>>
SubPhase(s, r) == IF r \in s THEN "sub" ELSE "on"

ChangeTurn(p, u, r, q) ==
    /\ q \in Seq(Events) /\ Adds(p, q, Events)
    /\ Changed(u, r) => Disturbed(q)
    /\ \A s \in Reports :
          /\ Early(p, s) /\ (s = r /\ Enabled(u, r) => Unsubscribed(p, s)) => Early(q, s)
          /\ Announced(q, s) => Announced(p, s) \/ (s = r /\ Enabled(u, r))
          /\ Unsubscribed(p, s) /\ s # r => Unsubscribed(q, s)
    /\ Weigh(q, Dx) = Weigh(p, Dx) /\ \A s \in Reports : Weigh(q, Awaiting(s)) = Weigh(p, Awaiting(s))
    /\ Ends(p, q, PhaseStep(Usb(r)), SubPhase(u.report_enabled, r), SubPhase(Now(u), r))
    /\ \A m \in ReportStates : m # Usb(r) => \A b \in Phases : Ends(p, q, PhaseStep(m), b, b)
    /\ \A k \in Keys : \A b \in {"up", "down"} : Ends(p, q, ButtonStep(k), b, b)

LEMMA ChangeTurns ==
    ASSUME NEW p \in Seq(Events), NEW u, NEW r \in Reports, NEW q, q = p \o Change(u, r)
    PROVE  ChangeTurn(p, u, r, q)
<1>1. CASE (r \in Now(u)) = (r \in u.report_enabled)
  <2>1. q = p
    <3>1. Change(u, r) = <<>>
      BY <1>1 DEF Change
    <3> QED BY <3>1, ConcatEmptySeq
  <2>2. ~Changed(u, r) /\ ~Enabled(u, r) /\ SubPhase(u.report_enabled, r) = SubPhase(Now(u), r)
    BY <1>1 DEF Changed, Enabled, SubPhase
  <2> QED BY <2>1, <2>2, EndsSelf, AddsNone DEF ChangeTurn
<1>2. CASE (r \in Now(u)) # (r \in u.report_enabled)
  <2> DEFINE to == IF r \in Now(u) THEN "on" ELSE "off"
             e == Subscription(Usb(r), to)
  <2>1. to \in {"on", "off"} /\ Usb(r) \in ReportStates
    BY UsbType
  <2>2. to = "on" <=> Enabled(u, r)
    BY <1>2 DEF Enabled
  <2>3. /\ SubPhase(u.report_enabled, r) = IF to = "on" THEN "on" ELSE "sub"
        /\ SubPhase(Now(u), r) = IF to = "on" THEN "sub" ELSE "on"
    BY <1>2 DEF SubPhase
  <2>4. Change(u, r) = <<e>>
    BY <1>2 DEF Change
  <2>14. e = Subscription(Usb(r), to)
    OBVIOUS
  <2> HIDE DEF to, e
  <2>5. e \in Events
    BY <2>1, <2>14 DEF Subscription, Events
  <2>6. q = Append(p, e)
    BY <2>4, <2>5, AppendIsConcat
  <2>7. /\ e.t = "subscription"
        /\ \A s \in Reports : /\ Announces(e, s) <=> Usb(r) = Usb(s) /\ to = "on"
                              /\ Subscribes(e, s) <=> Usb(r) = Usb(s)
        /\ Ends(p, q, PhaseStep(Usb(r)), IF to = "on" THEN "on" ELSE "sub", IF to = "on" THEN "sub" ELSE "on")
        /\ \A m \in ReportStates : m # Usb(r) => \A b \in Phases : Ends(p, q, PhaseStep(m), b, b)
        /\ \A k \in Keys : \A b \in {"up", "down"} : Ends(p, q, ButtonStep(k), b, b)
    <3>1. SubscriptionPosted(p, Usb(r), to, e, q)
      BY <2>1, <2>6, <2>14, PostSubscription
    <3> QED BY <3>1 DEF SubscriptionPosted
  <2>8. \A s \in Reports : Usb(r) = Usb(s) <=> s = r
    BY DEF Usb
  <2>9. /\ q \in Seq(Events) /\ Adds(p, q, Events)
        /\ Disturbed(q)
        /\ \A s \in Reports :
                 /\ Early(p, s) /\ (Announces(e, s) => Unsubscribed(p, s)) => Early(q, s)
                 /\ Announced(q, s) => Announced(p, s) \/ Announces(e, s)
                 /\ Unsubscribed(p, s) /\ ~Subscribes(e, s) => Unsubscribed(q, s)
        /\ Weigh(q, Dx) = Weigh(p, Dx) /\ \A s \in Reports : Weigh(q, Awaiting(s)) = Weigh(p, Awaiting(s))
    BY <2>5, <2>6, <2>7, PostFields
  <2>10. Ends(p, q, PhaseStep(Usb(r)), SubPhase(u.report_enabled, r), SubPhase(Now(u), r))
    BY <2>3, <2>7
  <2>11. \A s \in Reports : Announces(e, s) <=> s = r /\ Enabled(u, r)
    BY <2>2, <2>7, <2>8
  <2>12. \A s \in Reports : Subscribes(e, s) <=> s = r
    BY <2>7, <2>8
  <2>13. \A s \in Reports :
                 /\ Early(p, s) /\ (s = r /\ Enabled(u, r) => Unsubscribed(p, s)) => Early(q, s)
                 /\ Announced(q, s) => Announced(p, s) \/ (s = r /\ Enabled(u, r))
                 /\ Unsubscribed(p, s) /\ s # r => Unsubscribed(q, s)
    BY <2>9, <2>11, <2>12
  <2> QED BY <2>7, <2>9, <2>10, <2>13 DEF ChangeTurn
<1> QED BY <1>1, <1>2

LEMMA BroadcastTurns ==
    ASSUME NEW d \in Devices, NEW f, f = BroadcastSubscription(d)
    PROVE  /\ f \in Devices /\ f.usb = [d.usb EXCEPT !.report_enabled = Now(d.usb)]
           /\ Adds(d.ev, f.ev, Events)
           /\ Now(d.usb) # d.usb.report_enabled => Disturbed(f.ev)
           /\ \A r \in Reports : Outside(f, r) = Outside(d, r)
           /\ \A r \in Reports :
                 /\ Early(d.ev, r) /\ (Enabled(d.usb, r) => Unsubscribed(d.ev, r)) => Early(f.ev, r)
                 /\ Announced(f.ev, r) => Announced(d.ev, r) \/ Enabled(d.usb, r)
                 /\ Ends(d.ev, f.ev, PhaseStep(Usb(r)),
                         SubPhase(d.usb.report_enabled, r), SubPhase(Now(d.usb), r))
           /\ \A l \in ReportStates : l[1] # "usb" => \A b \in Phases : Ends(d.ev, f.ev, PhaseStep(l), b, b)
           /\ \A k \in Keys : \A b \in {"up", "down"} : Ends(d.ev, f.ev, ButtonStep(k), b, b)
<1> DEFINE u == d.usb
           p == d.ev
           q == p \o Change(u, "mouse")
           z == q \o Change(u, "boot")
<1>1. p \in Seq(Events) /\ u \in Usbs
  BY DEF Devices
<1>2. f = [usb |-> [u EXCEPT !.report_enabled = Now(u)], ev |-> z]
  BY DEF BroadcastSubscription, Now, Change
<1>3. "mouse" \in Reports /\ "boot" \in Reports /\ Reports = {"mouse", "boot"} /\ "mouse" # "boot"
  BY DEF Reports
<1> HIDE DEF u, p, q, z
<1>4. /\ q \in Seq(Events) /\ Adds(p, q, Events)
      /\ Changed(u, "mouse") => Disturbed(q)
      /\ \A s \in Reports :
            /\ Early(p, s) /\ (s = "mouse" /\ Enabled(u, "mouse") => Unsubscribed(p, s)) => Early(q, s)
            /\ Announced(q, s) => Announced(p, s) \/ (s = "mouse" /\ Enabled(u, "mouse"))
            /\ Unsubscribed(p, s) /\ s # "mouse" => Unsubscribed(q, s)
      /\ Weigh(q, Dx) = Weigh(p, Dx) /\ \A s \in Reports : Weigh(q, Awaiting(s)) = Weigh(p, Awaiting(s))
      /\ Ends(p, q, PhaseStep(Usb("mouse")), SubPhase(u.report_enabled, "mouse"), SubPhase(Now(u), "mouse"))
      /\ \A m \in ReportStates : m # Usb("mouse") => \A b \in Phases : Ends(p, q, PhaseStep(m), b, b)
      /\ \A k \in Keys : \A b \in {"up", "down"} : Ends(p, q, ButtonStep(k), b, b)
  <2>1. ChangeTurn(p, u, "mouse", q)
    BY <1>1, <1>3, ChangeTurns DEF q
  <2> QED BY <2>1 DEF ChangeTurn
<1>5. /\ z \in Seq(Events) /\ Adds(q, z, Events)
      /\ Changed(u, "boot") => Disturbed(z)
      /\ \A s \in Reports :
            /\ Early(q, s) /\ (s = "boot" /\ Enabled(u, "boot") => Unsubscribed(q, s)) => Early(z, s)
            /\ Announced(z, s) => Announced(q, s) \/ (s = "boot" /\ Enabled(u, "boot"))
            /\ Unsubscribed(q, s) /\ s # "boot" => Unsubscribed(z, s)
      /\ Weigh(z, Dx) = Weigh(q, Dx) /\ \A s \in Reports : Weigh(z, Awaiting(s)) = Weigh(q, Awaiting(s))
      /\ Ends(q, z, PhaseStep(Usb("boot")), SubPhase(u.report_enabled, "boot"), SubPhase(Now(u), "boot"))
      /\ \A m \in ReportStates : m # Usb("boot") => \A b \in Phases : Ends(q, z, PhaseStep(m), b, b)
      /\ \A k \in Keys : \A b \in {"up", "down"} : Ends(q, z, ButtonStep(k), b, b)
  <2>1. ChangeTurn(q, u, "boot", z)
    BY <1>3, <1>4, ChangeTurns DEF z
  <2> QED BY <2>1 DEF ChangeTurn
<1>6. Now(u) \in SUBSET Reports /\ u.report_enabled \in SUBSET Reports
  BY <1>1 DEF Now, Usbs
<1>7. /\ f.usb = [u EXCEPT !.report_enabled = Now(u)] /\ f.ev = z
      /\ f.usb.bufs = u.bufs /\ f.usb.sof = u.sof /\ f \in Devices
  <2> DEFINE n == Now(u)
  <2>1. n \in SUBSET Reports
    BY <1>6
  <2>2. f.usb = [u EXCEPT !.report_enabled = n] /\ f.ev = z /\ f = [usb |-> f.usb, ev |-> f.ev]
    BY <1>2
  <2> HIDE DEF n
  <2>3. f.usb \in Usbs /\ f.usb.bufs = u.bufs /\ f.usb.sof = u.sof
    BY <1>1, <2>1, <2>2 DEF Usbs
  <2>4. f \in Devices
    BY <1>5, <2>2, <2>3 DEF Devices
  <2> QED BY <2>2, <2>3, <2>4 DEF n
<1>8. Adds(p, z, Events)
  <2>1. Events \subseteq Events
    OBVIOUS
  <2> QED BY <1>1, <1>4, <1>5, <2>1, AddsTwice
<1>9. ASSUME Now(u) # u.report_enabled PROVE Disturbed(z)
  <2>1. Changed(u, "mouse") \/ Changed(u, "boot")
    BY <1>3, <1>6, <1>9 DEF Changed
  <2> QED BY <1>4, <1>5, <2>1, DisturbedStays
<1>10. \A r \in Reports : Outside(f, r) = Outside(d, r)
  <2> SUFFICES ASSUME NEW r \in Reports PROVE Outside(f, r) = Outside(d, r)
    OBVIOUS
  <2>1. Weigh(f.ev, Awaiting(r)) = Weigh(p, Awaiting(r))
    BY <1>4, <1>5, <1>7
  <2>2. Held1(f.usb, r) = Held1(u, r)
    BY <1>7 DEF Held1
  <2> QED BY <1>7, <2>1, <2>2 DEF Outside, u, p
<1>11. ASSUME NEW r \in Reports
       PROVE  /\ Early(p, r) /\ (Enabled(u, r) => Unsubscribed(p, r)) => Early(z, r)
              /\ Announced(z, r) => Announced(p, r) \/ Enabled(u, r)
              /\ Ends(p, z, PhaseStep(Usb(r)), SubPhase(u.report_enabled, r), SubPhase(Now(u), r))
  <2>1. r = "mouse" \/ r = "boot"
    BY <1>3
  <2>2. Usb("mouse") # Usb("boot") /\ Usb(r) \in ReportStates
    BY UsbType DEF Usb
  <2>3. /\ Early(p, r) /\ (Enabled(u, r) => Unsubscribed(p, r)) => Early(z, r)
        /\ Announced(z, r) => Announced(p, r) \/ Enabled(u, r)
    BY <1>3, <1>4, <1>5, <2>1
  <2>4. SubPhase(u.report_enabled, r) \in Phases /\ SubPhase(Now(u), r) \in Phases
    BY DEF SubPhase, Phases
  <2>5. CASE r = "mouse"
    <3>1. Ends(p, q, PhaseStep(Usb(r)), SubPhase(u.report_enabled, r), SubPhase(Now(u), r))
      BY <1>4, <2>5
    <3>2. Ends(q, z, PhaseStep(Usb(r)), SubPhase(Now(u), r), SubPhase(Now(u), r))
      BY <1>5, <2>2, <2>4, <2>5
    <3> QED BY <2>3, <3>1, <3>2, EndsTwice
  <2>6. CASE r = "boot"
    <3>1. Ends(p, q, PhaseStep(Usb(r)), SubPhase(u.report_enabled, r), SubPhase(u.report_enabled, r))
      BY <1>4, <2>2, <2>4, <2>6
    <3>2. Ends(q, z, PhaseStep(Usb(r)), SubPhase(u.report_enabled, r), SubPhase(Now(u), r))
      BY <1>5, <2>6
    <3> QED BY <2>3, <3>1, <3>2, EndsTwice
  <2> QED BY <2>1, <2>5, <2>6
<1>12. ASSUME NEW l \in ReportStates, l[1] # "usb", NEW b \in Phases PROVE Ends(p, z, PhaseStep(l), b, b)
  <2>1. l # Usb("mouse") /\ l # Usb("boot")
    BY <1>12 DEF Usb
  <2>2. Ends(p, q, PhaseStep(l), b, b) /\ Ends(q, z, PhaseStep(l), b, b)
    BY <1>4, <1>5, <2>1
  <2> QED BY <2>2, EndsTwice
<1>13. ASSUME NEW k \in Keys, NEW b \in {"up", "down"} PROVE Ends(p, z, ButtonStep(k), b, b)
  <2>1. Ends(p, q, ButtonStep(k), b, b) /\ Ends(q, z, ButtonStep(k), b, b)
    BY <1>4, <1>5
  <2> QED BY <2>1, EndsTwice
<1> QED BY <1>7, <1>8, <1>9, <1>10, <1>11, <1>12, <1>13 DEF u, p

-----------------------------------------------------------------------------
(* The invariant.                                                          *)

PeerPhase(u, o, l) ==
    IF l[1] = "usb"
    THEN IF u.mode = "off" THEN "off" ELSE IF u.mode = Protocol(l[2]) THEN "sub" ELSE "on"
    ELSE IF o = "off" THEN "off" ELSE IF l[2] = "mouse" THEN "sub" ELSE "on"
DownPhase(s, k) == IF k \in s THEN "down" ELSE "up"

\* The state of every part is in its range.
Typed ==
    /\ h \in Shapes /\ h.out = <<>> /\ Routed(h) /\ Small(h) /\ Len(h.evq) <= EventQueueSize
    /\ fifo \in Seq(Events)
    /\ usb \in Usbs /\ usb.report_enabled = Now(usb)
    /\ radio \in {"on", "off"} /\ down \in SUBSET Keys
    /\ host \in [keys : SUBSET Keys, x : Int] /\ moved \in Int

\* The events on their way take hid_state.c to the peer's configuration, and
\* its buttons to those that are down.
Sessions ==
    \A l \in ReportStates : Leads(fifo, PhaseStep(l), HidPhase(h, l), PeerPhase(usb, radio, l))
Buttons ==
    ~Expiry => /\ Fresh(h)
               /\ \A k \in Keys : \E c \in {"up", "down"} :
                     KeyOK(h, k, c) /\ Leads(fifo, ButtonStep(k), c, DownPhase(down, k))

\* No report is awaited, or can be sent, before an announced session begins.
Announcements ==
    /\ \A r \in Reports : Early(fifo, r)
    /\ \A r \in Reports : Announced(fifo, r) => Outstanding(r) = 0 /\ ~Connected(h, Usb(r))
Credits ==
    /\ Fits(h)
    /\ CreditExact
    /\ Outstanding("mouse") + Outstanding("boot") <= Pipeline
    /\ Announcements

IInv == Typed /\ Sessions /\ Buttons /\ MotionConserved
CreditInv == CalmHost => Credits

\* Reports and motion on their way, of a queue and a USB device.
Out(q, u, r) == Outside([usb |-> u, ev |-> q], r)
Flow(q, u) == Carried([usb |-> u, ev |-> q])

LEMMA OutFields ==
    ASSUME NEW q, NEW u
    PROVE  /\ \A r : Out(q, u, r) = Weigh(q, Awaiting(r)) + Weigh(u.bufs, Awaiting(r)) + Held1(u, r)
           /\ Flow(q, u) = Weigh(q, Dx) + Weigh(u.bufs, Dx)
BY DEF Out, Flow, Outside, Carried

LEMMA OutType ==
    ASSUME NEW q \in Seq(Events), NEW u \in Usbs
    PROVE  /\ \A r : Out(q, u, r) \in Nat
           /\ Flow(q, u) \in Int
<1>1. [usb |-> u, ev |-> q] \in Devices
  BY DEF Devices
<1> QED BY <1>1, OutsideType, CarriedType DEF Out, Flow

LEMMA AwaitedSum ==
    ASSUME NEW q \in Seq(Events), NEW r
    PROVE  SumFunction([i \in DOMAIN q |-> IF q[i].t \in {"report", "sent", "failed"} /\ q[i].l = Usb(r)
                                           THEN 1 ELSE 0]) = Weigh(q, Awaiting(r))
<1>1. \A i \in DOMAIN q : q[i] \in Events
  BY LenProperties, ElementOfSeq
<1>2. \A i \in DOMAIN q : Awaiting(r)[q[i]] = IF q[i].t \in {"report", "sent", "failed"} /\ q[i].l = Usb(r)
                                              THEN 1 ELSE 0
  BY <1>1 DEF Awaiting
<1>3. [i \in DOMAIN q |-> Awaiting(r)[q[i]]]
        = [i \in DOMAIN q |-> IF q[i].t \in {"report", "sent", "failed"} /\ q[i].l = Usb(r) THEN 1 ELSE 0]
  BY <1>2
<1> QED BY <1>3 DEF Weigh

LEMMA MotionSum ==
    ASSUME NEW q \in Seq(Events)
    PROVE  InFlight(q) = Weigh(q, Dx)
<1>1. \A i \in DOMAIN q : q[i] \in Events
  BY LenProperties, ElementOfSeq
<1>2. \A i \in DOMAIN q : Dx[q[i]] = IF ToUsb(q[i]) THEN q[i].dx ELSE 0
  BY <1>1 DEF Dx
<1>3. [i \in DOMAIN q |-> Dx[q[i]]] = [i \in DOMAIN q |-> IF ToUsb(q[i]) THEN q[i].dx ELSE 0]
  BY <1>2
<1> QED BY <1>3 DEF Weigh, InFlight

LEMMA Totals ==
    ASSUME fifo \in Seq(Events), usb \in Usbs
    PROVE  /\ \A r : Outstanding(r) = Out(fifo, usb, r)
           /\ host.x \in Int /\ h.axis \in Int => MotionTotal = host.x + Flow(fifo, usb) + h.axis
           /\ Disturbed(fifo) <=> ~Undisturbed
<1>1. usb.bufs \in Seq(Events)
  BY BufsType DEF Usbs
<1>2. ASSUME NEW r PROVE Outstanding(r) = Out(fifo, usb, r)
  <2> DEFINE S(q) == SumFunction([i \in DOMAIN q |->
                        IF q[i].t \in {"report", "sent", "failed"} /\ q[i].l = Usb(r) THEN 1 ELSE 0])
  <2>1. Outstanding(r) = S(fifo) + S(usb.bufs) + IF usb.sof = r THEN 1 ELSE 0
    BY DEF Outstanding
  <2>2. S(fifo) = Weigh(fifo, Awaiting(r)) /\ S(usb.bufs) = Weigh(usb.bufs, Awaiting(r))
    BY <1>1, AwaitedSum
  <2>3. Out(fifo, usb, r) = Weigh(fifo, Awaiting(r)) + Weigh(usb.bufs, Awaiting(r)) + Held1(usb, r)
    BY OutFields
  <2> HIDE DEF S
  <2> QED BY <2>1, <2>2, <2>3 DEF Held1
<1>3. ASSUME host.x \in Int, h.axis \in Int PROVE MotionTotal = host.x + Flow(fifo, usb) + h.axis
  <2>1. InFlight(fifo) = Weigh(fifo, Dx) /\ InFlight(usb.bufs) = Weigh(usb.bufs, Dx)
    BY <1>1, MotionSum
  <2>2. Weigh(fifo, Dx) \in Int /\ Weigh(usb.bufs, Dx) \in Int
    BY <1>1, WeighType, DxType
  <2>3. Flow(fifo, usb) = Weigh(fifo, Dx) + Weigh(usb.bufs, Dx)
    BY OutFields
  <2> QED BY <1>3, <2>1, <2>2, <2>3 DEF MotionTotal
<1>4. Disturbed(fifo) <=> ~Undisturbed
  BY DEF Disturbed, Undisturbed
<1> QED BY <1>2, <1>3, <1>4

LEMMA TotalsNext ==
    ASSUME fifo' \in Seq(Events), usb' \in Usbs
    PROVE  /\ \A r \in Reports : Outstanding(r)' = Out(fifo', usb', r)
           /\ host'.x \in Int /\ h'.axis \in Int => MotionTotal' = host'.x + Flow(fifo', usb') + h'.axis
           /\ Disturbed(fifo') <=> ~Undisturbed'
<1>1. usb'.bufs \in Seq(Events)
  BY BufsType DEF Usbs
<1>2. ASSUME NEW r \in Reports PROVE Outstanding(r)' = Out(fifo', usb', r)
  <2> DEFINE S(q) == SumFunction([i \in DOMAIN q |->
                        IF q[i].t \in {"report", "sent", "failed"} /\ q[i].l = Usb(r) THEN 1 ELSE 0])
  <2>1. Outstanding(r)' = S(fifo') + S(usb'.bufs) + IF usb'.sof = r THEN 1 ELSE 0
    BY DEF Outstanding
  <2>2. S(fifo') = Weigh(fifo', Awaiting(r)) /\ S(usb'.bufs) = Weigh(usb'.bufs, Awaiting(r))
    BY <1>1, AwaitedSum
  <2>3. Out(fifo', usb', r) = Weigh(fifo', Awaiting(r)) + Weigh(usb'.bufs, Awaiting(r)) + Held1(usb', r)
    BY OutFields
  <2> HIDE DEF S
  <2> QED BY <2>1, <2>2, <2>3 DEF Held1
<1>3. ASSUME host'.x \in Int, h'.axis \in Int PROVE MotionTotal' = host'.x + Flow(fifo', usb') + h'.axis
  <2>1. InFlight(fifo') = Weigh(fifo', Dx) /\ InFlight(usb'.bufs) = Weigh(usb'.bufs, Dx)
    BY <1>1, MotionSum
  <2>2. Weigh(fifo', Dx) \in Int /\ Weigh(usb'.bufs, Dx) \in Int
    BY <1>1, WeighType, DxType
  <2>3. Flow(fifo', usb') = Weigh(fifo', Dx) + Weigh(usb'.bufs, Dx)
    BY OutFields
  <2>4. MotionTotal' = host'.x + InFlight(fifo') + InFlight(usb'.bufs) + h'.axis
    BY DEF MotionTotal, InFlight
  <2> QED BY <1>3, <2>1, <2>2, <2>3, <2>4
<1>4. Disturbed(fifo') <=> ~Undisturbed'
  BY DEF Disturbed, Undisturbed
<1> QED BY <1>2, <1>3, <1>4

-----------------------------------------------------------------------------
(* Dispatch.                                                               *)

\* Submitting the reports leaves the rest of the state alone.
LEMMA Submit ==
    ASSUME NEW x \in Shapes, NEW y, y = [x EXCEPT !.out = <<>>]
    PROVE  /\ y \in Shapes /\ y.out = <<>>
           /\ y.on = x.on /\ y.cnt = x.cnt /\ y.report_cnt = x.report_cnt /\ y.axis = x.axis
           /\ y.link = x.link /\ y.evq = x.evq /\ y.items = x.items
           /\ \A l \in ReportStates : Connected(y, l) = Connected(x, l) /\ HidPhase(y, l) = HidPhase(x, l)
           /\ Routed(x) => Routed(y)
           /\ Small(x) => Small(y)
           /\ Fits(x) => Fits(y)
           /\ Fresh(x) => Fresh(y)
           /\ \A k \in Keys : \A c \in {"up", "down"} : KeyOK(x, k, c) => KeyOK(y, k, c)
<1> DEFINE o == <<>>
<1>1. o \in Seq(HidReports)
  BY EmptySeq
<1>2. y = [x EXCEPT !.out = o]
  OBVIOUS
<1> HIDE DEF o
<1>3. /\ y \in Shapes /\ y.out = o
      /\ y.on = x.on /\ y.cnt = x.cnt /\ y.report_cnt = x.report_cnt /\ y.axis = x.axis
      /\ y.link = x.link /\ y.evq = x.evq /\ y.items = x.items /\ y.state = x.state /\ y.rd = x.rd
  BY <1>1, <1>2 DEF Shapes
<1>4. \A l \in ReportStates : Connected(y, l) = Connected(x, l) /\ HidPhase(y, l) = HidPhase(x, l)
  BY <1>3 DEF Connected, HidPhase
<1>5. Routed(x) => Routed(y)
  BY <1>3 DEF Routed, Connected, Linked
<1>6. Small(x) => Small(y)
  BY <1>3 DEF Small, Pressed
<1>7. Fits(x) => Fits(y)
  BY <1>3 DEF Fits
<1>8. Fresh(x) => Fresh(y)
  BY <1>3 DEF Fresh
<1>9. \A k \in Keys : \A c \in {"up", "down"} : KeyOK(x, k, c) => KeyOK(y, k, c)
  BY <1>3 DEF KeyOK
<1> QED BY <1>3, <1>4, <1>5, <1>6, <1>7, <1>8, <1>9 DEF o

\* An awaited event is a report for the USB device or an answer.
LEMMA AwaitedKind ==
    ASSUME NEW e \in Events, NEW r \in Reports
    PROVE  /\ Awaiting(r)[e] = Answer(e, r) + IF ToUsb(e) THEN Awaiting(r)[e] ELSE 0
           /\ Answer(e, r) \in 0 .. 1 /\ Awaiting(r)[e] \in 0 .. 1
           /\ Awaiting(r)[e] >= Answer(e, r)
<1>1. Awaiting(r)[e] = IF e.t \in {"report", "sent", "failed"} /\ e.l = Usb(r) THEN 1 ELSE 0
  BY DEF Awaiting
<1>2. Usb(r)[1] = "usb"
  BY UsbType
<1> QED BY <1>1, <1>2 DEF Answer, ToUsb

LEMMA OutTraffic ==
    ASSUME NEW g \in Shapes
    PROVE  g.out \in Seq(Traffic) /\ g.out \in Seq(Events)
<1>1. HidReports \subseteq Traffic
  BY DEF Traffic, Events, HidReports
<1>2. g.out \in Seq(HidReports)
  BY DEF Shapes
<1> QED BY <1>1, <1>2, SeqMonotonic, ReportsAreEvents

LEMMA DeviceOf ==
    ASSUME NEW u \in Usbs, NEW p \in Seq(Events), NEW d, d = [usb |-> u, ev |-> p]
    PROVE  d \in Devices /\ d.usb = u /\ d.ev = p
BY DEF Devices

\* The queue and the USB device after e, of which hid_state.c has made g.
Delivered(e, g, f) ==
    /\ f.usb \in Usbs /\ f.ev \in Seq(Events)
    /\ f.usb.mode = usb.mode /\ f.usb.report_enabled = usb.report_enabled
    /\ Tail(fifo) \in Seq(Events) /\ Adds(Tail(fifo), f.ev, Traffic)
    /\ \A r \in Reports :
          Out(f.ev, f.usb, r) = Out(fifo, usb, r) - Answer(e, r) + Weigh(g.out, Awaiting(r))
    /\ Flow(f.ev, f.usb) = Flow(fifo, usb) + Weigh(g.out, Dx) \/ Failed(f.ev)

LEMMA Delivery ==
    ASSUME fifo \in Seq(Events), fifo # <<>>, usb \in Usbs, NEW e, e = Head(fifo),
           NEW g \in Shapes, NEW accepted \in BOOLEAN,
           NEW d, d = [usb |-> usb, ev |-> Tail(fifo) \o g.out],
           NEW f, f = IF ToUsb(e) THEN AcceptReport(d, e, accepted) ELSE d
    PROVE  Delivered(e, g, f)
<1> DEFINE q == Tail(fifo)
           p == q \o g.out
<1>1. e \in Events /\ q \in Seq(Events)
  BY HeadTailProperties
<1>2. g.out \in Seq(Traffic) /\ g.out \in Seq(Events)
  BY OutTraffic
<1>3. Adds(q, p, Traffic) /\ p \in Seq(Events)
  BY <1>1, <1>2, AddsNone, AddsConcat, AnswersAreTraffic
<1>4. usb.bufs \in Seq(Events)
  BY BufsType DEF Usbs
<1>5. d = [usb |-> usb, ev |-> p]
  OBVIOUS
<1>6. ASSUME NEW w \in [Events -> Int]
      PROVE  /\ Weigh(p, w) = Weigh(fifo, w) - w[e] + Weigh(g.out, w)
             /\ Weigh(fifo, w) \in Int /\ Weigh(g.out, w) \in Int /\ w[e] \in Int /\ Weigh(usb.bufs, w) \in Int
  <2>1. Weigh(fifo, w) = w[e] + Weigh(q, w)
    BY WeighHead
  <2>2. Weigh(p, w) = Weigh(q, w) + Weigh(g.out, w)
    BY <1>1, <1>2, WeighConcat
  <2>3. Weigh(q, w) \in Int /\ Weigh(fifo, w) \in Int /\ Weigh(g.out, w) \in Int /\ w[e] \in Int
        /\ Weigh(usb.bufs, w) \in Int
    BY <1>1, <1>2, <1>4, WeighType
  <2> QED BY <2>1, <2>2, <2>3
<1> HIDE DEF p, q
<1>7. d \in Devices /\ d.usb = usb /\ d.ev = p
  BY <1>3, <1>5, DeviceOf
<1>8. ASSUME NEW r \in Reports
      PROVE  /\ Outside(d, r) = Out(fifo, usb, r) - Awaiting(r)[e] + Weigh(g.out, Awaiting(r))
             /\ Out(fifo, usb, r) \in Int /\ Weigh(g.out, Awaiting(r)) \in Int /\ Awaiting(r)[e] \in Int
  <2> DEFINE w == Awaiting(r)
             n == Weigh(p, w)
             o == Weigh(fifo, w)
             a == w[e]
             x == Weigh(g.out, w)
             b == Weigh(usb.bufs, w)
             s == Held1(usb, r)
  <2>1. n = o - a + x /\ o \in Int /\ x \in Int /\ a \in Int /\ b \in Int
    BY <1>6, AwaitingInt
  <2>2. Outside(d, r) = n + b + s
    BY <1>7 DEF Outside
  <2>3. Out(fifo, usb, r) = o + b + s
    BY OutFields
  <2>4. s \in Int
    BY DEF Held1
  <2> HIDE DEF n, o, a, x, b, s
  <2>5. Outside(d, r) = Out(fifo, usb, r) - a + x /\ Out(fifo, usb, r) \in Int
    BY <2>1, <2>2, <2>3, <2>4
  <2> QED BY <2>1, <2>5 DEF a, x
<1>9. /\ Carried(d) = Flow(fifo, usb) - Dx[e] + Weigh(g.out, Dx)
      /\ Flow(fifo, usb) \in Int /\ Weigh(g.out, Dx) \in Int /\ Dx[e] \in Int
  <2> DEFINE n == Weigh(p, Dx)
             o == Weigh(fifo, Dx)
             a == Dx[e]
             x == Weigh(g.out, Dx)
             b == Weigh(usb.bufs, Dx)
  <2>1. n = o - a + x /\ o \in Int /\ x \in Int /\ a \in Int /\ b \in Int
    BY <1>6, DxType
  <2>2. Carried(d) = n + b
    BY <1>7 DEF Carried
  <2>3. Flow(fifo, usb) = o + b
    BY OutFields
  <2> HIDE DEF n, o, a, x, b
  <2>4. Carried(d) = Flow(fifo, usb) - a + x /\ Flow(fifo, usb) \in Int
    BY <2>1, <2>2, <2>3
  <2> QED BY <2>1, <2>4 DEF a, x
<1>10. CASE ~ToUsb(e)
  <2>1. f = d
    BY <1>10
  <2>2. Dx[e] = 0
    BY <1>1, <1>10 DEF Dx
  <2>3. \A r \in Reports : Outside(d, r) = Out(f.ev, f.usb, r)
    BY <2>1, <1>5, <1>7 DEF Out
  <2>4. Carried(d) = Flow(f.ev, f.usb)
    BY <2>1, <1>5, <1>7 DEF Flow
  <2>5. \A r \in Reports : Awaiting(r)[e] = Answer(e, r)
    BY <1>1, <1>10, AwaitedKind
  <2>6. Flow(f.ev, f.usb) = Flow(fifo, usb) + Weigh(g.out, Dx)
    BY <1>9, <2>2, <2>4
  <2>7. \A r \in Reports :
           Out(f.ev, f.usb, r) = Out(fifo, usb, r) - Answer(e, r) + Weigh(g.out, Awaiting(r))
    BY <1>8, <2>3, <2>5
  <2> QED BY <1>1, <1>3, <1>7, <2>1, <2>6, <2>7 DEF q, Delivered
<1>11. CASE ToUsb(e)
  <2>1. e \in UsbReports
    BY <1>1, <1>11, EventKinds DEF UsbReports, ToUsb
  <2>2. f = AcceptReport(d, e, accepted)
    BY <1>11
  <2>3. /\ f \in Devices
        /\ f.usb.mode = d.usb.mode /\ f.usb.report_enabled = d.usb.report_enabled
        /\ Adds(d.ev, f.ev, Answers)
        /\ \A r \in Reports : Outside(f, r) = Outside(d, r) + Awaiting(r)[e]
        /\ Carried(f) = Carried(d) + Dx[e] \/ Failed(f.ev)
    <3>1. Accepts(d, e, f)
      BY <1>7, <2>1, <2>2, AcceptServes
    <3> QED BY <3>1 DEF Accepts
  <2>4. f.usb \in Usbs /\ f.ev \in Seq(Events) /\ f = [usb |-> f.usb, ev |-> f.ev]
    BY <2>3 DEF Devices
  <2>5. Adds(q, f.ev, Traffic)
    <3>1. Adds(p, f.ev, Traffic)
      BY <1>7, <2>3, AnswersAreTraffic, AddsMore
    <3> QED BY <1>1, <1>3, <3>1, AnswersAreTraffic, AddsTwice DEF q
  <2>6. (\A r \in Reports : Outside(f, r) = Out(f.ev, f.usb, r)) /\ Carried(f) = Flow(f.ev, f.usb)
    BY <2>4 DEF Out, Flow
  <2>7. \A r \in Reports : Answer(e, r) = 0
    BY <1>11 DEF Answer, ToUsb
  <2>8. ASSUME NEW r \in Reports
        PROVE  Out(f.ev, f.usb, r) = Out(fifo, usb, r) - Answer(e, r) + Weigh(g.out, Awaiting(r))
    <3>1. Outside(f, r) = Outside(d, r) + Awaiting(r)[e] /\ Out(f.ev, f.usb, r) = Outside(f, r)
      BY <2>3, <2>6
    <3>2. /\ Outside(d, r) = Out(fifo, usb, r) - Awaiting(r)[e] + Weigh(g.out, Awaiting(r))
          /\ Out(fifo, usb, r) \in Int /\ Weigh(g.out, Awaiting(r)) \in Int /\ Awaiting(r)[e] \in Int
      BY <1>8
    <3>3. Answer(e, r) = 0
      BY <2>7
    <3> QED BY <3>1, <3>2, <3>3
  <2>9. Flow(f.ev, f.usb) = Flow(fifo, usb) + Weigh(g.out, Dx) \/ Failed(f.ev)
    <3>1. CASE Failed(f.ev)
      BY <3>1
    <3>2. CASE Carried(f) = Carried(d) + Dx[e]
      <4>1. Flow(f.ev, f.usb) = Carried(d) + Dx[e]
        BY <2>6, <3>2
      <4> QED BY <1>9, <4>1
    <3> QED BY <2>3, <3>1, <3>2
  <2> QED BY <1>1, <1>7, <2>3, <2>4, <2>5, <2>8, <2>9 DEF q, Delivered
<1> QED BY <1>10, <1>11


LEMMA PhaseNext ==
    ASSUME NEW e \in Events, NEW l \in ReportStates, NEW b, NEW c, NEW d,
           <<b, c>> \in PhaseStep(l)[e], <<b, d>> \in PhaseStep(l)[e]
    PROVE  c = d
BY DEF PhaseStep

LEMMA ButtonNext ==
    ASSUME NEW e \in Events, NEW k, NEW b, NEW c, <<b, c>> \in ButtonStep(k)[e]
    PROVE  c \in {"up", "down"}
BY DEF ButtonStep

LEMMA PhasesOf ==
    ASSUME NEW u, NEW o, NEW l
    PROVE  PeerPhase(u, o, l) \in Phases
BY DEF PeerPhase, Phases

\* e has been taken through hid_state.c, which became g, and usb_state.c.
Dispatched(e, g) ==
    /\ e \in Events /\ e = Head(fifo) /\ fifo # <<>> /\ g \in Shapes
    /\ Expected(e) /\ Turned(e, g) /\ (Due(e) => Balanced(e, g) /\ Fits(g))
    /\ h' = [g EXCEPT !.out = <<>>]
    /\ usb' \in Usbs /\ usb'.mode = usb.mode /\ usb'.report_enabled = usb.report_enabled
    /\ fifo' \in Seq(Events) /\ Tail(fifo) \in Seq(Events) /\ Adds(Tail(fifo), fifo', Traffic)
    /\ \A r \in Reports : Out(fifo', usb', r) = Out(fifo, usb, r) - Answer(e, r) + Weigh(g.out, Awaiting(r))
    /\ Flow(fifo', usb') = Flow(fifo, usb) + Weigh(g.out, Dx) \/ Failed(fifo')
    /\ radio' = radio /\ host' = host /\ down' = down
    /\ moved' = IF MayDiscard(e) THEN MotionTotal'
                ELSE IF e.t = "motion" THEN moved + e.dx ELSE moved

LEMMA DispatchTurn ==
    ASSUME IInv, NEW accepted \in BOOLEAN, Dispatch(accepted)
    PROVE  \E e, g : Dispatched(e, g)
<1> DEFINE e == Head(fifo)
           g == HidHandler(e)
           d == [usb |-> usb, ev |-> Tail(fifo) \o g.out]
           f == IF ToUsb(e) THEN AcceptReport(d, e, accepted) ELSE d
<1>1. Typed /\ Sessions /\ fifo \in Seq(Events) /\ usb \in Usbs
  BY DEF IInv, Typed
<1>2. /\ fifo # <<>> /\ h' = [g EXCEPT !.out = <<>>] /\ usb' = f.usb /\ fifo' = f.ev
      /\ radio' = radio /\ host' = host /\ down' = down
      /\ moved' = IF MayDiscard(e) THEN MotionTotal'
                  ELSE IF e.t = "motion" THEN moved + e.dx ELSE moved
  BY DEF Dispatch, Deliver
<1>3. e \in Events
  BY <1>1, <1>2, HeadTailProperties
<1>4. Expected(e)
  <2>1. ASSUME NEW l \in ReportStates PROVE \E c : <<HidPhase(h, l), c>> \in PhaseStep(l)[e]
    <3>1. Leads(fifo, PhaseStep(l), HidPhase(h, l), PeerPhase(usb, radio, l))
      BY <1>1 DEF Sessions
    <3> QED BY <1>1, <1>2, <3>1, LeadsHead
  <2> QED BY <1>1, <2>1 DEF Expected, Typed
<1>5. Turned(e, g) /\ (Due(e) => Balanced(e, g) /\ Fits(g))
  BY <1>3, <1>4, EventTurn
<1>6. g \in Shapes
  BY <1>5 DEF Turned
<1>7. d = [usb |-> usb, ev |-> Tail(fifo) \o g.out]
  OBVIOUS
<1>8. f = IF ToUsb(e) THEN AcceptReport(d, e, accepted) ELSE d
  OBVIOUS
<1>9. e = Head(fifo)
  OBVIOUS
<1> HIDE DEF e, g, d, f
<1>10. Delivered(e, g, f)
  BY <1>1, <1>2, <1>6, <1>7, <1>8, <1>9, Delivery
<1>11. Dispatched(e, g)
  BY <1>2, <1>3, <1>4, <1>5, <1>6, <1>9, <1>10 DEF Dispatched, Delivered
<1> QED BY <1>11

-----------------------------------------------------------------------------
LEMMA DispatchTyped ==
    ASSUME IInv, NEW e, NEW g, Dispatched(e, g)
    PROVE  Typed'
<1>1. Typed /\ g \in Shapes /\ Turned(e, g) /\ h' = [g EXCEPT !.out = <<>>]
  BY DEF IInv, Dispatched
<1>2. /\ h' \in Shapes /\ h'.out = <<>> /\ Routed(h') /\ Small(h') /\ Len(h'.evq) <= EventQueueSize
      /\ h'.axis \in Int
  <2>1. /\ h' \in Shapes /\ h'.out = <<>> /\ h'.evq = g.evq
        /\ (Routed(g) => Routed(h')) /\ (Small(g) => Small(h'))
    BY <1>1, Submit
  <2>2. h'.axis \in Int
    BY <2>1 DEF Shapes
  <2> QED BY <1>1, <2>1, <2>2 DEF Turned
<1>3. /\ usb' \in Usbs /\ usb'.report_enabled = Now(usb')
      /\ fifo' \in Seq(Events)
  <2>1. Now(usb') = Now(usb)
    BY DEF Dispatched, Now
  <2> QED BY <1>1, <2>1 DEF Dispatched, Typed
<1>4. radio' \in {"on", "off"} /\ down' \in SUBSET Keys /\ host' \in [keys : SUBSET Keys, x : Int]
  BY <1>1 DEF Dispatched, Typed
<1>5. moved' \in Int
  <2>1. host'.x \in Int
    BY <1>4
  <2>2. MotionTotal' \in Int
    <3>1. Flow(fifo', usb') \in Int
      BY <1>3, OutType
    <3>2. MotionTotal' = host'.x + Flow(fifo', usb') + h'.axis
      BY <1>2, <1>3, <2>1, TotalsNext
    <3> QED BY <1>2, <2>1, <3>1, <3>2
  <2>3. e.t = "motion" => e.dx \in Int
    BY EventKinds, ConstantsAssumption DEF Dispatched
  <2>4. moved \in Int
    BY <1>1 DEF Typed
  <2> QED BY <2>2, <2>3, <2>4 DEF Dispatched
<1> QED BY <1>2, <1>3, <1>4, <1>5 DEF Typed

LEMMA DispatchSessions ==
    ASSUME IInv, NEW e, NEW g, Dispatched(e, g)
    PROVE  Sessions'
<1> SUFFICES ASSUME NEW l \in ReportStates
             PROVE  Leads(fifo', PhaseStep(l), HidPhase(h', l), PeerPhase(usb', radio', l))
  BY DEF Sessions
<1>1. /\ e \in Events /\ e = Head(fifo) /\ fifo # <<>> /\ g \in Shapes /\ h' = [g EXCEPT !.out = <<>>]
      /\ fifo \in Seq(Events) /\ Tail(fifo) \in Seq(Events) /\ Adds(Tail(fifo), fifo', Traffic)
  BY DEF Dispatched, IInv, Typed
<1>2. PeerPhase(usb', radio', l) = PeerPhase(usb, radio, l) /\ PeerPhase(usb, radio, l) \in Phases
  BY PhasesOf DEF Dispatched, PeerPhase
<1>3. Leads(fifo, PhaseStep(l), HidPhase(h, l), PeerPhase(usb, radio, l))
  BY DEF IInv, Sessions
<1>4. PICK c : <<HidPhase(h, l), c>> \in PhaseStep(l)[e] /\ Leads(Tail(fifo), PhaseStep(l), c, PeerPhase(usb, radio, l))
  BY <1>1, <1>3, LeadsHead
<1>5. <<HidPhase(h, l), HidPhase(g, l)>> \in PhaseStep(l)[e]
  BY DEF Dispatched, Turned
<1>6. c = HidPhase(g, l)
  BY <1>1, <1>4, <1>5, PhaseNext
<1>7. HidPhase(h', l) = HidPhase(g, l)
  BY <1>1, Submit
<1>8. Ends(Tail(fifo), fifo', PhaseStep(l), PeerPhase(usb, radio, l), PeerPhase(usb, radio, l))
  <2>1. Idles(Tail(fifo), fifo')
    BY <1>1, TrafficIdles
  <2> QED BY <1>2, <2>1 DEF Idles
<1>9. Leads(fifo', PhaseStep(l), HidPhase(g, l), PeerPhase(usb, radio, l))
  BY <1>4, <1>6, <1>8 DEF Ends
<1> QED BY <1>2, <1>7, <1>9

LEMMA DispatchButtons ==
    ASSUME IInv, NEW e, NEW g, Dispatched(e, g)
    PROVE  Buttons'
<1>1. /\ e \in Events /\ e = Head(fifo) /\ fifo # <<>> /\ g \in Shapes /\ h' = [g EXCEPT !.out = <<>>]
      /\ fifo \in Seq(Events) /\ Tail(fifo) \in Seq(Events) /\ Adds(Tail(fifo), fifo', Traffic)
      /\ down' = down
  BY DEF Dispatched, IInv, Typed
<1> SUFFICES ASSUME ~Expiry
             PROVE  /\ Fresh(h')
                    /\ \A k \in Keys : \E c \in {"up", "down"} :
                          KeyOK(h', k, c) /\ Leads(fifo', ButtonStep(k), c, DownPhase(down', k))
  BY DEF Buttons
<1>2. Fresh(h)
  BY DEF IInv, Buttons
<1>3. Fresh(h')
  <2>1. Fresh(g)
    BY <1>2 DEF Dispatched, Turned
  <2> QED BY <1>1, <2>1, Submit
<1>4. ASSUME NEW k \in Keys
      PROVE  \E c \in {"up", "down"} : KeyOK(h', k, c) /\ Leads(fifo', ButtonStep(k), c, DownPhase(down', k))
  <2> DEFINE z == DownPhase(down, k)
  <2>1. PICK b \in {"up", "down"} : KeyOK(h, k, b) /\ Leads(fifo, ButtonStep(k), b, z)
    BY DEF IInv, Buttons
  <2>2. PICK c : <<b, c>> \in ButtonStep(k)[e] /\ Leads(Tail(fifo), ButtonStep(k), c, z)
    BY <1>1, <2>1, LeadsHead
  <2>3. c \in {"up", "down"} /\ z \in {"up", "down"}
    BY <1>1, <2>2, ButtonNext DEF DownPhase
  <2>4. KeyOK(g, k, c)
    BY <1>2, <2>1, <2>2, <2>3 DEF Dispatched, Turned
  <2>5. KeyOK(h', k, c)
    BY <1>1, <2>3, <2>4, Submit
  <2>6. Ends(Tail(fifo), fifo', ButtonStep(k), z, z)
    <3>1. Idles(Tail(fifo), fifo')
      BY <1>1, TrafficIdles
    <3> QED BY <2>3, <3>1 DEF Idles
  <2>7. Leads(fifo', ButtonStep(k), c, z)
    BY <2>2, <2>6 DEF Ends
  <2> QED BY <1>1, <2>3, <2>5, <2>7
<1> QED BY <1>3, <1>4

LEMMA DispatchMotion ==
    ASSUME IInv, NEW e, NEW g, Dispatched(e, g), Typed'
    PROVE  MotionConserved'
<1>1. /\ e \in Events /\ e = Head(fifo) /\ fifo # <<>> /\ g \in Shapes /\ h' = [g EXCEPT !.out = <<>>]
      /\ fifo \in Seq(Events) /\ Tail(fifo) \in Seq(Events) /\ Adds(Tail(fifo), fifo', Traffic)
      /\ host' = host /\ usb \in Usbs
      /\ fifo' \in Seq(Events) /\ usb' \in Usbs
      /\ moved' = IF MayDiscard(e) THEN MotionTotal'
                  ELSE IF e.t = "motion" THEN moved + e.dx ELSE moved
  BY DEF Dispatched, IInv, Typed
<1> SUFFICES ASSUME h'.link[1] = "usb", Undisturbed', ~MayDiscard(e) PROVE MotionTotal' = moved'
  BY <1>1 DEF MotionConserved
<1>2. ~Disturbed(fifo')
  BY <1>1, TotalsNext
<1>3. ~Failed(fifo') /\ ~Disturbed(Tail(fifo))
  <2>1. ~Failed(fifo')
    BY <1>2 DEF Disturbed, Failed
  <2>2. Adds(Tail(fifo), fifo', Events)
    BY <1>1, AnswersAreTraffic, AddsMore
  <2> QED BY <1>1, <1>2, <2>1, <2>2, DisturbedStays
<1>4. ~Disturbed(fifo)
  <2>1. \A i \in DOMAIN fifo : fifo[i] = e \/ \E j \in DOMAIN Tail(fifo) : Tail(fifo)[j] = fifo[i]
    <3>1. /\ Len(fifo) \in Nat /\ DOMAIN fifo = 1 .. Len(fifo) /\ Len(fifo) >= 1 /\ e = fifo[1]
          /\ Len(Tail(fifo)) = Len(fifo) - 1 /\ DOMAIN Tail(fifo) = 1 .. Len(Tail(fifo))
          /\ \A j \in 1 .. Len(Tail(fifo)) : Tail(fifo)[j] = fifo[j + 1]
      BY <1>1, LenProperties, EmptySeq, HeadTailProperties
    <3>2. ASSUME NEW i \in DOMAIN fifo, i # 1 PROVE i - 1 \in DOMAIN Tail(fifo) /\ Tail(fifo)[i - 1] = fifo[i]
      BY <3>1, <3>2
    <3> QED BY <3>1, <3>2
  <2>2. e.t \notin {"subscriber", "subscription", "failed"}
    BY DEF MayDiscard
  <2> QED BY <1>3, <2>1, <2>2 DEF Disturbed
<1>5. /\ h'.link = g.link /\ h'.axis = g.axis
  BY <1>1, Submit
<1>6. /\ g.link = h.link
      /\ h.link[1] = "usb" => Moving(g) = h.axis + IF e.t = "motion" THEN e.dx ELSE 0
  BY DEF Dispatched, Turned
<1> DEFINE x == Weigh(g.out, Dx)
           m == Flow(fifo, usb)
           n == Flow(fifo', usb')
           b == IF e.t = "motion" THEN e.dx ELSE 0
<1>7. n = m + x
  BY <1>3 DEF Dispatched
<1>8. g.axis + x = h.axis + b
  BY <1>5, <1>6 DEF Moving
<1>9. MotionTotal = moved
  BY <1>1, <1>4, <1>5, <1>6, Totals DEF IInv, MotionConserved
<1>10. /\ x \in Int /\ m \in Int /\ n \in Int /\ b \in Int
       /\ g.axis \in Int /\ h.axis \in Int /\ host.x \in Int /\ moved \in Int
  <2>1. x \in Int
    BY <1>1, OutTraffic, WeighType, DxType
  <2>2. m \in Int /\ n \in Int
    BY <1>1, OutType
  <2>3. b \in Int
    BY <1>1, EventKinds, ConstantsAssumption
  <2>4. g.axis \in Int /\ h.axis \in Int /\ host.x \in Int /\ moved \in Int
    BY <1>1 DEF IInv, Typed, Shapes
  <2> QED BY <2>1, <2>2, <2>3, <2>4
<1>11. MotionTotal = host.x + m + h.axis
  BY <1>1, <1>10, Totals
<1>12. MotionTotal' = host.x + n + g.axis
  BY <1>1, <1>5, <1>10, TotalsNext
<1>13. moved' = moved + b
  BY <1>1, <1>10
<1> HIDE DEF x, m, n, b
<1>14. host.x + m + h.axis = moved
  BY <1>9, <1>11
<1>15. host.x + n + g.axis = moved + b
  <2> DEFINE o == host.x
             s == g.axis
             a == h.axis
  <2>1. n = m + x /\ s + x = a + b /\ o + m + a = moved
    BY <1>7, <1>8, <1>14
  <2>2. o \in Int /\ s \in Int /\ a \in Int
    BY <1>10
  <2> HIDE DEF o, s, a
  <2>3. o + n + s = moved + b
    BY <1>10, <2>1, <2>2
  <2> QED BY <2>3 DEF o, s
<1> QED BY <1>12, <1>13, <1>15


LEMMA TailFields ==
    ASSUME NEW q \in Seq(Events), q # <<>>
    PROVE  /\ Len(q) \in Nat /\ DOMAIN q = 1 .. Len(q) /\ Len(q) >= 1 /\ Head(q) = q[1] /\ Head(q) \in Events
           /\ DOMAIN Tail(q) = 1 .. Len(q) - 1
           /\ \A j \in 1 .. Len(q) - 1 : Tail(q)[j] = q[j + 1]
<1>1. Len(q) \in Nat /\ DOMAIN q = 1 .. Len(q) /\ Len(q) >= 1
  BY LenProperties, EmptySeq
<1>2. /\ Head(q) = q[1] /\ Head(q) \in Events /\ Tail(q) \in Seq(Events) /\ Len(Tail(q)) = Len(q) - 1
      /\ \A j \in 1 .. Len(Tail(q)) : Tail(q)[j] = q[j + 1]
  BY HeadTailProperties
<1>3. DOMAIN Tail(q) = 1 .. Len(Tail(q))
  BY <1>2, LenProperties
<1> QED BY <1>1, <1>2, <1>3

LEMMA EarlyTail ==
    ASSUME NEW q \in Seq(Events), q # <<>>, NEW r, Early(q, r)
    PROVE  /\ Early(Tail(q), r)
           /\ Announced(Tail(q), r) => Announced(q, r) /\ ~Subscribes(Head(q), r)
<1> DEFINE t == Tail(q)
           n == Len(q)
<1>1. /\ n \in Nat /\ DOMAIN q = 1 .. n /\ n >= 1 /\ Head(q) = q[1]
      /\ DOMAIN t = 1 .. n - 1 /\ \A j \in 1 .. n - 1 : t[j] = q[j + 1]
  BY TailFields
<1> HIDE DEF t, n
<1>2. ASSUME NEW i \in DOMAIN t, Announces(t[i], r)
      PROVE  /\ i + 1 \in DOMAIN q /\ Announces(q[i + 1], r)
             /\ \A j \in 1 .. i : ~Subscribes(q[j], r)
             /\ \A j \in 1 .. i - 1 : j \in DOMAIN t /\ t[j] = q[j + 1] /\ j + 1 \in 1 .. i
             /\ 1 \in 1 .. i
  <2>1. i \in Nat /\ i + 1 \in DOMAIN q /\ q[i + 1] = t[i] /\ 1 \in 1 .. i
    BY <1>1
  <2>2. \A j \in 1 .. (i + 1) - 1 : ~Subscribes(q[j], r)
    BY <1>2, <2>1 DEF Early
  <2>3. (i + 1) - 1 = i
    BY <2>1
  <2>4. \A j \in 1 .. i - 1 : j \in DOMAIN t /\ t[j] = q[j + 1] /\ j + 1 \in 1 .. i
    BY <1>1
  <2> QED BY <1>2, <2>1, <2>2, <2>3, <2>4
<1>3. Early(t, r)
  <2> SUFFICES ASSUME NEW i \in DOMAIN t, Announces(t[i], r), NEW j \in 1 .. i - 1
               PROVE  ~Subscribes(t[j], r)
    BY DEF Early
  <2>1. t[j] = q[j + 1] /\ j + 1 \in 1 .. i
    BY <1>2
  <2> QED BY <1>2, <2>1
<1>4. ASSUME Announced(t, r) PROVE Announced(q, r) /\ ~Subscribes(Head(q), r)
  <2>1. PICK i \in DOMAIN t : Announces(t[i], r)
    BY <1>4 DEF Announced
  <2> QED BY <1>1, <1>2, <2>1 DEF Announced
<1> QED BY <1>3, <1>4 DEF t

\* A session begins with its event.
LEMMA Begins ==
    ASSUME NEW e \in Events, NEW r \in Reports, NEW b, NEW c, <<b, c>> \in PhaseStep(Usb(r))[e]
    PROVE  /\ b # "sub" /\ c = "sub" => e = Subscription(Usb(r), "on")
           /\ b = "off" /\ c # "off" => e = Subscriber("usb", "on")
<1>1. Usb(r) \in ReportStates /\ Usb(r)[1] = "usb"
  BY UsbType
<1>2. ASSUME b # "sub", c = "sub" PROVE e = Subscription(Usb(r), "on")
  <2>1. e.t = "subscription" /\ e.l = Usb(r) /\ e.to = "on"
    BY <1>1, <1>2 DEF PhaseStep
  <2>2. e \in [t : {"subscription"}, l : ReportStates, to : {"on", "off"}]
    BY <2>1 DEF Events, HidReports
  <2> QED BY <2>1, <2>2 DEF Subscription
<1>3. ASSUME b = "off", c # "off" PROVE e = Subscriber("usb", "on")
  <2>1. e.t = "subscriber" /\ e.s = "usb" /\ e.to = "on"
    BY <1>1, <1>3 DEF PhaseStep
  <2>2. e \in [t : {"subscriber"}, s : Subs, to : {"on", "off"}]
    BY <2>1 DEF Events, HidReports
  <2> QED BY <2>1, <2>2 DEF Subscriber
<1> QED BY <1>2, <1>3

LEMMA PipelineDepth == Depth("usb") = Pipeline /\ Pipeline \in Nat
BY PipelineAssumption DEF Depth

\* What CreditExact says, in terms of the queue and the USB device.
Exact(x, q, u) ==
    /\ "usb" \in x.on => x.report_cnt["usb"] = Out(q, u, "mouse") + Out(q, u, "boot")
    /\ \A r \in Reports : Connected(x, Usb(r)) => x.cnt[Usb(r)] = Out(q, u, r)

LEMMA ExactIs ==
    ASSUME fifo \in Seq(Events), usb \in Usbs PROVE CreditExact <=> Exact(h, fifo, usb)
<1>1. "mouse" \in Reports /\ "boot" \in Reports
  BY DEF Reports
<1> QED BY <1>1, Totals DEF CreditExact, Exact

LEMMA ExactNext ==
    ASSUME fifo' \in Seq(Events), usb' \in Usbs PROVE CreditExact' <=> Exact(h', fifo', usb')
<1>1. "mouse" \in Reports /\ "boot" \in Reports
  BY DEF Reports
<1>2. Outstanding("mouse")' = Out(fifo', usb', "mouse") /\ Outstanding("boot")' = Out(fifo', usb', "boot")
      /\ \A r \in Reports : Outstanding(r)' = Out(fifo', usb', r)
  BY <1>1, TotalsNext
<1>3. CreditExact' <=> /\ "usb" \in h'.on => h'.report_cnt["usb"] = Outstanding("mouse")' + Outstanding("boot")'
                       /\ \A r \in Reports : Connected(h', Usb(r)) => h'.cnt[Usb(r)] = Outstanding(r)'
  BY DEF CreditExact, Connected, Usb
<1> QED BY <1>2, <1>3 DEF Exact

\* What is awaited of e is awaited.
LEMMA AwaitsHead ==
    ASSUME fifo \in Seq(Events), fifo # <<>>, usb \in Usbs, NEW r \in Reports
    PROVE  /\ Out(fifo, usb, r) \in Nat
           /\ Out(fifo, usb, r) >= Awaiting(r)[Head(fifo)] + Weigh(usb.bufs, Awaiting(r))
           /\ Awaiting(r)[Head(fifo)] \in 0 .. 1 /\ Weigh(usb.bufs, Awaiting(r)) \in Nat
<1> DEFINE w == Awaiting(r)
           a == w[Head(fifo)]
           o == Weigh(fifo, w)
           t == Weigh(Tail(fifo), w)
           b == Weigh(usb.bufs, w)
           s == Held1(usb, r)
<1>1. Head(fifo) \in Events /\ Tail(fifo) \in Seq(Events) /\ usb.bufs \in Seq(Events)
  BY HeadTailProperties, BufsType DEF Usbs
<1>2. o = a + t
  BY AwaitingInt, WeighHead
<1>3. t \in Nat /\ b \in Nat
  BY <1>1, AwaitingType, WeighNatural
<1>4. a \in 0 .. 1
  BY <1>1, AwaitedKind
<1>5. s \in 0 .. 1
  BY DEF Held1
<1>6. Out(fifo, usb, r) = o + b + s
  BY OutFields
<1> HIDE DEF w, a, o, t, b, s
<1>7. Out(fifo, usb, r) \in Nat /\ Out(fifo, usb, r) >= a + b
  BY <1>2, <1>3, <1>4, <1>5, <1>6
<1> QED BY <1>3, <1>4, <1>7 DEF a, b, w

LEMMA CreditsDue ==
    ASSUME IInv, Credits, fifo # <<>>
    PROVE  Due(Head(fifo))
<1> DEFINE e == Head(fifo)
<1>1. fifo \in Seq(Events) /\ usb \in Usbs /\ Fits(h) /\ Exact(h, fifo, usb)
  BY ExactIs DEF IInv, Typed, Credits
<1>2. e \in Events
  BY <1>1, HeadTailProperties
<1> HIDE DEF e
<1>3. ASSUME e.t \in {"sent", "failed"}, "usb" \in h.on
      PROVE  h.report_cnt["usb"] >= 1 /\ (Connected(h, e.l) => h.cnt[e.l] >= 1)
  <2>1. e.l \in {"usb"} \X Reports
    BY <1>2, <1>3, EventKinds
  <2>2. PICK r \in Reports : e.l = Usb(r)
    <3>1. e.l = Usb("mouse") \/ e.l = Usb("boot")
      BY <2>1, UsbReport
    <3> QED BY <3>1 DEF Reports
  <2>3. Awaiting(r)[e] = 1
    BY <1>2, <1>3, <2>2 DEF Awaiting
  <2>4. Out(fifo, usb, r) >= 1
    <3>1. Out(fifo, usb, r) \in Nat /\ Out(fifo, usb, r) >= Awaiting(r)[e] + Weigh(usb.bufs, Awaiting(r))
          /\ Weigh(usb.bufs, Awaiting(r)) \in Nat
      BY <1>1, AwaitsHead DEF e
    <3> QED BY <2>3, <3>1
  <2>5. Out(fifo, usb, "mouse") \in Nat /\ Out(fifo, usb, "boot") \in Nat
    BY <1>1, OutType
  <2>6. h.report_cnt["usb"] >= 1
    <3>1. h.report_cnt["usb"] = Out(fifo, usb, "mouse") + Out(fifo, usb, "boot")
      BY <1>1, <1>3 DEF Exact
    <3>2. r = "mouse" \/ r = "boot"
      BY DEF Reports
    <3> QED BY <2>4, <2>5, <3>1, <3>2
  <2>7. Connected(h, e.l) => h.cnt[e.l] >= 1
    BY <1>1, <2>2, <2>4 DEF Exact
  <2> QED BY <2>6, <2>7
<1>4. Due(e)
  BY <1>1, <1>3 DEF Due
<1> QED BY <1>4 DEF e


\* Announcements, in terms of the queue and the USB device.
Announcing(x, q, u) ==
    \A r \in Reports : /\ Early(q, r)
                       /\ Announced(q, r) => Out(q, u, r) = 0 /\ ~Connected(x, Usb(r))

LEMMA CreditsAre ==
    ASSUME fifo \in Seq(Events), usb \in Usbs
    PROVE  Credits <=> /\ Fits(h) /\ Exact(h, fifo, usb)
                       /\ Out(fifo, usb, "mouse") + Out(fifo, usb, "boot") <= Pipeline
                       /\ Announcing(h, fifo, usb)
<1>1. "mouse" \in Reports /\ "boot" \in Reports
  BY DEF Reports
<1>2. \A r \in Reports : Outstanding(r) = Out(fifo, usb, r)
  BY Totals
<1>3. Announcements <=> Announcing(h, fifo, usb)
  BY <1>2 DEF Announcements, Announcing
<1>4. Outstanding("mouse") + Outstanding("boot") = Out(fifo, usb, "mouse") + Out(fifo, usb, "boot")
  BY <1>1, <1>2
<1> QED BY <1>3, <1>4, ExactIs DEF Credits

LEMMA CreditsNext ==
    ASSUME fifo' \in Seq(Events), usb' \in Usbs,
           Fits(h'), Exact(h', fifo', usb'),
           Out(fifo', usb', "mouse") + Out(fifo', usb', "boot") <= Pipeline,
           Announcing(h', fifo', usb')
    PROVE  Credits'
<1>1. "mouse" \in Reports /\ "boot" \in Reports
  BY DEF Reports
<1>2. Outstanding("mouse")' = Out(fifo', usb', "mouse") /\ Outstanding("boot")' = Out(fifo', usb', "boot")
      /\ \A r \in Reports : Outstanding(r)' = Out(fifo', usb', r)
  BY <1>1, TotalsNext
<1>3. Announcements'
  BY <1>2 DEF Announcements, Announcing, Early, Announced, Connected, Announces, Subscribes,
     Subscriber, Subscription, Usb
<1>4. CreditExact'
  BY ExactNext
<1>5. Fits(h)'
  BY DEF Fits, Depth, ReportStates, Subs, Reports
<1>6. (Outstanding("mouse") + Outstanding("boot") <= Pipeline)'
  BY <1>2
<1> QED BY <1>3, <1>4, <1>5, <1>6 DEF Credits

LEMMA DispatchCredits ==
    ASSUME IInv, Credits, NEW e, NEW g, Dispatched(e, g), Typed'
    PROVE  Credits'
<1>1. /\ e \in Events /\ e = Head(fifo) /\ fifo # <<>> /\ g \in Shapes /\ h' = [g EXCEPT !.out = <<>>]
      /\ fifo \in Seq(Events) /\ Tail(fifo) \in Seq(Events) /\ Adds(Tail(fifo), fifo', Traffic)
      /\ usb \in Usbs /\ fifo' \in Seq(Events) /\ usb' \in Usbs /\ Routed(h) /\ Turned(e, g)
      /\ h \in Shapes
  BY DEF Dispatched, IInv, Typed
<1>2. /\ Fits(h) /\ Exact(h, fifo, usb) /\ Announcing(h, fifo, usb)
      /\ Out(fifo, usb, "mouse") + Out(fifo, usb, "boot") <= Pipeline
  BY <1>1, CreditsAre
<1>3. Balanced(e, g) /\ Fits(g)
  BY <1>1, CreditsDue DEF Dispatched
<1>4. /\ h'.on = g.on /\ h'.cnt = g.cnt /\ h'.report_cnt = g.report_cnt /\ Fits(h')
      /\ \A l \in ReportStates : Connected(h', l) = Connected(g, l)
  BY <1>1, <1>3, Submit
<1> DEFINE O(r) == Out(fifo, usb, r)
           N(r) == Out(fifo', usb', r)
           A(r) == Answer(e, r)
           W(r) == Weigh(g.out, Awaiting(r))
<1>5. \A r \in Reports : N(r) = O(r) - A(r) + W(r)
  BY DEF Dispatched
<1>6. ASSUME NEW r \in Reports
      PROVE  /\ N(r) \in Nat /\ O(r) \in Nat /\ A(r) \in 0 .. 1 /\ W(r) \in Nat
             /\ Usb(r) \in ReportStates /\ Usb(r)[1] = "usb"
  <2>1. N(r) \in Nat /\ O(r) \in Nat
    BY <1>1, OutType
  <2>2. W(r) \in Nat
    BY <1>1, OutTraffic, AwaitingType, WeighNatural
  <2>3. A(r) \in 0 .. 1
    BY <1>1, AwaitedKind
  <2> QED BY <2>1, <2>2, <2>3, UsbType
<1>7. "mouse" \in Reports /\ "boot" \in Reports
  BY DEF Reports
<1>8. /\ \A r \in Reports :
          /\ Connected(g, Usb(r)) => g.cnt[Usb(r)] - W(r) = h.cnt[Usb(r)] - A(r)
          /\ ~Connected(g, Usb(r)) => W(r) = 0
      /\ "usb" \in g.on => g.report_cnt["usb"] - (W("mouse") + W("boot"))
                           = (IF "usb" \in h.on THEN h.report_cnt["usb"] ELSE 0) - (A("mouse") + A("boot"))
  BY <1>3 DEF Balanced, Owed, Debt
<1>9. \A r \in Reports : g.cnt[Usb(r)] \in Int /\ h.cnt[Usb(r)] \in Int
  BY <1>1, <1>6 DEF Shapes
<1>10. g.report_cnt["usb"] \in Int /\ h.report_cnt["usb"] \in Int
  BY <1>1 DEF Shapes, Subs
<1>11. \A r \in Reports : Announces(e, r) => O(r) = 0 /\ ~Connected(h, Usb(r))
  <2> SUFFICES ASSUME NEW r \in Reports, Announces(e, r) PROVE O(r) = 0 /\ ~Connected(h, Usb(r))
    OBVIOUS
  <2>1. 1 \in DOMAIN fifo /\ fifo[1] = e
    BY <1>1, TailFields
  <2>2. Announced(fifo, r)
    BY <2>1 DEF Announced
  <2> QED BY <1>2, <2>2 DEF Announcing
<1>12. ASSUME NEW r \in Reports
       PROVE  /\ ~Connected(h, Usb(r)) /\ Connected(g, Usb(r)) => e = Subscription(Usb(r), "on")
              /\ "usb" \notin h.on /\ "usb" \in g.on => e = Subscriber("usb", "on")
  <2> DEFINE b == HidPhase(h, Usb(r))
             c == HidPhase(g, Usb(r))
  <2>1. <<b, c>> \in PhaseStep(Usb(r))[e]
    BY <1>1, <1>6 DEF Turned
  <2>2. /\ b # "sub" /\ c = "sub" => e = Subscription(Usb(r), "on")
        /\ b = "off" /\ c # "off" => e = Subscriber("usb", "on")
    BY <1>1, <2>1, Begins
  <2>3. /\ ~Connected(h, Usb(r)) => b # "sub"
        /\ Connected(g, Usb(r)) => c = "sub"
        /\ "usb" \in g.on => c # "off"
    BY <1>6 DEF HidPhase
  <2>4. "usb" \notin h.on => b = "off"
    BY <1>1, <1>6 DEF HidPhase, Routed
  <2> QED BY <2>2, <2>3, <2>4
<1> HIDE DEF O, N, A, W
<1>13. ASSUME NEW r \in Reports, Connected(h', Usb(r)) PROVE h'.cnt[Usb(r)] = N(r)
  <2>1. g.cnt[Usb(r)] - W(r) = h.cnt[Usb(r)] - A(r)
    BY <1>4, <1>6, <1>8, <1>13
  <2>2. h.cnt[Usb(r)] = O(r)
    <3>1. CASE Connected(h, Usb(r))
      BY <1>2, <3>1 DEF Exact, O
    <3>2. CASE ~Connected(h, Usb(r))
      <4>1. e = Subscription(Usb(r), "on")
        BY <1>4, <1>6, <1>12, <1>13, <3>2
      <4>2. O(r) = 0
        BY <1>11, <4>1 DEF Announces
      <4>3. h.cnt[Usb(r)] = 0
        BY <1>1, <1>6, <3>2 DEF Routed
      <4> QED BY <4>2, <4>3
    <3> QED BY <3>1, <3>2
  <2>3. g.cnt[Usb(r)] = h.cnt[Usb(r)] - A(r) + W(r)
    BY <1>6, <1>9, <2>1
  <2> QED BY <1>4, <1>5, <2>2, <2>3
<1>14. ASSUME "usb" \in h'.on PROVE h'.report_cnt["usb"] = N("mouse") + N("boot")
  <2> DEFINE k == IF "usb" \in h.on THEN h.report_cnt["usb"] ELSE 0
  <2>1. g.report_cnt["usb"] - (W("mouse") + W("boot")) = k - (A("mouse") + A("boot"))
    BY <1>4, <1>8, <1>14
  <2>2. k = O("mouse") + O("boot")
    <3>1. CASE "usb" \in h.on
      BY <1>2, <3>1 DEF Exact, O
    <3>2. CASE "usb" \notin h.on
      <4>1. e = Subscriber("usb", "on")
        BY <1>4, <1>7, <1>12, <1>14, <3>2
      <4>2. O("mouse") = 0 /\ O("boot") = 0
        BY <1>7, <1>11, <4>1 DEF Announces
      <4> QED BY <3>2, <4>2
    <3> QED BY <3>1, <3>2
  <2>3. k \in Int
    BY <1>10
  <2> HIDE DEF k
  <2>4. N("mouse") = O("mouse") - A("mouse") + W("mouse") /\ N("boot") = O("boot") - A("boot") + W("boot")
    BY <1>5, <1>7
  <2>5. g.report_cnt["usb"] = N("mouse") + N("boot")
    BY <1>6, <1>7, <1>10, <2>1, <2>2, <2>3, <2>4
  <2> QED BY <1>4, <2>5
<1>15. N("mouse") + N("boot") <= Pipeline
  <2>1. CASE "usb" \in h'.on
    <3>1. h'.report_cnt["usb"] <= Pipeline
      BY <1>4, PipelineDepth DEF Fits, Subs
    <3> QED BY <1>14, <2>1, <3>1
  <2>2. CASE "usb" \notin h'.on
    <3>1. \A r \in Reports : ~Connected(g, Usb(r))
      BY <1>1, <1>4, <1>6, <2>2 DEF Turned, Routed
    <3>2. W("mouse") = 0 /\ W("boot") = 0
      BY <1>7, <1>8, <3>1
    <3>3. N("mouse") <= O("mouse") /\ N("boot") <= O("boot")
      BY <1>5, <1>6, <1>7, <3>2
    <3>4. O("mouse") + O("boot") <= Pipeline
      BY <1>2 DEF O
    <3> QED BY <1>6, <1>7, <3>3, <3>4, PipelineDepth
  <2> QED BY <2>1, <2>2
<1>16. ASSUME NEW r \in Reports
       PROVE  Early(fifo', r) /\ (Announced(fifo', r) => N(r) = 0 /\ ~Connected(h', Usb(r)))
  <2>1. Early(fifo, r)
    BY <1>2 DEF Announcing
  <2>2. /\ Early(Tail(fifo), r)
        /\ Announced(Tail(fifo), r) => Announced(fifo, r) /\ ~Subscribes(e, r)
    BY <1>1, <2>1, EarlyTail
  <2>3. \A y \in Traffic : ~Announces(y, r)
    BY AnnouncementKind DEF Traffic
  <2>4. /\ Early(Tail(fifo), r) => Early(fifo', r)
        /\ Announced(fifo', r) => Announced(Tail(fifo), r)
    BY <1>1, <2>3, AnswersAreTraffic, EarlyAdds
  <2>5. ASSUME Announced(fifo', r) PROVE N(r) = 0 /\ ~Connected(h', Usb(r))
    <3>1. Announced(fifo, r) /\ ~Subscribes(e, r)
      BY <2>2, <2>4, <2>5
    <3>2. O(r) = 0 /\ ~Connected(h, Usb(r))
      BY <1>2, <3>1 DEF Announcing, O
    <3>3. e # Subscription(Usb(r), "on")
      BY <3>1 DEF Subscribes, Subscription
    <3>4. ~Connected(g, Usb(r))
      BY <1>12, <3>2, <3>3
    <3>5. W(r) = 0
      BY <1>8, <3>4
    <3>6. N(r) = 0
      <4>1. N(r) = O(r) - A(r) + W(r)
        BY <1>5
      <4> QED BY <1>6, <3>2, <3>5, <4>1
    <3> QED BY <1>4, <1>6, <3>4, <3>6
  <2> QED BY <2>2, <2>4, <2>5
<1>17. Exact(h', fifo', usb')
  BY <1>13, <1>14 DEF Exact, N
<1>18. Announcing(h', fifo', usb')
  BY <1>16 DEF Announcing, N
<1>19. Out(fifo', usb', "mouse") + Out(fifo', usb', "boot") <= Pipeline
  BY <1>15 DEF N
<1> QED BY <1>1, <1>4, <1>17, <1>18, <1>19, CreditsNext

-----------------------------------------------------------------------------
(* Steps of the USB host, the radio and the user: hid_state.c stays as it  *)
(* is, and its sessions and buttons are announced by what they add.        *)
PeerStep ==
    /\ h' = h /\ moved' = moved
    /\ fifo' \in Seq(Events) /\ Adds(fifo, fifo', Events)
    /\ usb' \in Usbs /\ usb'.report_enabled = Now(usb')
    /\ radio' \in {"on", "off"} /\ down' \in SUBSET Keys
    /\ host' \in [keys : SUBSET Keys, x : Int]
    /\ \A l \in ReportStates :
          Ends(fifo, fifo', PhaseStep(l), PeerPhase(usb, radio, l), PeerPhase(usb', radio', l))
    /\ \A k \in Keys : Ends(fifo, fifo', ButtonStep(k), DownPhase(down, k), DownPhase(down', k))
    /\ Disturbed(fifo') \/ host'.x + Flow(fifo', usb') = host.x + Flow(fifo, usb)
\* They answer what is awaited, and announce sessions of idle reports only.
PeerCalm ==
    \A r \in Reports :
       /\ Out(fifo', usb', r) = Out(fifo, usb, r)
       /\ Early(fifo, r) => Early(fifo', r)
       /\ Announced(fifo', r) => Announced(fifo, r) \/ (Out(fifo, usb, r) = 0 /\ ~Connected(h, Usb(r)))

LEMMA PeerInvariant ==
    ASSUME IInv, PeerStep
    PROVE  IInv'
<1>1. /\ h' = h /\ moved' = moved /\ fifo \in Seq(Events) /\ fifo' \in Seq(Events)
      /\ Adds(fifo, fifo', Events) /\ usb \in Usbs /\ usb' \in Usbs
      /\ host \in [keys : SUBSET Keys, x : Int] /\ host' \in [keys : SUBSET Keys, x : Int]
      /\ h \in Shapes
  BY DEF IInv, Typed, PeerStep
<1>2. Typed'
  BY DEF IInv, Typed, PeerStep
<1>3. Sessions'
  <2>1. ASSUME NEW l \in ReportStates
        PROVE  Leads(fifo', PhaseStep(l), HidPhase(h', l), PeerPhase(usb', radio', l))
    <3>1. Leads(fifo, PhaseStep(l), HidPhase(h, l), PeerPhase(usb, radio, l))
      BY DEF IInv, Sessions
    <3>2. Ends(fifo, fifo', PhaseStep(l), PeerPhase(usb, radio, l), PeerPhase(usb', radio', l))
      BY DEF PeerStep
    <3> QED BY <1>1, <3>1, <3>2 DEF Ends
  <2> QED BY <2>1 DEF Sessions
<1>4. Buttons'
  <2> SUFFICES ASSUME ~Expiry
               PROVE  /\ Fresh(h')
                      /\ \A k \in Keys : \E c \in {"up", "down"} :
                            KeyOK(h', k, c) /\ Leads(fifo', ButtonStep(k), c, DownPhase(down', k))
    BY DEF Buttons
  <2>1. Fresh(h)
    BY DEF IInv, Buttons
  <2>2. ASSUME NEW k \in Keys
        PROVE  \E c \in {"up", "down"} : KeyOK(h, k, c) /\ Leads(fifo', ButtonStep(k), c, DownPhase(down', k))
    <3>1. PICK c \in {"up", "down"} : KeyOK(h, k, c) /\ Leads(fifo, ButtonStep(k), c, DownPhase(down, k))
      BY DEF IInv, Buttons
    <3>2. Ends(fifo, fifo', ButtonStep(k), DownPhase(down, k), DownPhase(down', k))
      BY DEF PeerStep
    <3> QED BY <3>1, <3>2 DEF Ends
  <2> QED BY <1>1, <2>1, <2>2
<1>5. MotionConserved'
  <2> SUFFICES ASSUME h'.link[1] = "usb", Undisturbed' PROVE MotionTotal' = moved'
    BY DEF MotionConserved
  <2>1. ~Disturbed(fifo')
    BY <1>1, TotalsNext
  <2>2. ~Disturbed(fifo)
    BY <1>1, <2>1, DisturbedStays
  <2>3. MotionTotal = moved
    BY <1>1, <2>2, Totals DEF IInv, MotionConserved
  <2>4. host.x \in Int /\ host'.x \in Int /\ h.axis \in Int /\ h'.axis \in Int
    BY <1>1 DEF Shapes
  <2>5. MotionTotal = host.x + Flow(fifo, usb) + h.axis
    BY <1>1, <2>4, Totals
  <2>6. MotionTotal' = host'.x + Flow(fifo', usb') + h'.axis
    BY <1>1, <2>4, TotalsNext
  <2>7. host'.x + Flow(fifo', usb') = host.x + Flow(fifo, usb)
    BY <2>1 DEF PeerStep
  <2> QED BY <1>1, <2>3, <2>5, <2>6, <2>7
<1> QED BY <1>2, <1>3, <1>4, <1>5 DEF IInv

LEMMA PeerCredits ==
    ASSUME IInv, Credits, PeerStep, PeerCalm
    PROVE  Credits'
<1>1. /\ h' = h /\ fifo \in Seq(Events) /\ fifo' \in Seq(Events) /\ usb \in Usbs /\ usb' \in Usbs
  BY DEF IInv, Typed, PeerStep
<1>2. /\ Fits(h) /\ Exact(h, fifo, usb) /\ Announcing(h, fifo, usb)
      /\ Out(fifo, usb, "mouse") + Out(fifo, usb, "boot") <= Pipeline
  BY <1>1, CreditsAre
<1>3. "mouse" \in Reports /\ "boot" \in Reports
  BY DEF Reports
<1>4. \A r \in Reports : Out(fifo', usb', r) = Out(fifo, usb, r)
  BY DEF PeerCalm
<1>5. Out(fifo', usb', "mouse") + Out(fifo', usb', "boot") <= Pipeline
  BY <1>2, <1>3, <1>4
<1>6. Exact(h', fifo', usb')
  BY <1>1, <1>2, <1>3, <1>4 DEF Exact
<1>7. Announcing(h', fifo', usb')
  BY <1>1, <1>2, <1>4 DEF Announcing, PeerCalm
<1>8. Fits(h')
  BY <1>1, <1>2
<1> QED BY <1>1, <1>5, <1>6, <1>7, <1>8, CreditsNext

\* A step that only adds traffic announces nothing.
LEMMA TrafficPeer ==
    ASSUME IInv, h' = h, moved' = moved, radio' = radio, down' = down,
           host' \in [keys : SUBSET Keys, x : Int],
           usb' \in Usbs, usb'.mode = usb.mode, usb'.report_enabled = usb.report_enabled,
           Adds(fifo, fifo', Traffic),
           Disturbed(fifo') \/ host'.x + Flow(fifo', usb') = host.x + Flow(fifo, usb),
           \A r \in Reports : Out(fifo', usb', r) = Out(fifo, usb, r)
    PROVE  PeerStep /\ PeerCalm
<1>1. fifo \in Seq(Events) /\ Typed
  BY DEF IInv, Typed
<1>2. fifo' \in Seq(Events) /\ Adds(fifo, fifo', Events)
  BY <1>1, AnswersAreTraffic, AddsType, AddsMore
<1>3. usb'.report_enabled = Now(usb')
  BY <1>1 DEF Typed, Now
<1>4. Idles(fifo, fifo')
  BY <1>1, TrafficIdles
<1>5. \A l \in ReportStates :
          Ends(fifo, fifo', PhaseStep(l), PeerPhase(usb, radio, l), PeerPhase(usb', radio', l))
  <2>1. \A l : PeerPhase(usb', radio', l) = PeerPhase(usb, radio, l)
    BY DEF PeerPhase
  <2> QED BY <1>4, <2>1, PhasesOf DEF Idles
<1>6. \A k \in Keys : Ends(fifo, fifo', ButtonStep(k), DownPhase(down, k), DownPhase(down', k))
  <2>1. \A k : DownPhase(down, k) \in {"up", "down"}
    BY DEF DownPhase
  <2> QED BY <1>4, <2>1 DEF Idles
<1>7. PeerStep
  BY <1>1, <1>2, <1>3, <1>5, <1>6 DEF PeerStep, Typed
<1>8. ASSUME NEW r \in Reports
      PROVE  (Early(fifo, r) => Early(fifo', r)) /\ (Announced(fifo', r) => Announced(fifo, r))
  <2>1. \A y \in Traffic : ~Announces(y, r)
    BY AnnouncementKind DEF Traffic
  <2> QED BY <1>1, <2>1, AnswersAreTraffic, EarlyAdds
<1>9. PeerCalm
  BY <1>8 DEF PeerCalm
<1> QED BY <1>7, <1>9


\* The USB device and the queue before a step.
LEMMA Before ==
    ASSUME IInv
    PROVE  /\ [usb |-> usb, ev |-> fifo] \in Devices
           /\ \A r : Outside([usb |-> usb, ev |-> fifo], r) = Out(fifo, usb, r)
           /\ Carried([usb |-> usb, ev |-> fifo]) = Flow(fifo, usb)
           /\ fifo \in Seq(Events) /\ usb \in Usbs
<1>1. fifo \in Seq(Events) /\ usb \in Usbs
  BY DEF IInv, Typed
<1> QED BY <1>1, DeviceOf DEF Out, Flow

\* And after it.
LEMMA Behind ==
    ASSUME NEW f \in Devices, usb' = f.usb, fifo' = f.ev
    PROVE  /\ \A r : Outside(f, r) = Out(fifo', usb', r)
           /\ Carried(f) = Flow(fifo', usb')
           /\ fifo' \in Seq(Events) /\ usb' \in Usbs
<1>1. f = [usb |-> usb', ev |-> fifo']
  BY DEF Devices
<1> QED BY <1>1 DEF Out, Flow, Devices

LEMMA HostPollPeer ==
    ASSUME IInv, HostPoll
    PROVE  PeerStep /\ PeerCalm
<1> DEFINE e == usb.bufs[1]
           d == [usb |-> usb, ev |-> fifo]
           s == ReportSent(d, FALSE)
           f == BufSend(s, TRUE)
<1>1. /\ usb.bufs # <<>> /\ usb' = f.usb /\ fifo' = f.ev
      /\ host' = [keys |-> e.keys, x |-> host.x + e.dx]
      /\ h' = h /\ radio' = radio /\ down' = down /\ moved' = moved
  BY DEF HostPoll
<1>2. /\ d \in Devices /\ Carried(d) = Flow(fifo, usb) /\ fifo \in Seq(Events)
      /\ \A r : Outside(d, r) = Out(fifo, usb, r)
  BY Before
<1>3. d.usb = usb /\ d.ev = fifo
  OBVIOUS
<1>4. s = ReportSent(d, FALSE) /\ f = BufSend(s, TRUE)
  OBVIOUS
<1> HIDE DEF d, s, f
<1>5. /\ Serves(d, s) /\ Carried(s) = Carried(d) - e.dx /\ e \in UsbReports
  BY <1>1, <1>2, <1>3, <1>4, ReportSentServes
<1>6. s \in Devices
  BY <1>5 DEF Serves
<1>7. Serves(s, f) /\ (f = s \/ Failed(f.ev))
  BY <1>4, <1>6, BufSendServes
<1>8. Serves(d, f)
  BY <1>2, <1>5, <1>7, ServesTwice
<1>9. f \in Devices
  BY <1>8 DEF Serves
<1>10. /\ fifo' \in Seq(Events) /\ usb' \in Usbs /\ Carried(f) = Flow(fifo', usb')
       /\ \A r : Outside(f, r) = Out(fifo', usb', r)
  BY <1>1, <1>9, Behind
<1>11. /\ usb'.mode = usb.mode /\ usb'.report_enabled = usb.report_enabled
       /\ \A r \in Reports : Out(fifo', usb', r) = Out(fifo, usb, r)
  BY <1>1, <1>2, <1>3, <1>8, <1>10 DEF Serves
<1>12. Adds(fifo, fifo', Traffic)
  <2>1. Adds(fifo, fifo', Answers)
    BY <1>1, <1>3, <1>8 DEF Serves
  <2> QED BY <2>1, AnswersAreTraffic, AddsMore
<1>13. host' \in [keys : SUBSET Keys, x : Int] /\ host'.x = host.x + e.dx /\ host.x \in Int /\ e.dx \in Int
  <2>1. e.keys \in SUBSET Keys /\ e.dx \in Int
    BY <1>5 DEF UsbReports, HidReports
  <2>2. host.x \in Int
    BY DEF IInv, Typed
  <2> QED BY <1>1, <2>1, <2>2
<1>14. Disturbed(fifo') \/ host'.x + Flow(fifo', usb') = host.x + Flow(fifo, usb)
  <2>1. CASE Failed(f.ev)
    BY <1>1, <2>1 DEF Failed, Disturbed
  <2>2. CASE f = s
    <3> DEFINE a == Flow(fifo, usb)
               b == Flow(fifo', usb')
               x == host.x
               y == host'.x
               n == e.dx
    <3>1. b = a - n /\ y = x + n
      BY <1>2, <1>5, <1>10, <1>13, <2>2
    <3>2. a \in Int /\ b \in Int
      BY <1>2, <1>10, Before, OutType
    <3>3. x \in Int /\ n \in Int
      BY <1>13
    <3> HIDE DEF a, b, x, y, n
    <3>4. y + b = x + a
      BY <3>1, <3>2, <3>3
    <3> QED BY <3>4 DEF a, b, x, y
  <2> QED BY <1>7, <2>1, <2>2
<1> QED BY <1>1, <1>10, <1>11, <1>12, <1>13, <1>14, TrafficPeer

LEMMA SofPeer ==
    ASSUME IInv, Sof
    PROVE  PeerStep /\ PeerCalm
<1> DEFINE e == Sent(usb.sof, FALSE)
<1>1. /\ usb.sof # NoReport /\ fifo' = Append(fifo, e) /\ usb' = [usb EXCEPT !.sof = NoReport]
      /\ h' = h /\ radio' = radio /\ host' = host /\ down' = down /\ moved' = moved
  BY DEF Sof
<1>2. fifo \in Seq(Events) /\ usb \in Usbs /\ host \in [keys : SUBSET Keys, x : Int]
  BY DEF IInv, Typed
<1>3. usb.sof \in Reports
  BY <1>1, <1>2 DEF Usbs
<1>4. /\ e \in Events /\ e.t = "sent" /\ Dx[e] = 0
      /\ \A r \in Reports : Awaiting(r)[e] = IF r = usb.sof THEN 1 ELSE 0
  BY <1>3, SentEvent
<1>5. /\ usb' \in Usbs /\ usb'.mode = usb.mode /\ usb'.report_enabled = usb.report_enabled
      /\ usb'.bufs = usb.bufs /\ usb'.sof = NoReport
  BY <1>1, <1>2 DEF Usbs
<1> HIDE DEF e
<1>6. Adds(fifo, fifo', Traffic) /\ fifo' \in Seq(Events)
  <2>1. e \in Traffic
    BY <1>4 DEF Traffic
  <2> QED BY <1>1, <1>2, <2>1, AddsNone, AddsAppend, AnswersAreTraffic
<1>7. ASSUME NEW r \in Reports PROVE Out(fifo', usb', r) = Out(fifo, usb, r)
  <2>1. Weigh(fifo', Awaiting(r)) = Weigh(fifo, Awaiting(r)) + Awaiting(r)[e]
    BY <1>1, <1>2, <1>4, AwaitingInt, WeighAppend
  <2>2. Held1(usb, r) = Awaiting(r)[e] /\ Held1(usb', r) = 0
    BY <1>3, <1>4, <1>5 DEF Held1, Reports, NoReport
  <2>3. Awaiting(r)[e] \in Int
    BY <1>4
  <2>4. Weigh(fifo, Awaiting(r)) \in Int /\ Weigh(usb.bufs, Awaiting(r)) \in Int
    <3>1. usb.bufs \in Seq(Events)
      BY <1>2, BufsType DEF Usbs
    <3> QED BY <1>2, <3>1, AwaitingInt, WeighType
  <2>5. /\ Out(fifo', usb', r) = Weigh(fifo', Awaiting(r)) + Weigh(usb.bufs, Awaiting(r)) + Held1(usb', r)
        /\ Out(fifo, usb, r) = Weigh(fifo, Awaiting(r)) + Weigh(usb.bufs, Awaiting(r)) + Held1(usb, r)
    BY <1>5, OutFields
  <2> DEFINE a == Awaiting(r)[e]
             n == Weigh(fifo, Awaiting(r))
             b == Weigh(usb.bufs, Awaiting(r))
  <2>6. n \in Int /\ b \in Int /\ a \in Int
    BY <2>3, <2>4
  <2>7. /\ Out(fifo', usb', r) = (n + a) + b + 0
        /\ Out(fifo, usb, r) = n + b + a
    BY <2>1, <2>2, <2>5
  <2> HIDE DEF a, n, b
  <2> QED BY <2>6, <2>7
<1>8. Flow(fifo', usb') = Flow(fifo, usb)
  <2>1. Weigh(fifo', Dx) = Weigh(fifo, Dx) + 0
    BY <1>1, <1>2, <1>4, DxType, WeighAppend
  <2>2. Weigh(fifo, Dx) \in Int
    BY <1>2, DxType, WeighType
  <2>3. Weigh(fifo', Dx) = Weigh(fifo, Dx)
    BY <2>1, <2>2
  <2> QED BY <1>5, <2>3, OutFields
<1>9. host'.x = host.x /\ host' \in [keys : SUBSET Keys, x : Int]
  BY <1>1, <1>2
<1> QED BY <1>1, <1>5, <1>6, <1>7, <1>8, <1>9, TrafficPeer

-----------------------------------------------------------------------------
(* Sessions.                                                               *)
LEMMA UsbState ==
    ASSUME NEW l \in ReportStates, l[1] = "usb"
    PROVE  l[2] \in Reports /\ l = Usb(l[2])
BY DEF ReportStates, Usb

LEMMA SessionPhase ==
    ASSUME NEW u, NEW o, NEW r \in Reports
    PROVE  /\ u.mode # "off" => PeerPhase(u, o, Usb(r)) = SubPhase(Now(u), r)
           /\ u.mode = "off" => PeerPhase(u, o, Usb(r)) = "off" /\ Now(u) = {} /\ SubPhase(Now(u), r) = "on"
<1>1. Usb(r)[1] = "usb" /\ Usb(r)[2] = r
  BY DEF Usb
<1>2. Protocol(r) # "off"
  BY DEF Protocol
<1>3. \A s : Protocol(s) # "off"
  BY DEF Protocol
<1> QED BY <1>1, <1>2, <1>3 DEF PeerPhase, SubPhase, Now

\* The other peer's sessions.
LEMMA OtherPhase ==
    ASSUME NEW u, NEW v, NEW o, NEW p, NEW l
    PROVE  /\ l[1] # "usb" => PeerPhase(u, o, l) = PeerPhase(v, o, l)
           /\ l[1] = "usb" => PeerPhase(u, o, l) = PeerPhase(u, p, l)
BY DEF PeerPhase

\* A report with no subscription on its way, which its host has not enabled, is
\* not connected.
LEMMA Unconnected ==
    ASSUME IInv, NEW r \in Reports, Unsubscribed(fifo, r), PeerPhase(usb, radio, Usb(r)) # "sub"
    PROVE  ~Connected(h, Usb(r))
<1> SUFFICES ASSUME Connected(h, Usb(r)) PROVE FALSE
  OBVIOUS
<1>1. fifo \in Seq(Events) /\ Usb(r) \in ReportStates /\ Usb(r)[1] = "usb"
  BY UsbType DEF IInv, Typed
<1>2. Leads(fifo, PhaseStep(Usb(r)), "sub", PeerPhase(usb, radio, Usb(r)))
  BY <1>1 DEF IInv, Sessions, HidPhase
<1>3. Len(fifo) \in Nat /\ DOMAIN fifo = 1 .. Len(fifo) /\ \A i \in 1 .. Len(fifo) : fifo[i] \in Events
  BY <1>1, LenProperties, ElementOfSeq
<1>4. \A i \in 1 .. Len(fifo) : \A c \in {"sub"} : \A d : <<c, d>> \in PhaseStep(Usb(r))[fifo[i]] => d \in {"sub"}
  <2> SUFFICES ASSUME NEW i \in 1 .. Len(fifo), NEW d, <<"sub", d>> \in PhaseStep(Usb(r))[fifo[i]]
               PROVE  d = "sub"
    OBVIOUS
  <2>1. ~(fifo[i].t = "subscription" /\ fifo[i].l = Usb(r))
    BY <1>3 DEF Unsubscribed, Subscribes
  <2> QED BY <1>3, <2>1 DEF PhaseStep
<1>5. PeerPhase(usb, radio, Usb(r)) \in {"sub"}
  <2> DEFINE b == PeerPhase(usb, radio, Usb(r))
  <2>1. "sub" \in {"sub"}
    OBVIOUS
  <2>2. Leads(fifo, PhaseStep(Usb(r)), "sub", b)
    BY <1>2
  <2> HIDE DEF b
  <2>3. b \in {"sub"}
    BY <1>3, <1>4, <2>1, <2>2, LeadsStays
  <2> QED BY <2>3 DEF b
<1> QED BY <1>5

\* A report that the host may enable again is idle.
LEMMA CalmIdle ==
    ASSUME IInv, CalmHost, NEW r \in Reports, Calm(r), PeerPhase(usb, radio, Usb(r)) # "sub"
    PROVE  Out(fifo, usb, r) = 0 /\ Unsubscribed(fifo, r) /\ ~Connected(h, Usb(r))
<1>1. fifo \in Seq(Events) /\ usb \in Usbs
  BY DEF IInv, Typed
<1>2. Outstanding(r) = 0 /\ \A i \in DOMAIN fifo, to \in {"on", "off"} : fifo[i] # Subscription(Usb(r), to)
  BY DEF Calm
<1>3. Out(fifo, usb, r) = 0
  BY <1>1, <1>2, Totals
<1>4. Unsubscribed(fifo, r)
  <2> SUFFICES ASSUME NEW i \in DOMAIN fifo, Subscribes(fifo[i], r) PROVE FALSE
    BY DEF Unsubscribed
  <2>1. fifo[i] \in Events
    BY <1>1, LenProperties, ElementOfSeq
  <2>2. fifo[i].t = "subscription" /\ fifo[i].l = Usb(r)
    BY DEF Subscribes
  <2>3. fifo[i] \in [t : {"subscription"}, l : ReportStates, to : {"on", "off"}]
    BY <2>1, <2>2 DEF Events, HidReports
  <2>4. fifo[i] = Subscription(Usb(r), fifo[i].to) /\ fifo[i].to \in {"on", "off"}
    BY <2>2, <2>3 DEF Subscription
  <2> QED BY <1>2, <2>4
<1> QED BY <1>3, <1>4, Unconnected


\* Reports and motion that wait, whatever the mode of the device.
LEMMA OutModes ==
    ASSUME NEW q, NEW u, NEW v, v.bufs = u.bufs, v.sof = u.sof
    PROVE  (\A r : Out(q, v, r) = Out(q, u, r)) /\ Flow(q, v) = Flow(q, u)
BY OutFields DEF Held1

LEMMA OutPosts ==
    ASSUME NEW p, NEW q, NEW u, \A r \in Reports : Weigh(q, Awaiting(r)) = Weigh(p, Awaiting(r))
    PROVE  \A r \in Reports : Out(q, u, r) = Out(p, u, r)
<1> SUFFICES ASSUME NEW r \in Reports PROVE Out(q, u, r) = Out(p, u, r)
  OBVIOUS
<1>1. Weigh(q, Awaiting(r)) = Weigh(p, Awaiting(r))
  OBVIOUS
<1>2. /\ Out(q, u, r) = Weigh(q, Awaiting(r)) + Weigh(u.bufs, Awaiting(r)) + Held1(u, r)
      /\ Out(p, u, r) = Weigh(p, Awaiting(r)) + Weigh(u.bufs, Awaiting(r)) + Held1(u, r)
  BY OutFields
<1> QED BY <1>1, <1>2

LEMMA ConfigurePeer ==
    ASSUME IInv, Configure
    PROVE  PeerStep /\ (CalmHost => PeerCalm)
<1> DEFINE v == [usb EXCEPT !.mode = "REPORT"]
           e == Subscriber("usb", "on")
           q == Append(fifo, e)
           d == [usb |-> v, ev |-> q]
           f == BroadcastSubscription(d)
<1>1. /\ usb.mode = "off" /\ (\A r \in Reports : Calm(r))
      /\ usb' = f.usb /\ fifo' = f.ev /\ host' = [host EXCEPT !.keys = {}]
      /\ h' = h /\ radio' = radio /\ down' = down /\ moved' = moved
  <2>1. f = Enable([usb |-> usb, ev |-> fifo])
    BY DEF Enable
  <2>2. /\ usb.mode = "off" /\ (\A r \in Reports : Calm(r))
        /\ LET z == Enable([usb |-> usb, ev |-> fifo]) IN usb' = z.usb /\ fifo' = z.ev
        /\ host' = [host EXCEPT !.keys = {}]
        /\ h' = h /\ radio' = radio /\ down' = down /\ moved' = moved
    BY DEF Configure, HostChange
  <2> HIDE DEF f
  <2> QED BY <2>1, <2>2
<1>2. fifo \in Seq(Events) /\ usb \in Usbs /\ host \in [keys : SUBSET Keys, x : Int] /\ Typed
  BY DEF IInv, Typed
<1>3. /\ v \in Usbs /\ v.mode = "REPORT" /\ v.report_enabled = usb.report_enabled
      /\ v.bufs = usb.bufs /\ v.sof = usb.sof
  BY <1>2 DEF Usbs
<1>4. usb.report_enabled = {}
  <2>1. usb.report_enabled = Now(usb)
    BY <1>2 DEF Typed
  <2> QED BY <1>1, <2>1, SessionPhase DEF Reports
<1>5. e = Subscriber("usb", "on") /\ q = Append(fifo, e) /\ "usb" \in Subs /\ "on" \in {"on", "off"}
  BY DEF Subs
<1> HIDE DEF e, q, v
<1>6. /\ e \in Events /\ e.t = "subscriber"
      /\ \A r \in Reports : Announces(e, r) /\ ~Subscribes(e, r)
      /\ \A m \in ReportStates : m[1] = "usb" => Ends(fifo, q, PhaseStep(m), "off", "on")
      /\ \A m \in ReportStates : m[1] # "usb" => \A b \in Phases : Ends(fifo, q, PhaseStep(m), b, b)
      /\ \A k \in Keys : \A b \in {"up", "down"} : Ends(fifo, q, ButtonStep(k), b, b)
  <2>1. "usb" \in Subs
    BY DEF Subs
  <2>2. SubscriberPosted(fifo, "usb", "on", e, q)
    BY <1>2, <1>5, <2>1, PostSubscriber
  <2> QED BY <2>2 DEF SubscriberPosted
<1>7. /\ q \in Seq(Events) /\ Adds(fifo, q, Events) /\ Disturbed(q)
      /\ \A r \in Reports :
            /\ Early(fifo, r) /\ Unsubscribed(fifo, r) => Early(q, r)
            /\ Unsubscribed(fifo, r) => Unsubscribed(q, r)
      /\ \A r \in Reports : Weigh(q, Awaiting(r)) = Weigh(fifo, Awaiting(r))
  BY <1>2, <1>5, <1>6, PostFields
<1>8. d \in Devices /\ d.usb = v /\ d.ev = q
  BY <1>3, <1>7, DeviceOf
<1>9. f = BroadcastSubscription(d)
  OBVIOUS
<1>10. \A r \in Reports : Outside(d, r) = Out(q, v, r)
  BY DEF Out
<1> HIDE DEF d, f
<1>11. /\ f \in Devices /\ f.usb = [v EXCEPT !.report_enabled = Now(v)]
       /\ Adds(q, f.ev, Events)
       /\ \A r \in Reports : Outside(f, r) = Outside(d, r)
       /\ \A r \in Reports :
             /\ Early(q, r) /\ Unsubscribed(q, r) => Early(f.ev, r)
             /\ Ends(q, f.ev, PhaseStep(Usb(r)), SubPhase(usb.report_enabled, r), SubPhase(Now(v), r))
       /\ \A l \in ReportStates : l[1] # "usb" => \A b \in Phases : Ends(q, f.ev, PhaseStep(l), b, b)
       /\ \A k \in Keys : \A b \in {"up", "down"} : Ends(q, f.ev, ButtonStep(k), b, b)
  BY <1>3, <1>8, <1>9, BroadcastTurns
<1>12. /\ fifo' \in Seq(Events) /\ usb' \in Usbs
       /\ \A r : Outside(f, r) = Out(fifo', usb', r)
  BY <1>1, <1>11, Behind
<1>13. usb'.mode = "REPORT" /\ usb'.report_enabled = Now(v) /\ Now(v) = Now(usb')
  <2>1. usb' = [v EXCEPT !.report_enabled = Now(v)]
    BY <1>1, <1>11
  <2>2. usb'.mode = "REPORT" /\ usb'.report_enabled = Now(v)
    BY <1>3, <2>1 DEF Usbs
  <2> QED BY <1>3, <2>2 DEF Now
<1>14. Adds(fifo, fifo', Events) /\ Disturbed(fifo')
  <2>1. Events \subseteq Events
    OBVIOUS
  <2> QED BY <1>1, <1>2, <1>7, <1>11, <2>1, AddsTwice, DisturbedStays
<1>15. ASSUME NEW l \in ReportStates
       PROVE  Ends(fifo, fifo', PhaseStep(l), PeerPhase(usb, radio, l), PeerPhase(usb', radio', l))
  <2>1. CASE l[1] = "usb"
    <3>1. PICK r \in Reports : l = Usb(r)
      BY <2>1, UsbState
    <3>2. PeerPhase(usb, radio, l) = "off" /\ PeerPhase(usb', radio', l) = SubPhase(Now(v), r)
      BY <1>1, <1>13, <3>1, SessionPhase
    <3>3. SubPhase(usb.report_enabled, r) = "on"
      BY <1>4 DEF SubPhase
    <3>4. Ends(fifo, q, PhaseStep(l), "off", "on") /\ Ends(q, f.ev, PhaseStep(l), "on", SubPhase(Now(v), r))
      BY <1>6, <1>11, <2>1, <3>1, <3>3
    <3> QED BY <1>1, <3>2, <3>4, EndsTwice
  <2>2. CASE l[1] # "usb"
    <3>1. PeerPhase(usb', radio', l) = PeerPhase(usb, radio, l) /\ PeerPhase(usb, radio, l) \in Phases
      BY <1>1, <2>2, OtherPhase, PhasesOf
    <3> DEFINE b == PeerPhase(usb, radio, l)
    <3>2. Ends(fifo, q, PhaseStep(l), b, b) /\ Ends(q, f.ev, PhaseStep(l), b, b)
      BY <1>6, <1>11, <2>2, <3>1
    <3>3. Ends(fifo, f.ev, PhaseStep(l), b, b)
      BY <3>2, EndsTwice
    <3> QED BY <1>1, <3>1, <3>3
  <2> QED BY <2>1, <2>2
<1>16. ASSUME NEW k \in Keys
       PROVE  Ends(fifo, fifo', ButtonStep(k), DownPhase(down, k), DownPhase(down', k))
  <2> DEFINE b == DownPhase(down, k)
  <2>1. b \in {"up", "down"}
    BY DEF DownPhase
  <2>2. Ends(fifo, q, ButtonStep(k), b, b) /\ Ends(q, f.ev, ButtonStep(k), b, b)
    BY <1>6, <1>11, <2>1
  <2>3. Ends(fifo, f.ev, ButtonStep(k), b, b)
    BY <2>2, EndsTwice
  <2> QED BY <1>1, <2>3
<1>17. host' \in [keys : SUBSET Keys, x : Int]
  BY <1>1, <1>2
<1>18. PeerStep
  BY <1>1, <1>2, <1>12, <1>13, <1>14, <1>15, <1>16, <1>17 DEF PeerStep, Typed
<1>19. ASSUME CalmHost PROVE PeerCalm
  <2> SUFFICES ASSUME NEW r \in Reports
               PROVE  /\ Out(fifo', usb', r) = Out(fifo, usb, r)
                      /\ Early(fifo, r) => Early(fifo', r)
                      /\ Out(fifo, usb, r) = 0 /\ ~Connected(h, Usb(r))
    BY DEF PeerCalm
  <2>1. PeerPhase(usb, radio, Usb(r)) = "off"
    BY <1>1, SessionPhase
  <2>2. Out(fifo, usb, r) = 0 /\ Unsubscribed(fifo, r) /\ ~Connected(h, Usb(r))
    BY <1>1, <1>19, <2>1, CalmIdle
  <2>3. Early(fifo, r) => Early(fifo', r)
    BY <1>1, <1>7, <1>11, <2>2
  <2>4. Out(q, v, r) = Out(fifo, v, r) /\ Out(fifo, v, r) = Out(fifo, usb, r)
    BY <1>3, <1>7, OutPosts, OutModes
  <2>5. Out(fifo', usb', r) = Out(fifo, usb, r)
    BY <1>10, <1>11, <1>12, <2>4
  <2> QED BY <2>2, <2>3, <2>5
<1> QED BY <1>18, <1>19

LEMMA SetProtocolPeer ==
    ASSUME IInv, SetProtocol
    PROVE  PeerStep /\ (CalmHost => PeerCalm)
<1>1. PICK s \in Reports :
          /\ usb.mode # Protocol(s) /\ Calm(s)
          /\ LET d == BroadcastSubscription([usb |-> [usb EXCEPT !.mode = Protocol(s)], ev |-> fifo])
             IN  usb' = d.usb /\ fifo' = d.ev
  BY DEF SetProtocol
<1> DEFINE v == [usb EXCEPT !.mode = Protocol(s)]
           d == [usb |-> v, ev |-> fifo]
           f == BroadcastSubscription(d)
<1>2. /\ usb.mode # "off" /\ usb.mode # Protocol(s) /\ Calm(s)
      /\ usb' = f.usb /\ fifo' = f.ev
      /\ h' = h /\ radio' = radio /\ down' = down /\ moved' = moved /\ host' = host
  <2>1. /\ usb.mode # "off" /\ h' = h /\ radio' = radio /\ down' = down /\ moved' = moved /\ host' = host
    BY DEF SetProtocol, HostChange
  <2> QED BY <1>1, <2>1
<1>3. fifo \in Seq(Events) /\ usb \in Usbs /\ host \in [keys : SUBSET Keys, x : Int] /\ Typed
      /\ usb.report_enabled = Now(usb)
  BY DEF IInv, Typed
<1>4. Protocol(s) \in {"BOOT", "REPORT"} /\ Protocol(s) # "off"
  BY DEF Protocol
<1>5. /\ v \in Usbs /\ v.mode = Protocol(s) /\ v.report_enabled = usb.report_enabled
      /\ v.bufs = usb.bufs /\ v.sof = usb.sof
  BY <1>3, <1>4 DEF Usbs
<1> HIDE DEF v
<1>6. d \in Devices /\ d.usb = v /\ d.ev = fifo
  BY <1>3, <1>5, DeviceOf
<1>7. f = BroadcastSubscription(d)
  OBVIOUS
<1>8. \A r \in Reports : Outside(d, r) = Out(fifo, v, r)
  BY DEF Out
<1> HIDE DEF d, f
<1>9. s \in Now(v) /\ s \notin Now(usb)
  BY <1>2, <1>5 DEF Now
<1>10. /\ f \in Devices /\ f.usb = [v EXCEPT !.report_enabled = Now(v)]
       /\ Adds(fifo, f.ev, Events) /\ Disturbed(f.ev)
       /\ \A r \in Reports : Outside(f, r) = Outside(d, r)
       /\ \A r \in Reports :
             /\ Early(fifo, r) /\ (Enabled(v, r) => Unsubscribed(fifo, r)) => Early(f.ev, r)
             /\ Announced(f.ev, r) => Announced(fifo, r) \/ Enabled(v, r)
             /\ Ends(fifo, f.ev, PhaseStep(Usb(r)), SubPhase(Now(usb), r), SubPhase(Now(v), r))
       /\ \A l \in ReportStates : l[1] # "usb" => \A b \in Phases : Ends(fifo, f.ev, PhaseStep(l), b, b)
       /\ \A k \in Keys : \A b \in {"up", "down"} : Ends(fifo, f.ev, ButtonStep(k), b, b)
  BY <1>3, <1>5, <1>6, <1>7, <1>9, BroadcastTurns
<1>11. /\ fifo' \in Seq(Events) /\ usb' \in Usbs
       /\ \A r : Outside(f, r) = Out(fifo', usb', r)
  BY <1>2, <1>10, Behind
<1>12. usb'.mode = Protocol(s) /\ usb'.report_enabled = Now(v) /\ Now(v) = Now(usb')
  <2>1. usb' = [v EXCEPT !.report_enabled = Now(v)]
    BY <1>2, <1>10
  <2>2. usb'.mode = Protocol(s) /\ usb'.report_enabled = Now(v)
    BY <1>5, <2>1 DEF Usbs
  <2> QED BY <1>5, <2>2 DEF Now
<1>13. ASSUME NEW l \in ReportStates
       PROVE  Ends(fifo, fifo', PhaseStep(l), PeerPhase(usb, radio, l), PeerPhase(usb', radio', l))
  <2>1. CASE l[1] = "usb"
    <3>1. PICK r \in Reports : l = Usb(r)
      BY <2>1, UsbState
    <3>2. PeerPhase(usb, radio, l) = SubPhase(Now(usb), r) /\ PeerPhase(usb', radio', l) = SubPhase(Now(v), r)
      BY <1>2, <1>4, <1>12, <3>1, SessionPhase
    <3> QED BY <1>2, <1>10, <3>1, <3>2
  <2>2. CASE l[1] # "usb"
    <3>1. PeerPhase(usb', radio', l) = PeerPhase(usb, radio, l) /\ PeerPhase(usb, radio, l) \in Phases
      BY <1>2, <2>2, OtherPhase, PhasesOf
    <3> QED BY <1>2, <1>10, <2>2, <3>1
  <2> QED BY <2>1, <2>2
<1>14. ASSUME NEW k \in Keys
       PROVE  Ends(fifo, fifo', ButtonStep(k), DownPhase(down, k), DownPhase(down', k))
  <2>1. DownPhase(down, k) \in {"up", "down"} /\ DownPhase(down', k) = DownPhase(down, k)
    BY <1>2 DEF DownPhase
  <2> QED BY <1>2, <1>10, <2>1
<1>15. PeerStep
  BY <1>2, <1>3, <1>10, <1>11, <1>12, <1>13, <1>14 DEF PeerStep, Typed
<1>16. ASSUME CalmHost PROVE PeerCalm
  <2>1. ASSUME NEW r \in Reports, Enabled(v, r)
        PROVE  Out(fifo, usb, r) = 0 /\ Unsubscribed(fifo, r) /\ ~Connected(h, Usb(r))
    <3>1. r = s
      BY <1>5, <2>1 DEF Enabled, Now, Protocol, Reports
    <3>2. PeerPhase(usb, radio, Usb(s)) # "sub"
      <4>1. PeerPhase(usb, radio, Usb(s)) = SubPhase(Now(usb), s)
        BY <1>2, SessionPhase
      <4> QED BY <1>9, <4>1 DEF SubPhase
    <3> QED BY <1>2, <1>16, <3>1, <3>2, CalmIdle
  <2>2. ASSUME NEW r \in Reports
        PROVE  Out(fifo', usb', r) = Out(fifo, usb, r)
    <3>1. Out(fifo, v, r) = Out(fifo, usb, r)
      BY <1>5, OutModes
    <3> QED BY <1>8, <1>10, <1>11, <3>1
  <2>3. ASSUME NEW r \in Reports
        PROVE  /\ Early(fifo, r) => Early(fifo', r)
               /\ Announced(fifo', r) => Announced(fifo, r) \/ (Out(fifo, usb, r) = 0 /\ ~Connected(h, Usb(r)))
    BY <1>2, <1>10, <2>1
  <2> QED BY <2>2, <2>3 DEF PeerCalm
<1> QED BY <1>15, <1>16


LEMMA ResetPeer ==
    ASSUME IInv, Reset
    PROVE  PeerStep /\ PeerCalm
<1> DEFINE u == [usb EXCEPT !.mode = "off", !.sof = NoReport]
           p == fifo \o AnswerOf(usb.sof, FALSE)
           d == [usb |-> u, ev |-> p]
           s == ReportSent(d, TRUE)
           i == IF u.bufs = <<>> THEN d ELSE BufSend(s, TRUE)
           f == BroadcastSubscription(i)
           e == Subscriber("usb", "off")
<1>1. /\ usb.mode # "off"
      /\ usb' = f.usb /\ fifo' = Append(f.ev, e) /\ host' = [host EXCEPT !.keys = {}]
      /\ h' = h /\ radio' = radio /\ down' = down /\ moved' = moved
  <2>1. p = IF usb.sof = NoReport THEN fifo ELSE Append(fifo, Sent(usb.sof, FALSE))
    <3>1. fifo \in Seq(Events) /\ usb.sof \in Reports \union {NoReport}
      BY DEF IInv, Typed, Usbs
    <3>2. CASE usb.sof = NoReport
      BY <3>1, <3>2, ConcatEmptySeq DEF AnswerOf
    <3>3. CASE usb.sof # NoReport
      <4>1. Sent(usb.sof, FALSE) \in Events
        BY <3>1, <3>3, SentEvent
      <4> QED BY <3>1, <3>3, <4>1, AppendIsConcat DEF AnswerOf
    <3> QED BY <3>2, <3>3
  <2>2. /\ usb.mode # "off"
        /\ LET z == Disable([usb |-> usb, ev |-> fifo]) IN usb' = z.usb /\ fifo' = z.ev
        /\ host' = [host EXCEPT !.keys = {}]
        /\ h' = h /\ radio' = radio /\ down' = down /\ moved' = moved
    BY DEF Reset, HostChange
  <2>3. d = [usb |-> u, ev |-> IF usb.sof = NoReport THEN fifo ELSE Append(fifo, Sent(usb.sof, FALSE))]
    BY <2>1
  <2>4. i = IF d.usb.bufs = <<>> THEN d ELSE BufSend(ReportSent(d, TRUE), TRUE)
    OBVIOUS
  <2> HIDE DEF p, d, i
  <2>5. Disable([usb |-> usb, ev |-> fifo]) = [usb |-> f.usb, ev |-> Append(f.ev, e)]
    BY <2>3, <2>4 DEF Disable
  <2> QED BY <2>2, <2>5
<1>2. fifo \in Seq(Events) /\ usb \in Usbs /\ host \in [keys : SUBSET Keys, x : Int] /\ Typed
      /\ usb.report_enabled = Now(usb)
  BY DEF IInv, Typed
<1>3. /\ u \in Usbs /\ u.mode = "off" /\ u.report_enabled = usb.report_enabled
      /\ u.bufs = usb.bufs /\ u.sof = NoReport
  BY <1>2 DEF Usbs
<1> HIDE DEF u
<1>4. usb.sof \in Reports \union {NoReport}
  BY <1>2 DEF Usbs
<1>5. /\ AnswerOf(usb.sof, FALSE) \in Seq(Answers) /\ AnswerOf(usb.sof, FALSE) \in Seq(Events)
      /\ \A r \in Reports : Weigh(AnswerOf(usb.sof, FALSE), Awaiting(r)) = IF usb.sof = r THEN 1 ELSE 0
  BY <1>4, AnswerOne
<1>6. p \in Seq(Events) /\ Adds(fifo, p, Answers)
  BY <1>2, <1>5, AddsNone, AddsConcat, AnswersAreTraffic
<1>7. d \in Devices /\ d.usb = u /\ d.ev = p
  BY <1>3, <1>6, DeviceOf
<1>8. ASSUME NEW r \in Reports PROVE Outside(d, r) = Out(fifo, usb, r)
  <2> DEFINE n == Weigh(fifo, Awaiting(r))
             b == Weigh(usb.bufs, Awaiting(r))
             a == IF usb.sof = r THEN 1 ELSE 0
  <2>1. Weigh(p, Awaiting(r)) = n + a
    <3>1. Awaiting(r) \in [Events -> Int]
      BY AwaitingInt
    <3>2. Weigh(p, Awaiting(r)) = n + Weigh(AnswerOf(usb.sof, FALSE), Awaiting(r))
      BY <1>2, <1>5, <3>1, WeighConcat
    <3> QED BY <1>5, <3>2
  <2>2. n \in Int /\ b \in Int
    <3>1. usb.bufs \in Seq(Events)
      BY <1>2, BufsType DEF Usbs
    <3> QED BY <1>2, <3>1, AwaitingInt, WeighType
  <2>3. Outside(d, r) = Weigh(p, Awaiting(r)) + b + Held1(u, r)
    BY <1>3, <1>7 DEF Outside
  <2>4. Out(fifo, usb, r) = n + b + Held1(usb, r)
    BY OutFields
  <2>5. Held1(u, r) = 0 /\ Held1(usb, r) = a /\ a \in Int
    BY <1>3 DEF Held1, Reports, NoReport
  <2>6. Outside(d, r) = (n + a) + b + 0 /\ Out(fifo, usb, r) = n + b + a
    BY <2>1, <2>3, <2>4, <2>5
  <2>7. a \in Int
    OBVIOUS
  <2> HIDE DEF n, b, a, d, p
  <2> QED BY <2>2, <2>6, <2>7
<1>9. s = ReportSent(d, TRUE) /\ i = (IF u.bufs = <<>> THEN d ELSE BufSend(s, TRUE)) /\ f = BroadcastSubscription(i)
  OBVIOUS
<1> HIDE DEF p, d, s, i, f
<1>10. Serves(d, i)
  <2>1. CASE u.bufs = <<>>
    BY <1>7, <1>9, <2>1, ServesSelf
  <2>2. CASE u.bufs # <<>>
    <3>1. Serves(d, s)
      BY <1>7, <1>9, <2>2, ReportSentServes
    <3>2. s \in Devices
      BY <3>1 DEF Serves
    <3>3. Serves(s, i)
      BY <1>9, <2>2, <3>2, BufSendServes
    <3> QED BY <1>7, <3>1, <3>3, ServesTwice
  <2> QED BY <2>1, <2>2
<1>11. /\ i \in Devices /\ i.usb.mode = "off" /\ i.usb.report_enabled = Now(usb) /\ Adds(p, i.ev, Answers)
       /\ i.usb \in Usbs /\ i.ev \in Seq(Events)
       /\ \A r \in Reports : Outside(i, r) = Out(fifo, usb, r)
  BY <1>2, <1>3, <1>7, <1>8, <1>10 DEF Serves, Devices
<1>12. Now(i.usb) = {} /\ \A r \in Reports : SubPhase(Now(i.usb), r) = "on" /\ ~Enabled(i.usb, r)
  <2>1. Now(i.usb) = {}
    BY <1>11 DEF Now, Protocol
  <2> QED BY <2>1 DEF SubPhase, Enabled
<1>13. /\ f \in Devices /\ f.usb = [i.usb EXCEPT !.report_enabled = Now(i.usb)]
       /\ Adds(i.ev, f.ev, Events)
       /\ \A r \in Reports : Outside(f, r) = Outside(i, r)
       /\ \A r \in Reports :
             /\ Early(i.ev, r) /\ (Enabled(i.usb, r) => Unsubscribed(i.ev, r)) => Early(f.ev, r)
             /\ Announced(f.ev, r) => Announced(i.ev, r) \/ Enabled(i.usb, r)
             /\ Ends(i.ev, f.ev, PhaseStep(Usb(r)), SubPhase(Now(usb), r), SubPhase(Now(i.usb), r))
       /\ \A l \in ReportStates : l[1] # "usb" => \A b \in Phases : Ends(i.ev, f.ev, PhaseStep(l), b, b)
       /\ \A k \in Keys : \A b \in {"up", "down"} : Ends(i.ev, f.ev, ButtonStep(k), b, b)
  <2>1. i \in Devices /\ f = BroadcastSubscription(i) /\ i.usb.report_enabled = Now(usb)
    BY <1>9, <1>11
  <2>2. /\ f \in Devices /\ f.usb = [i.usb EXCEPT !.report_enabled = Now(i.usb)]
        /\ Adds(i.ev, f.ev, Events)
        /\ \A r \in Reports : Outside(f, r) = Outside(i, r)
        /\ \A r \in Reports :
              /\ Early(i.ev, r) /\ (Enabled(i.usb, r) => Unsubscribed(i.ev, r)) => Early(f.ev, r)
              /\ Announced(f.ev, r) => Announced(i.ev, r) \/ Enabled(i.usb, r)
              /\ Ends(i.ev, f.ev, PhaseStep(Usb(r)), SubPhase(i.usb.report_enabled, r), SubPhase(Now(i.usb), r))
        /\ \A l \in ReportStates : l[1] # "usb" => \A b \in Phases : Ends(i.ev, f.ev, PhaseStep(l), b, b)
        /\ \A k \in Keys : \A b \in {"up", "down"} : Ends(i.ev, f.ev, ButtonStep(k), b, b)
    BY <2>1, BroadcastTurns
  <2> QED BY <2>1, <2>2
<1>14. f.ev \in Seq(Events) /\ f.usb \in Usbs
  BY <1>13 DEF Devices
<1>15. SubscriberPosted(f.ev, "usb", "off", e, fifo')
  <2>1. "usb" \in Subs
    BY DEF Subs
  <2> QED BY <1>1, <1>14, <2>1, PostSubscriber
<1>16. /\ e \in Events /\ e.t = "subscriber"
       /\ \A r \in Reports : ~Announces(e, r) /\ ~Subscribes(e, r)
       /\ \A m \in ReportStates : m[1] = "usb" => Ends(f.ev, fifo', PhaseStep(m), "on", "off")
       /\ \A m \in ReportStates : m[1] # "usb" => \A b \in Phases : Ends(f.ev, fifo', PhaseStep(m), b, b)
       /\ \A k \in Keys : \A b \in {"up", "down"} : Ends(f.ev, fifo', ButtonStep(k), b, b)
  BY <1>15 DEF SubscriberPosted
<1> HIDE DEF e
<1>17. /\ fifo' \in Seq(Events) /\ Adds(f.ev, fifo', Events) /\ Disturbed(fifo')
       /\ \A r \in Reports :
             /\ Early(f.ev, r) => Early(fifo', r)
             /\ Announced(fifo', r) => Announced(f.ev, r)
       /\ \A r \in Reports : Weigh(fifo', Awaiting(r)) = Weigh(f.ev, Awaiting(r))
  <2>1. fifo' = Append(f.ev, e) /\ e \in Events /\ f.ev \in Seq(Events)
    BY <1>1, <1>14, <1>16
  <2>2. e.t \in {"subscriber", "subscription", "failed"} /\ e.t \notin {"report", "sent", "failed"}
    BY <1>16
  <2>3. \A r \in Reports : ~Announces(e, r)
    BY <1>16
  <2>4. /\ fifo' \in Seq(Events) /\ Adds(f.ev, fifo', Events)
        /\ e.t \in {"subscriber", "subscription", "failed"} => Disturbed(fifo')
        /\ \A r \in Reports :
              /\ Early(f.ev, r) /\ (Announces(e, r) => Unsubscribed(f.ev, r)) => Early(fifo', r)
              /\ Announced(fifo', r) => Announced(f.ev, r) \/ Announces(e, r)
        /\ e.t \notin {"report", "sent", "failed"} =>
               \A r \in Reports : Weigh(fifo', Awaiting(r)) = Weigh(f.ev, Awaiting(r))
    BY <2>1, PostFields
  <2> QED BY <2>2, <2>3, <2>4
<1>18. usb' \in Usbs /\ usb'.mode = "off" /\ usb'.report_enabled = Now(usb')
  <2>1. usb' = [i.usb EXCEPT !.report_enabled = Now(i.usb)]
    BY <1>1, <1>13
  <2>2. usb'.mode = "off" /\ usb'.report_enabled = Now(i.usb)
    BY <1>11, <2>1 DEF Usbs
  <2>3. Now(usb') = {}
    BY <2>2 DEF Now, Protocol
  <2> QED BY <1>1, <1>12, <1>14, <2>2, <2>3
<1>19. Adds(fifo, i.ev, Traffic)
  <2>1. Adds(fifo, i.ev, Answers)
    BY <1>2, <1>6, <1>11, AnswersAreTraffic, AddsTwice
  <2> QED BY <2>1, AnswersAreTraffic, AddsMore
<1>20. Idles(fifo, i.ev)
  BY <1>2, <1>19, TrafficIdles
<1>21. Adds(fifo, fifo', Events)
  <2>1. Events \subseteq Events
    OBVIOUS
  <2>2. Adds(fifo, i.ev, Events)
    BY <1>19, AnswersAreTraffic, AddsMore
  <2>3. Adds(fifo, f.ev, Events)
    BY <1>2, <1>13, <2>1, <2>2, AddsTwice
  <2> QED BY <1>2, <1>17, <2>1, <2>3, AddsTwice
<1>22. ASSUME NEW l \in ReportStates
       PROVE  Ends(fifo, fifo', PhaseStep(l), PeerPhase(usb, radio, l), PeerPhase(usb', radio', l))
  <2> DEFINE b == PeerPhase(usb, radio, l)
  <2>1. b \in Phases
    BY PhasesOf
  <2>2. Ends(fifo, i.ev, PhaseStep(l), b, b)
    BY <1>20, <2>1 DEF Idles
  <2>3. CASE l[1] = "usb"
    <3>1. PICK r \in Reports : l = Usb(r)
      BY <2>3, UsbState
    <3>2. b = SubPhase(Now(usb), r) /\ PeerPhase(usb', radio', l) = "off"
      BY <1>1, <1>18, <3>1, SessionPhase
    <3>3. Ends(i.ev, f.ev, PhaseStep(l), b, "on")
      BY <1>12, <1>13, <3>1, <3>2
    <3>4. Ends(f.ev, fifo', PhaseStep(l), "on", "off")
      BY <1>16, <2>3
    <3> HIDE DEF b
    <3>5. Ends(fifo, f.ev, PhaseStep(l), b, "on")
      BY <2>2, <3>3, EndsTwice
    <3>6. Ends(fifo, fifo', PhaseStep(l), b, "off")
      BY <3>4, <3>5, EndsTwice
    <3> QED BY <3>2, <3>6 DEF b
  <2>4. CASE l[1] # "usb"
    <3>1. PeerPhase(usb', radio', l) = b
      BY <1>1, <2>4, OtherPhase
    <3>2. Ends(i.ev, f.ev, PhaseStep(l), b, b) /\ Ends(f.ev, fifo', PhaseStep(l), b, b)
      BY <1>13, <1>16, <2>1, <2>4
    <3> HIDE DEF b
    <3>3. Ends(fifo, f.ev, PhaseStep(l), b, b)
      BY <2>2, <3>2, EndsTwice
    <3>4. Ends(fifo, fifo', PhaseStep(l), b, b)
      BY <3>2, <3>3, EndsTwice
    <3> QED BY <3>1, <3>4 DEF b
  <2> QED BY <2>3, <2>4
<1>23. ASSUME NEW k \in Keys
       PROVE  Ends(fifo, fifo', ButtonStep(k), DownPhase(down, k), DownPhase(down', k))
  <2> DEFINE b == DownPhase(down, k)
  <2>1. b \in {"up", "down"}
    BY DEF DownPhase
  <2>2. Ends(fifo, i.ev, ButtonStep(k), b, b) /\ Ends(i.ev, f.ev, ButtonStep(k), b, b)
        /\ Ends(f.ev, fifo', ButtonStep(k), b, b)
    BY <1>13, <1>16, <1>20, <2>1 DEF Idles
  <2>3. Ends(fifo, f.ev, ButtonStep(k), b, b)
    BY <2>2, EndsTwice
  <2>4. Ends(fifo, fifo', ButtonStep(k), b, b)
    BY <2>2, <2>3, EndsTwice
  <2> QED BY <1>1, <2>4
<1>24. host' \in [keys : SUBSET Keys, x : Int]
  BY <1>1, <1>2
<1>25. PeerStep
  BY <1>1, <1>2, <1>17, <1>18, <1>21, <1>22, <1>23, <1>24 DEF PeerStep, Typed
<1>26. ASSUME NEW r \in Reports
       PROVE  /\ Out(fifo', usb', r) = Out(fifo, usb, r)
              /\ Early(fifo, r) => Early(fifo', r)
              /\ Announced(fifo', r) => Announced(fifo, r)
  <2>1. Out(fifo', f.usb, r) = Out(f.ev, f.usb, r)
    BY <1>17, OutPosts
  <2>2. Out(f.ev, f.usb, r) = Outside(f, r)
    <3>1. f = [usb |-> f.usb, ev |-> f.ev]
      BY <1>13 DEF Devices
    <3> QED BY <3>1 DEF Out
  <2>3. \A y \in Traffic : ~Announces(y, r)
    BY AnnouncementKind DEF Traffic
  <2>4. /\ Early(fifo, r) => Early(i.ev, r)
        /\ Announced(i.ev, r) => Announced(fifo, r)
    BY <1>2, <1>19, <2>3, AnswersAreTraffic, EarlyAdds
  <2>5. /\ Early(i.ev, r) => Early(f.ev, r)
        /\ Announced(f.ev, r) => Announced(i.ev, r)
    BY <1>12, <1>13
  <2> QED BY <1>1, <1>11, <1>13, <1>17, <2>1, <2>2, <2>4, <2>5
<1> QED BY <1>25, <1>26 DEF PeerCalm


\* The events that the radio's link adds leave the USB device's reports alone.
Unnoticed(p, q) ==
    /\ q \in Seq(Events) /\ Adds(p, q, Events) /\ Disturbed(q)
    /\ \A r \in Reports : /\ Early(p, r) => Early(q, r)
                          /\ Announced(q, r) => Announced(p, r)
                          /\ Weigh(q, Awaiting(r)) = Weigh(p, Awaiting(r))
    /\ \A k \in Keys : \A b \in {"up", "down"} : Ends(p, q, ButtonStep(k), b, b)

LEMMA UnnoticedPost ==
    ASSUME NEW p \in Seq(Events), NEW e \in Events, e.t \in {"subscriber", "subscription"},
           \A r \in Reports : ~Announces(e, r), NEW q, q = Append(p, e)
    PROVE  Unnoticed(p, q)
<1>1. /\ q \in Seq(Events) /\ Adds(p, q, Events) /\ Disturbed(q)
      /\ \A r \in Reports : /\ Early(p, r) => Early(q, r)
                            /\ Announced(q, r) => Announced(p, r)
      /\ \A r \in Reports : Weigh(q, Awaiting(r)) = Weigh(p, Awaiting(r))
  BY PostFields
<1>2. ASSUME NEW k \in Keys, NEW b \in {"up", "down"} PROVE Ends(p, q, ButtonStep(k), b, b)
  <2>1. <<b, b>> \in ButtonStep(k)[e]
    BY DEF ButtonStep
  <2> QED BY <2>1, EndsAppend
<1> QED BY <1>1, <1>2 DEF Unnoticed

LEMMA UnnoticedTwice ==
    ASSUME NEW p \in Seq(Events), NEW q, NEW z, Unnoticed(p, q), Unnoticed(q, z)
    PROVE  Unnoticed(p, z)
<1>1. z \in Seq(Events) /\ Disturbed(z)
  BY DEF Unnoticed
<1>2. Adds(p, z, Events)
  <2>1. Events \subseteq Events
    OBVIOUS
  <2> QED BY <2>1, AddsTwice DEF Unnoticed
<1>3. \A r \in Reports : /\ Early(p, r) => Early(z, r)
                         /\ Announced(z, r) => Announced(p, r)
                         /\ Weigh(z, Awaiting(r)) = Weigh(p, Awaiting(r))
  BY DEF Unnoticed
<1>4. ASSUME NEW k \in Keys, NEW b \in {"up", "down"} PROVE Ends(p, z, ButtonStep(k), b, b)
  <2>1. Ends(p, q, ButtonStep(k), b, b) /\ Ends(q, z, ButtonStep(k), b, b)
    BY DEF Unnoticed
  <2> QED BY <2>1, EndsTwice
<1> QED BY <1>1, <1>2, <1>3, <1>4 DEF Unnoticed

LEMMA RadioPeer ==
    ASSUME IInv, RadioChange
    PROVE  PeerStep /\ PeerCalm
<1> DEFINE on == radio'
           m == Subscription(<<"esb", "mouse">>, on)
           e == Subscriber("esb", on)
           a == IF radio = "on" THEN m ELSE e
           c == IF radio = "on" THEN e ELSE m
           q == Append(fifo, a)
           l0 == <<"esb", "mouse">>
<1>1. fifo \in Seq(Events) /\ usb \in Usbs /\ host \in [keys : SUBSET Keys, x : Int] /\ Typed
      /\ radio \in {"on", "off"}
  BY DEF IInv, Typed
<1>2. /\ on = (IF radio = "on" THEN "off" ELSE "on")
      /\ fifo' = fifo \o <<a, c>>
      /\ h' = h /\ down' = down /\ moved' = moved /\ host' = host /\ usb' = usb
  BY DEF RadioChange, HostChange
<1>3. on \in {"on", "off"}
  BY <1>2
<1>4. "esb" \in Subs /\ l0 \in ReportStates /\ l0[1] = "esb" /\ l0[2] = "mouse" /\ \A r \in Reports : l0 # Usb(r)
  BY DEF Subs, Reports, ReportStates, Usb
<1>5. m \in Events /\ e \in Events /\ m.t = "subscription" /\ e.t = "subscriber"
      /\ \A r \in Reports : ~Announces(m, r) /\ ~Announces(e, r)
  <2>1. m \in Events /\ m.t = "subscription" /\ m.l = l0
    BY <1>3, <1>4 DEF Subscription, Events
  <2>2. e \in Events /\ e.t = "subscriber" /\ e.s = "esb"
    BY <1>3, <1>4 DEF Subscriber, Events
  <2>3. \A r \in Reports : ~Announces(m, r) /\ ~Announces(e, r)
    BY <1>4, <2>1, <2>2 DEF Announces, Subscriber, Subscription, Usb
  <2> QED BY <2>1, <2>2, <2>3
<1>6. a \in Events /\ c \in Events /\ a.t \in {"subscriber", "subscription"} /\ c.t \in {"subscriber", "subscription"}
      /\ \A r \in Reports : ~Announces(a, r) /\ ~Announces(c, r)
  BY <1>5
<1>7. m = Subscription(l0, on) /\ e = Subscriber("esb", on)
      /\ (radio = "on" => a = m /\ c = e) /\ (radio # "on" => a = e /\ c = m) /\ q = Append(fifo, a)
  OBVIOUS
<1> HIDE DEF a, c, m, e, q, l0
<1>8. fifo' = Append(q, c)
  <2>1. \A x, y : fifo \o <<x, y>> = Append(Append(fifo, x), y)
    BY <1>1
  <2> QED BY <1>2, <1>7, <2>1
<1>9. Unnoticed(fifo, q)
  BY <1>1, <1>6, <1>7, UnnoticedPost
<1>10. q \in Seq(Events)
  BY <1>9 DEF Unnoticed
<1>11. Unnoticed(q, fifo')
  BY <1>6, <1>8, <1>10, UnnoticedPost
<1>12. Unnoticed(fifo, fifo')
  BY <1>1, <1>9, <1>11, UnnoticedTwice
<1>13. ASSUME NEW l \in ReportStates
       PROVE  Ends(fifo, fifo', PhaseStep(l), PeerPhase(usb, radio, l), PeerPhase(usb', radio', l))
  <2> DEFINE b == PeerPhase(usb, radio, l)
             d == PeerPhase(usb', radio', l)
  <2>1. /\ l[1] = "usb" => d = b
        /\ l[1] # "usb" => b = (IF radio = "off" THEN "off" ELSE IF l[2] = "mouse" THEN "sub" ELSE "on")
        /\ l[1] # "usb" => d = (IF on = "off" THEN "off" ELSE IF l[2] = "mouse" THEN "sub" ELSE "on")
        /\ b \in Phases /\ d \in Phases
    BY <1>2, PhasesOf DEF PeerPhase
  <2>2. l[1] = "usb" \/ l[1] = "esb"
    BY DEF ReportStates, Subs
  <2>3. l = l0 <=> l[1] = "esb" /\ l[2] = "mouse"
    BY <1>4 DEF ReportStates, l0
  <2> HIDE DEF b, d
  <2>4. CASE radio = "on"
    <3>1. on = "off" /\ a = m /\ c = e
      BY <1>2, <1>7, <2>4
    <3>2. SubscriptionPosted(fifo, l0, on, a, q)
      BY <1>1, <1>3, <1>4, <1>7, <3>1, PostSubscription
    <3>3. SubscriberPosted(q, "esb", on, c, fifo')
      BY <1>3, <1>4, <1>7, <1>8, <1>10, <3>1, PostSubscriber
    <3>4. CASE l[1] = "usb"
      <4>1. Ends(fifo, q, PhaseStep(l), b, b)
        BY <2>1, <2>3, <3>2, <3>4 DEF SubscriptionPosted
      <4>2. Ends(q, fifo', PhaseStep(l), b, b)
        BY <2>1, <3>3, <3>4 DEF SubscriberPosted
      <4>3. Ends(fifo, fifo', PhaseStep(l), b, b)
        BY <4>1, <4>2, EndsTwice
      <4> QED BY <2>1, <3>4, <4>3 DEF b, d
    <3>5. CASE l[1] = "esb"
      <4>1. d = "off" /\ b = IF l = l0 THEN "sub" ELSE "on"
        BY <2>1, <2>3, <2>4, <3>1, <3>5
      <4>2. Ends(fifo, q, PhaseStep(l), b, "on")
        <5>1. CASE l = l0
          BY <3>1, <3>2, <4>1, <5>1 DEF SubscriptionPosted
        <5>2. CASE l # l0
          BY <2>1, <3>2, <4>1, <5>2 DEF SubscriptionPosted
        <5> QED BY <5>1, <5>2
      <4>3. Ends(q, fifo', PhaseStep(l), "on", "off")
        BY <3>1, <3>3, <3>5 DEF SubscriberPosted
      <4>4. Ends(fifo, fifo', PhaseStep(l), b, "off")
        BY <4>2, <4>3, EndsTwice
      <4> QED BY <4>1, <4>4 DEF b, d
    <3> QED BY <2>2, <3>4, <3>5
  <2>5. CASE radio # "on"
    <3>1. on = "on" /\ a = e /\ c = m /\ radio = "off"
      BY <1>1, <1>2, <1>7, <2>5
    <3>2. SubscriberPosted(fifo, "esb", on, a, q)
      BY <1>1, <1>3, <1>4, <1>7, <3>1, PostSubscriber
    <3>3. SubscriptionPosted(q, l0, on, c, fifo')
      BY <1>3, <1>4, <1>7, <1>8, <1>10, <3>1, PostSubscription
    <3>4. CASE l[1] = "usb"
      <4>1. Ends(fifo, q, PhaseStep(l), b, b)
        BY <2>1, <3>2, <3>4 DEF SubscriberPosted
      <4>2. Ends(q, fifo', PhaseStep(l), b, b)
        BY <2>1, <2>3, <3>3, <3>4 DEF SubscriptionPosted
      <4>3. Ends(fifo, fifo', PhaseStep(l), b, b)
        BY <4>1, <4>2, EndsTwice
      <4> QED BY <2>1, <3>4, <4>3 DEF b, d
    <3>5. CASE l[1] = "esb"
      <4>1. b = "off" /\ d = IF l = l0 THEN "sub" ELSE "on"
        BY <2>1, <2>3, <3>1, <3>5
      <4>2. Ends(fifo, q, PhaseStep(l), "off", "on")
        BY <3>1, <3>2, <3>5 DEF SubscriberPosted
      <4>3. Ends(q, fifo', PhaseStep(l), "on", d)
        <5>1. CASE l = l0
          BY <3>1, <3>3, <4>1, <5>1 DEF SubscriptionPosted
        <5>2. CASE l # l0
          BY <2>1, <3>3, <4>1, <5>2 DEF SubscriptionPosted
        <5> QED BY <5>1, <5>2
      <4>4. Ends(fifo, fifo', PhaseStep(l), "off", d)
        BY <4>2, <4>3, EndsTwice
      <4> QED BY <4>1, <4>4 DEF b, d
    <3> QED BY <2>2, <3>4, <3>5
  <2> QED BY <2>4, <2>5
<1>14. \A k \in Keys : Ends(fifo, fifo', ButtonStep(k), DownPhase(down, k), DownPhase(down', k))
  <2>1. \A k : DownPhase(down, k) \in {"up", "down"} /\ DownPhase(down', k) = DownPhase(down, k)
    BY <1>2 DEF DownPhase
  <2> QED BY <1>12, <2>1 DEF Unnoticed
<1>15. /\ fifo' \in Seq(Events) /\ Adds(fifo, fifo', Events) /\ Disturbed(fifo')
       /\ \A r \in Reports : /\ Early(fifo, r) => Early(fifo', r)
                             /\ Announced(fifo', r) => Announced(fifo, r)
                             /\ Weigh(fifo', Awaiting(r)) = Weigh(fifo, Awaiting(r))
  BY <1>12 DEF Unnoticed
<1>16. usb'.report_enabled = Now(usb') /\ down' \in SUBSET Keys /\ radio' \in {"on", "off"}
  BY <1>1, <1>2, <1>3 DEF Typed
<1>17. PeerStep
  BY <1>1, <1>2, <1>13, <1>14, <1>15, <1>16 DEF PeerStep
<1>18. \A r \in Reports : Out(fifo', usb', r) = Out(fifo, usb, r)
  BY <1>2, <1>15, OutPosts
<1> QED BY <1>15, <1>17, <1>18 DEF PeerCalm


\* An input at the end of the queue: no session begins or ends.
LEMMA InputPost ==
    ASSUME NEW p \in Seq(Events), NEW e \in Events, e.t \in {"button", "motion"}, NEW q, q = Append(p, e)
    PROVE  /\ q \in Seq(Events) /\ Adds(p, q, Events)
           /\ \A l \in ReportStates : \A b \in Phases : Ends(p, q, PhaseStep(l), b, b)
           /\ Weigh(q, Dx) = Weigh(p, Dx)
           /\ \A r \in Reports : /\ Early(p, r) => Early(q, r)
                                 /\ Announced(q, r) => Announced(p, r)
                                 /\ Weigh(q, Awaiting(r)) = Weigh(p, Awaiting(r))
<1>1. \A r \in Reports : ~Announces(e, r)
  BY AnnouncementKind
<1>2. /\ q \in Seq(Events) /\ Adds(p, q, Events)
      /\ \A r \in Reports : /\ Early(p, r) => Early(q, r)
                            /\ Announced(q, r) => Announced(p, r)
      /\ Weigh(q, Dx) = Weigh(p, Dx) /\ \A r \in Reports : Weigh(q, Awaiting(r)) = Weigh(p, Awaiting(r))
  BY <1>1, PostFields
<1>3. ASSUME NEW l \in ReportStates, NEW b \in Phases PROVE Ends(p, q, PhaseStep(l), b, b)
  <2>1. <<b, b>> \in PhaseStep(l)[e]
    BY DEF PhaseStep, Phases
  <2> QED BY <2>1, EndsAppend
<1> QED BY <1>2, <1>3

LEMMA InputPeer ==
    ASSUME IInv, Input, NEW e \in Events, e.t \in {"button", "motion"}, fifo' = Append(fifo, e),
           down' \in SUBSET Keys,
           \A k \in Keys : <<DownPhase(down, k), DownPhase(down', k)>> \in ButtonStep(k)[e]
    PROVE  PeerStep /\ PeerCalm
<1>1. /\ h' = h /\ usb' = usb /\ radio' = radio /\ host' = host /\ moved' = moved
  BY DEF Input
<1>2. fifo \in Seq(Events) /\ usb \in Usbs /\ host \in [keys : SUBSET Keys, x : Int] /\ Typed
  BY DEF IInv, Typed
<1>3. /\ fifo' \in Seq(Events) /\ Adds(fifo, fifo', Events)
      /\ \A l \in ReportStates : \A b \in Phases : Ends(fifo, fifo', PhaseStep(l), b, b)
      /\ Weigh(fifo', Dx) = Weigh(fifo, Dx)
      /\ \A r \in Reports : /\ Early(fifo, r) => Early(fifo', r)
                            /\ Announced(fifo', r) => Announced(fifo, r)
                            /\ Weigh(fifo', Awaiting(r)) = Weigh(fifo, Awaiting(r))
  BY <1>2, InputPost
<1>4. \A l \in ReportStates :
          Ends(fifo, fifo', PhaseStep(l), PeerPhase(usb, radio, l), PeerPhase(usb', radio', l))
  BY <1>1, <1>3, PhasesOf
<1>5. \A k \in Keys : Ends(fifo, fifo', ButtonStep(k), DownPhase(down, k), DownPhase(down', k))
  BY <1>2, EndsAppend
<1>6. Flow(fifo', usb') = Flow(fifo, usb)
  BY <1>1, <1>3, OutFields
<1>7. host'.x + Flow(fifo', usb') = host.x + Flow(fifo, usb)
  BY <1>1, <1>6
<1>8. PeerStep
  BY <1>1, <1>2, <1>3, <1>4, <1>5, <1>7 DEF PeerStep, Typed
<1>9. \A r \in Reports : Out(fifo', usb', r) = Out(fifo, usb, r)
  BY <1>1, <1>3, OutPosts
<1> QED BY <1>3, <1>8, <1>9 DEF PeerCalm

LEMMA ButtonPeer ==
    ASSUME IInv, NEW key \in Keys, Button(key)
    PROVE  PeerStep /\ PeerCalm
<1> DEFINE val == IF key \in down THEN -1 ELSE 1
           e == [t |-> "button", key |-> key, val |-> val]
<1>1. Input /\ fifo' = Append(fifo, e) /\ down' = (IF key \in down THEN down \ {key} ELSE down \union {key})
      /\ down \in SUBSET Keys
  BY DEF Button, IInv, Typed
<1>2. e \in Events /\ e.t = "button" /\ e.key = key /\ e.val = val
  BY DEF Events, Values
<1>3. ASSUME NEW k \in Keys
      PROVE  <<DownPhase(down, k), DownPhase(down', k)>> \in ButtonStep(k)[e]
  <2>1. CASE k = key
    <3>1. CASE key \in down
      <4>1. DownPhase(down, k) = "down" /\ DownPhase(down', k) = "up" /\ val # 1
        BY <1>1, <2>1, <3>1 DEF DownPhase
      <4> QED BY <1>2, <2>1, <4>1 DEF ButtonStep
    <3>2. CASE key \notin down
      <4>1. DownPhase(down, k) = "up" /\ DownPhase(down', k) = "down" /\ val = 1
        BY <1>1, <2>1, <3>2 DEF DownPhase
      <4> QED BY <1>2, <2>1, <4>1 DEF ButtonStep
    <3> QED BY <3>1, <3>2
  <2>2. CASE k # key
    <3>1. DownPhase(down', k) = DownPhase(down, k) /\ DownPhase(down, k) \in {"up", "down"}
      BY <1>1, <2>2 DEF DownPhase
    <3> QED BY <1>2, <2>2, <3>1 DEF ButtonStep
  <2> QED BY <2>1, <2>2
<1>4. down' \in SUBSET Keys
  BY <1>1
<1> HIDE DEF e
<1> QED BY <1>1, <1>2, <1>3, <1>4, InputPeer

LEMMA MovePeer ==
    ASSUME IInv, NEW dx \in Motions, Move(dx)
    PROVE  PeerStep /\ PeerCalm
<1> DEFINE e == [t |-> "motion", dx |-> dx]
<1>1. Input /\ fifo' = Append(fifo, e) /\ down' = down /\ down \in SUBSET Keys
  BY DEF Move, IInv, Typed
<1>2. e \in Events /\ e.t = "motion"
  BY DEF Events
<1>3. ASSUME NEW k \in Keys
      PROVE  <<DownPhase(down, k), DownPhase(down', k)>> \in ButtonStep(k)[e]
  <2>1. DownPhase(down', k) = DownPhase(down, k) /\ DownPhase(down, k) \in {"up", "down"}
    BY <1>1 DEF DownPhase
  <2> QED BY <1>2, <2>1 DEF ButtonStep
<1> HIDE DEF e
<1> QED BY <1>1, <1>2, <1>3, InputPeer

-----------------------------------------------------------------------------
(* Time passes: nothing but the age of recorded usages changes.            *)
LEMMA ExpireStep ==
    ASSUME IInv, NEW n \in 1 .. Len(h.evq), Expire(n)
    PROVE  IInv' /\ (Credits => Credits')
<1> DEFINE q == [i \in DOMAIN h.evq |-> [key |-> h.evq[i].key, val |-> h.evq[i].val,
                                         age |-> IF i <= n THEN "old" ELSE "fresh"]]
<1>1. /\ Expiry /\ h' = [h EXCEPT !.evq = q]
      /\ fifo' = fifo /\ usb' = usb /\ radio' = radio /\ host' = host /\ down' = down /\ moved' = moved
  BY DEF Expire
<1>2. /\ h \in Shapes /\ h.out = <<>> /\ Routed(h) /\ Small(h) /\ Len(h.evq) <= EventQueueSize
      /\ fifo \in Seq(Events) /\ usb \in Usbs
  BY DEF IInv, Typed
<1>3. q \in Seq(Usages) /\ Len(q) = Len(h.evq)
  <2>1. h.evq \in Seq(Usages)
    BY <1>2 DEF Shapes
  <2>2. Len(h.evq) \in Nat /\ DOMAIN h.evq = 1 .. Len(h.evq) /\ \A i \in 1 .. Len(h.evq) : h.evq[i] \in Usages
    BY <2>1, LenProperties, ElementOfSeq
  <2>3. q \in [1 .. Len(h.evq) -> Usages]
    BY <2>2 DEF Usages
  <2>4. q \in Seq(Usages)
    BY <2>2, <2>3, IsASeq
  <2>5. Len(q) = Len(h.evq)
    <3>1. DOMAIN q = 1 .. Len(h.evq)
      BY <2>2
    <3>2. DOMAIN q = 1 .. Len(q) /\ Len(q) \in Nat
      BY <2>4, LenProperties
    <3> QED BY <2>2, <3>1, <3>2
  <2> QED BY <2>4, <2>5
<1> HIDE DEF q
<1>4. /\ h' \in Shapes /\ h'.evq = q /\ h'.on = h.on /\ h'.report_cnt = h.report_cnt /\ h'.state = h.state
      /\ h'.cnt = h.cnt /\ h'.rd = h.rd /\ h'.link = h.link /\ h'.items = h.items
      /\ h'.axis = h.axis /\ h'.out = h.out
  BY <1>1, <1>2, <1>3 DEF Shapes
<1>5. /\ \A l : Connected(h', l) = Connected(h, l)
      /\ \A l : HidPhase(h', l) = HidPhase(h, l)
  BY <1>4 DEF Connected, HidPhase
<1>6. Routed(h')
  BY <1>2, <1>4, <1>5 DEF Routed, Linked
<1>7. Small(h')
  BY <1>2, <1>4 DEF Small, Pressed
<1>8. Typed'
  BY <1>1, <1>2, <1>3, <1>4, <1>6, <1>7 DEF IInv, Typed
<1>9. Sessions'
  BY <1>1, <1>5 DEF IInv, Sessions
<1>10. Buttons'
  BY <1>1 DEF Buttons
<1>11. MotionConserved'
  <2>1. /\ MotionTotal' = host'.x + Flow(fifo', usb') + h'.axis
        /\ MotionTotal = host.x + Flow(fifo, usb) + h.axis
        /\ Undisturbed' <=> Undisturbed
    <3>1. host.x \in Int /\ host'.x \in Int /\ h.axis \in Int /\ h'.axis \in Int
      BY <1>1, <1>2, <1>4 DEF IInv, Typed, Shapes
    <3>2. Disturbed(fifo') <=> Disturbed(fifo)
      BY <1>1
    <3> QED BY <1>1, <1>2, <3>1, <3>2, Totals, TotalsNext
  <2>2. MotionTotal' = MotionTotal
    BY <1>1, <1>4, <2>1
  <2> QED BY <1>1, <1>4, <2>1, <2>2 DEF IInv, MotionConserved
<1>12. ASSUME Credits PROVE Credits'
  <2>1. /\ Fits(h) /\ Exact(h, fifo, usb) /\ Announcing(h, fifo, usb)
        /\ Out(fifo, usb, "mouse") + Out(fifo, usb, "boot") <= Pipeline
    BY <1>2, <1>12, CreditsAre
  <2>2. Fits(h')
    BY <1>4, <2>1 DEF Fits
  <2>3. Exact(h', fifo', usb') /\ Announcing(h', fifo', usb')
    BY <1>1, <1>4, <1>5, <2>1 DEF Exact, Announcing
  <2>4. Out(fifo', usb', "mouse") + Out(fifo', usb', "boot") <= Pipeline
    BY <1>1, <2>1
  <2> QED BY <1>1, <1>2, <2>2, <2>3, <2>4, CreditsNext
<1> QED BY <1>8, <1>9, <1>10, <1>11, <1>12 DEF IInv

LEMMA StutterStep ==
    ASSUME IInv, UNCHANGED vars
    PROVE  PeerStep /\ PeerCalm
<1>1. /\ h' = h /\ fifo' = fifo /\ usb' = usb /\ radio' = radio /\ host' = host /\ down' = down
      /\ moved' = moved
  BY DEF vars
<1>2. fifo \in Seq(Events) /\ usb \in Usbs /\ host \in [keys : SUBSET Keys, x : Int]
  BY DEF IInv, Typed
<1>3. Adds(fifo, fifo', Traffic)
  BY <1>1, <1>2, AddsNone
<1>4. host'.x + Flow(fifo', usb') = host.x + Flow(fifo, usb)
  BY <1>1
<1>5. \A r \in Reports : Out(fifo', usb', r) = Out(fifo, usb, r)
  BY <1>1
<1> QED BY <1>1, <1>2, <1>3, <1>4, <1>5, TrafficPeer


-----------------------------------------------------------------------------
(* The initial states.                                                     *)
LEMMA InitShape ==
    /\ InitHid \in Shapes /\ InitHid.out = <<>> /\ InitHid.evq = <<>> /\ InitHid.items = NoItems
    /\ InitHid.on = {} /\ InitHid.link = NoLink
    /\ \A l \in ReportStates : ~Connected(InitHid, l) /\ InitHid.cnt[l] = 0 /\ InitHid.rd[l] = "none"
    /\ \A s \in Subs : InitHid.report_cnt[s] = 0
<1> DEFINE o == <<>>
           v == <<>>
           items == NoItems
<1>1. o \in Seq(HidReports) /\ v \in Seq(Usages) /\ items \in [Keys -> Nat]
  BY EmptySeq, NoItemsType
<1>2. InitHid = [on |-> {}, report_cnt |-> [s \in Subs |-> 0],
          state |-> [l \in ReportStates |-> "DISCONNECTED"], cnt |-> [l \in ReportStates |-> 0],
          upd |-> {}, rd |-> [l \in ReportStates |-> "none"],
          link |-> NoLink, items |-> items, evq |-> v, axis |-> 0, out |-> o]
  BY DEF InitHid
<1> HIDE DEF o, v, items
<1>3. InitHid \in Shapes
  BY <1>1, <1>2 DEF Shapes
<1>4. InitHid.out = o /\ InitHid.evq = v /\ InitHid.items = items /\ InitHid.on = {} /\ InitHid.link = NoLink
  BY <1>2
<1>5. \A l \in ReportStates : ~Connected(InitHid, l) /\ InitHid.cnt[l] = 0 /\ InitHid.rd[l] = "none"
  BY <1>2 DEF Connected
<1>6. \A s \in Subs : InitHid.report_cnt[s] = 0
  BY <1>2
<1> QED BY <1>3, <1>4, <1>5, <1>6 DEF o, v, items

LEMMA InitDevice ==
    ASSUME Init
    PROVE  /\ h = InitHid /\ fifo = <<>> /\ usb \in Usbs /\ usb.mode = "off" /\ usb.report_enabled = Now(usb)
           /\ usb.sof = NoReport /\ usb.bufs = <<>> /\ radio = "off" /\ down = {} /\ moved = 0
           /\ host \in [keys : SUBSET Keys, x : Int]
<1> DEFINE o == <<>>
<1>1. o \in Seq(UsbReports)
  BY EmptySeq
<1>2. usb = [mode |-> "off", report_enabled |-> {}, bufs |-> o, sof |-> NoReport]
  BY DEF Init
<1> HIDE DEF o
<1>3. usb \in Usbs /\ usb.mode = "off" /\ usb.report_enabled = {} /\ usb.sof = NoReport /\ usb.bufs = o
  BY <1>1, <1>2 DEF Usbs
<1>4. Now(usb) = {}
  BY <1>3 DEF Now, Protocol
<1>5. host \in [keys : SUBSET Keys, x : Int]
  BY DEF Init
<1>6. h = InitHid /\ fifo = <<>> /\ radio = "off" /\ down = {} /\ moved = 0
  BY DEF Init
<1> QED BY <1>3, <1>4, <1>5, <1>6 DEF o

LEMMA InitInvariant == Init => IInv /\ Credits
<1> SUFFICES ASSUME Init PROVE IInv /\ Credits
  OBVIOUS
<1>1. /\ h = InitHid /\ fifo = <<>> /\ usb \in Usbs /\ usb.mode = "off" /\ usb.report_enabled = Now(usb)
      /\ usb.sof = NoReport /\ usb.bufs = <<>> /\ radio = "off" /\ down = {} /\ moved = 0
      /\ host \in [keys : SUBSET Keys, x : Int]
  BY InitDevice
<1>2. /\ h \in Shapes /\ h.out = <<>> /\ h.evq = <<>> /\ h.items = NoItems
      /\ h.on = {} /\ h.link = NoLink
      /\ \A l \in ReportStates : ~Connected(h, l) /\ h.cnt[l] = 0 /\ h.rd[l] = "none"
      /\ \A s \in Subs : h.report_cnt[s] = 0
  BY <1>1, InitShape
<1>3. fifo \in Seq(Events)
  BY <1>1, EmptySeq
<1>4. Len(h.evq) = 0 /\ Len(fifo) = 0 /\ DOMAIN fifo = {} /\ DOMAIN h.evq = {}
  BY <1>1, <1>2, EmptySeq, LenProperties
<1>5. Typed
  <2>1. Routed(h)
    <3>1. ~Linked(h)
      BY <1>2 DEF Linked
    <3>2. \A l \in ReportStates : Connected(h, l) = (h.rd[l] # "none")
      BY <1>2 DEF Connected
    <3> QED BY <1>2, <3>1, <3>2 DEF Routed
  <2>2. Small(h)
    BY <1>2, SmallNone
  <2>3. Len(h.evq) <= EventQueueSize
    BY <1>4, PipelineAssumption
  <2> QED BY <1>1, <1>2, <1>3, <2>1, <2>2, <2>3 DEF Typed
<1>6. Sessions
  <2> SUFFICES ASSUME NEW l \in ReportStates
               PROVE  Leads(fifo, PhaseStep(l), HidPhase(h, l), PeerPhase(usb, radio, l))
    BY DEF Sessions
  <2>1. HidPhase(h, l) = "off" /\ PeerPhase(usb, radio, l) = "off"
    BY <1>1, <1>2 DEF HidPhase, PeerPhase
  <2> QED BY <1>1, <2>1, LeadsNone
<1>7. Buttons
  <2>1. Fresh(h)
    BY <1>4 DEF Fresh
  <2>2. ASSUME NEW k \in Keys
        PROVE  KeyOK(h, k, "up") /\ Leads(fifo, ButtonStep(k), "up", DownPhase(down, k))
    <3>1. DownPhase(down, k) = "up"
      BY <1>1 DEF DownPhase
    <3>2. h.items[k] <= Level("up")
      BY <1>2, NoItemsType DEF Level
    <3>3. Leads(h.evq, UsageStep(k), "up", "up")
      BY <1>2, LeadsNone
    <3>4. Leads(fifo, ButtonStep(k), "up", "up")
      BY <1>1, LeadsNone
    <3> QED BY <3>1, <3>2, <3>3, <3>4 DEF KeyOK
  <2>3. "up" \in {"up", "down"}
    OBVIOUS
  <2> QED BY <2>1, <2>2, <2>3 DEF Buttons
<1>8. MotionConserved
  BY <1>2 DEF MotionConserved, NoLink
<1>9. Credits
  <2>1. Fits(h)
    <3>1. \A s \in Subs : 0 \in 0 .. Depth(s)
      BY PipelineAssumption DEF Depth
    <3>2. \A l \in ReportStates : l[1] \in Subs
      BY PriorityOf
    <3> QED BY <1>2, <3>1, <3>2 DEF Fits
  <2>2. \A r \in Reports : Out(fifo, usb, r) = 0
    <3> SUFFICES ASSUME NEW r \in Reports PROVE Out(fifo, usb, r) = 0
      OBVIOUS
    <3>1. Weigh(fifo, Awaiting(r)) = 0 /\ Weigh(usb.bufs, Awaiting(r)) = 0
      BY <1>1, WeighEmpty
    <3>2. Held1(usb, r) = 0
      BY <1>1 DEF Held1, Reports, NoReport
    <3>3. Out(fifo, usb, r) = Weigh(fifo, Awaiting(r)) + Weigh(usb.bufs, Awaiting(r)) + Held1(usb, r)
      BY OutFields
    <3> QED BY <3>1, <3>2, <3>3
  <2>3. Exact(h, fifo, usb)
    BY <1>2, UsbType DEF Exact
  <2>4. Announcing(h, fifo, usb)
    BY <1>4 DEF Announcing, Early, Announced
  <2>5. Out(fifo, usb, "mouse") + Out(fifo, usb, "boot") <= Pipeline
    <3>1. "mouse" \in Reports /\ "boot" \in Reports
      BY DEF Reports
    <3> QED BY <2>2, <3>1, PipelineDepth
  <2> QED BY <1>1, <1>3, <2>1, <2>3, <2>4, <2>5, CreditsAre
<1> QED BY <1>5, <1>6, <1>7, <1>8, <1>9 DEF IInv

-----------------------------------------------------------------------------
(* Every step preserves the invariant.                                     *)
LEMMA DispatchStep ==
    ASSUME IInv, NEW accepted \in BOOLEAN, Dispatch(accepted)
    PROVE  IInv' /\ (Credits => Credits')
<1>1. PICK e, g : Dispatched(e, g)
  BY DispatchTurn
<1>2. Typed'
  BY <1>1, DispatchTyped
<1>3. Sessions' /\ Buttons' /\ MotionConserved'
  BY <1>1, <1>2, DispatchSessions, DispatchButtons, DispatchMotion
<1>4. Credits => Credits'
  BY <1>1, <1>2, DispatchCredits
<1> QED BY <1>2, <1>3, <1>4 DEF IInv

LEMMA NextStep ==
    ASSUME IInv, CreditInv, [Next]_vars
    PROVE  IInv' /\ CreditInv'
<1>1. CASE \E accepted \in BOOLEAN : Dispatch(accepted)
  BY <1>1, DispatchStep DEF CreditInv
<1>2. CASE PeerStep /\ (CalmHost => PeerCalm)
  BY <1>2, PeerInvariant, PeerCredits DEF CreditInv
<1>3. CASE HostPoll
  BY <1>2, <1>3, HostPollPeer
<1>4. CASE Sof
  BY <1>2, <1>4, SofPeer
<1>5. CASE Configure
  BY <1>2, <1>5, ConfigurePeer
<1>6. CASE Reset
  BY <1>2, <1>6, ResetPeer
<1>7. CASE SetProtocol
  BY <1>2, <1>7, SetProtocolPeer
<1>8. CASE RadioChange
  BY <1>2, <1>8, RadioPeer
<1>9. CASE \E key \in Keys : Button(key)
  BY <1>2, <1>9, ButtonPeer
<1>10. CASE \E dx \in Motions : Move(dx)
  BY <1>2, <1>10, MovePeer
<1>11. CASE \E n \in 1 .. Len(h.evq) : Expire(n)
  BY <1>11, ExpireStep DEF CreditInv
<1>12. CASE UNCHANGED vars
  BY <1>2, <1>12, StutterStep
<1> QED BY <1>1, <1>3, <1>4, <1>5, <1>6, <1>7, <1>8, <1>9, <1>10, <1>11, <1>12 DEF Next

\* The invariant holds in every reachable state: every part of hid_state.c,
\* usb_state.c and the event queue is in its range; the queued events lead from
\* hid_state.c's view of its subscribers and buttons to what they are; and no
\* motion is lost or doubled.  With a calm host the credits are exact as well.
THEOREM Invariance == Spec => [](IInv /\ CreditInv)
<1>1. Init => IInv /\ CreditInv
  BY InitInvariant DEF CreditInv
<1>2. IInv /\ CreditInv /\ [Next]_vars => IInv' /\ CreditInv'
  BY NextStep
<1> QED BY <1>1, <1>2, PTL DEF Spec


-----------------------------------------------------------------------------
(* What the invariant implies.                                             *)

\* Every buffer of the USB device holds one report that is awaited.
LEMMA BufsAwaited ==
    ASSUME NEW q \in Seq(UsbReports)
    PROVE  Weigh(q, Awaiting("mouse")) + Weigh(q, Awaiting("boot")) = Len(q)
<1> DEFINE W(p) == Weigh(p, Awaiting("mouse")) + Weigh(p, Awaiting("boot"))
           T == {n \in Nat : \A p \in Seq(UsbReports) : Len(p) = n => W(p) = n}
<1>1. 0 \in T
  <2>1. ASSUME NEW p \in Seq(UsbReports), Len(p) = 0 PROVE W(p) = 0
    <3>1. p = <<>>
      BY <2>1, EmptySeq
    <3>2. Weigh(p, Awaiting("mouse")) = 0 /\ Weigh(p, Awaiting("boot")) = 0
      BY <3>1, WeighEmpty
    <3> QED BY <3>2
  <2> QED BY <2>1
<1>2. ASSUME NEW n \in Nat, n \in T PROVE n + 1 \in T
  <2>1. ASSUME NEW p \in Seq(UsbReports), Len(p) = n + 1 PROVE W(p) = n + 1
    <3>1. p # <<>> /\ p \in Seq(Events)
      BY <2>1, EmptySeq, BufsType
    <3> DEFINE e == Head(p)
               t == Tail(p)
    <3>2. e \in UsbReports /\ t \in Seq(UsbReports) /\ Len(t) = n
      BY <2>1, <3>1, HeadTailProperties
    <3>3. W(t) = n
      BY <1>2, <3>2
    <3>4. \A r \in Reports : Awaiting(r)[e] = IF r = e.l[2] THEN 1 ELSE 0
      BY <3>2, UsbReportType
    <3>5. e.l[2] \in Reports
      BY <3>2, UsbReportType
    <3>6. Awaiting("mouse")[e] + Awaiting("boot")[e] = 1
      BY <3>4, <3>5 DEF Reports
    <3>7. /\ Weigh(p, Awaiting("mouse")) = Awaiting("mouse")[e] + Weigh(t, Awaiting("mouse"))
          /\ Weigh(p, Awaiting("boot")) = Awaiting("boot")[e] + Weigh(t, Awaiting("boot"))
      BY <3>1, AwaitingInt, WeighHead
    <3>8. /\ Weigh(t, Awaiting("mouse")) \in Nat /\ Weigh(t, Awaiting("boot")) \in Nat
          /\ Awaiting("mouse")[e] \in 0 .. 1 /\ Awaiting("boot")[e] \in 0 .. 1
      <4>1. t \in Seq(Events) /\ e \in Events
        BY <3>2, BufsType, UsbReportType
      <4>2. "mouse" \in Reports /\ "boot" \in Reports
        BY DEF Reports
      <4> QED BY <4>1, <4>2, AwaitingType, WeighNatural, AwaitedKind
    <3> QED BY <3>3, <3>6, <3>7, <3>8
  <2> QED BY <2>1
<1>3. \A n \in Nat : n \in T
  <2> HIDE DEF T
  <2> QED BY <1>1, <1>2, Induction
<1>4. Len(q) \in Nat
  BY BufsType
<1> QED BY <1>3, <1>4

\* The credits leave a buffer for every report.
LEMMA BufferBound ==
    ASSUME IInv, Credits
    PROVE  Len(usb.bufs) <= Pipeline /\ BufferForEveryReport
<1>1. /\ fifo \in Seq(Events) /\ usb \in Usbs /\ usb.bufs \in Seq(UsbReports)
      /\ Out(fifo, usb, "mouse") + Out(fifo, usb, "boot") <= Pipeline
  BY CreditsAre DEF IInv, Typed, Usbs
<1>2. "mouse" \in Reports /\ "boot" \in Reports
  BY DEF Reports
<1> DEFINE A(r) == Weigh(usb.bufs, Awaiting(r))
           O(r) == Out(fifo, usb, r)
           n == Len(usb.bufs)
<1>3. A("mouse") + A("boot") = n /\ n \in Nat
  BY <1>1, BufsAwaited, BufsType
<1>4. ASSUME NEW r \in Reports PROVE O(r) \in Nat /\ A(r) \in Nat /\ O(r) >= A(r)
  <2>1. /\ Weigh(fifo, Awaiting(r)) \in Nat /\ A(r) \in Nat
    <3>1. usb.bufs \in Seq(Events)
      BY <1>1, BufsType
    <3> QED BY <1>1, <3>1, AwaitingType, WeighNatural
  <2>2. O(r) = Weigh(fifo, Awaiting(r)) + A(r) + Held1(usb, r)
    BY OutFields
  <2>3. Held1(usb, r) \in 0 .. 1
    BY DEF Held1
  <2> DEFINE w == Weigh(fifo, Awaiting(r))
             a == A(r)
             s == Held1(usb, r)
             o == O(r)
  <2>4. w \in Nat /\ a \in Nat /\ s \in 0 .. 1 /\ o = w + a + s
    BY <2>1, <2>2, <2>3
  <2> HIDE DEF w, a, s, o
  <2>5. o \in Nat /\ o >= a
    BY <2>4
  <2> QED BY <2>4, <2>5 DEF o, a
<1>5. n <= Pipeline
  <2>1. O("mouse") + O("boot") <= Pipeline
    BY <1>1
  <2>2. /\ O("mouse") \in Nat /\ O("boot") \in Nat /\ A("mouse") \in Nat /\ A("boot") \in Nat
        /\ O("mouse") >= A("mouse") /\ O("boot") >= A("boot")
    BY <1>2, <1>4
  <2> HIDE DEF O, A, n
  <2> QED BY <1>3, <2>1, <2>2, PipelineDepth
<1>6. ASSUME fifo # <<>>, ToUsb(Head(fifo)) PROVE n < Pipeline
  <2> DEFINE e == Head(fifo)
             c(r) == Awaiting(r)[e]
  <2>1. e \in Events
    BY <1>1, <1>6, HeadTailProperties
  <2>2. e \in UsbReports
    BY <1>6, <2>1, EventKinds DEF UsbReports, ToUsb
  <2>3. c("mouse") + c("boot") = 1 /\ c("mouse") \in Nat /\ c("boot") \in Nat
    BY <1>2, <2>2, UsbReportType DEF Reports
  <2>4. ASSUME NEW r \in Reports PROVE O(r) \in Nat /\ O(r) >= c(r) + A(r) /\ A(r) \in Nat
    BY <1>1, <1>6, AwaitsHead
  <2>5. /\ O("mouse") \in Nat /\ O("mouse") >= c("mouse") + A("mouse") /\ A("mouse") \in Nat
        /\ O("boot") \in Nat /\ O("boot") >= c("boot") + A("boot") /\ A("boot") \in Nat
    BY <1>2, <2>4
  <2>6. O("mouse") + O("boot") <= Pipeline
    BY <1>1
  <2> HIDE DEF O, A, c, n
  <2> QED BY <1>3, <2>3, <2>5, <2>6, PipelineDepth
<1> QED BY <1>5, <1>6 DEF BufferForEveryReport

LEMMA TypesFollow ==
    ASSUME IInv, Credits
    PROVE  TypeOK
<1>1. Typed /\ Fits(h) /\ h \in Shapes
  BY DEF IInv, Typed, Credits
<1>2. h \in HidStates
  <2>1. \A s \in Subs : h.report_cnt[s] \in Nat
    BY <1>1, PipelineAssumption DEF Fits, Depth
  <2>2. \A l \in ReportStates : h.cnt[l] \in Nat
    BY <1>1, PipelineAssumption DEF Fits, Depth
  <2>3. h.report_cnt \in [Subs -> Nat] /\ h.cnt \in [ReportStates -> Nat]
    BY <1>1, <2>1, <2>2 DEF Shapes
  <2> QED BY <1>1, <2>3 DEF Shapes, HidStates
<1>3. /\ \A s \in Subs : h.report_cnt[s] <= Depth(s)
      /\ \A l \in ReportStates : h.cnt[l] <= Depth(l[1])
  <2>1. \A s \in Subs : Depth(s) \in Nat
    BY PipelineAssumption DEF Depth
  <2>2. \A l \in ReportStates : l[1] \in Subs
    BY PriorityOf
  <2> QED BY <1>1, <2>1, <2>2 DEF Fits
<1>4. usb \in UsbStates
  BY <1>1, BufsType DEF Typed, Usbs, UsbStates
<1>5. Len(usb.bufs) <= Pipeline
  BY BufferBound
<1> QED BY <1>1, <1>2, <1>3, <1>4, <1>5 DEF TypeOK, Typed, Small

LEMMA LinkFollows ==
    ASSUME IInv
    PROVE  LinkRouted
<1>1. Routed(h) /\ h \in Shapes
  BY DEF IInv, Typed
<1>2. CASE Linked(h)
  <2>1. h.link \in ReportStates
    BY <1>1, <1>2, LinkType
  <2> QED BY <1>1, <1>2, <2>1 DEF Routed, LinkRouted
<1>3. CASE ~Linked(h)
  BY <1>1, <1>3 DEF Routed, LinkRouted
<1> QED BY <1>2, <1>3

\* A queue without a release leaves a pressed button pressed.
LEMMA KeysFollow ==
    ASSUME IInv
    PROVE  NoStuckKey
<1> SUFFICES ASSUME ~Expiry, NEW key \in Pressed(h), key \notin down, ~ReleaseComes(key) PROVE FALSE
  BY DEF NoStuckKey
<1>1. fifo \in Seq(Events) /\ h \in Shapes /\ key \in Keys /\ h.items[key] > 0 /\ h.items[key] \in Nat
  BY DEF IInv, Typed, Shapes, Pressed, Held
<1>2. PICK c \in {"up", "down"} : KeyOK(h, key, c) /\ Leads(fifo, ButtonStep(key), c, DownPhase(down, key))
  BY <1>1 DEF IInv, Buttons
<1>3. PICK a \in {"up", "down"} : h.items[key] <= Level(a) /\ Leads(h.evq, UsageStep(key), a, c)
  BY <1>2 DEF KeyOK
<1>4. a = "down"
  BY <1>1, <1>3 DEF Level
<1>5. c \in {"down"}
  <2>1. h.evq \in Seq(Usages)
    BY <1>1 DEF Shapes
  <2>2. Len(h.evq) \in Nat /\ DOMAIN h.evq = 1 .. Len(h.evq)
    BY <2>1, LenProperties
  <2>3. \A i \in 1 .. Len(h.evq) : \A b \in {"down"} : \A d :
            <<b, d>> \in UsageStep(key)[h.evq[i]] => d \in {"down"}
    <3> SUFFICES ASSUME NEW i \in 1 .. Len(h.evq), NEW d, <<"down", d>> \in UsageStep(key)[h.evq[i]]
                 PROVE  d = "down"
      OBVIOUS
    <3>1. h.evq[i] \in Usages /\ h.evq[i].val \in Values
      BY <2>1, UsageType
    <3>2. h.evq[i].key # key \/ h.evq[i].val = 1
      BY <2>2, <3>1 DEF ReleaseComes, Values
    <3> QED BY <3>1, <3>2 DEF UsageStep
  <2>4. a \in {"down"}
    BY <1>4
  <2> QED BY <1>3, <2>2, <2>3, <2>4, LeadsStays
<1>6. DownPhase(down, key) \in {"down"}
  <2> DEFINE z == DownPhase(down, key)
  <2>1. Len(fifo) \in Nat /\ DOMAIN fifo = 1 .. Len(fifo) /\ \A i \in 1 .. Len(fifo) : fifo[i] \in Events
    BY <1>1, LenProperties, ElementOfSeq
  <2>2. \A i \in 1 .. Len(fifo) : \A b \in {"down"} : \A d :
            <<b, d>> \in ButtonStep(key)[fifo[i]] => d \in {"down"}
    <3> SUFFICES ASSUME NEW i \in 1 .. Len(fifo), NEW d, <<"down", d>> \in ButtonStep(key)[fifo[i]]
                 PROVE  d = "down"
      OBVIOUS
    <3>1. fifo[i] \in Events /\ (fifo[i].t = "button" => fifo[i].val \in Values)
      BY <2>1, EventKinds
    <3>2. ~(fifo[i].t = "button" /\ fifo[i].key = key) \/ fifo[i].val = 1
      BY <2>1, <3>1 DEF ReleaseComes, Values
    <3> QED BY <3>1, <3>2 DEF ButtonStep
  <2>3. Leads(fifo, ButtonStep(key), c, z)
    BY <1>2
  <2> HIDE DEF z
  <2>4. z \in {"down"}
    BY <1>5, <2>1, <2>2, <2>3, LeadsStays
  <2> QED BY <2>4 DEF z
<1> QED BY <1>6 DEF DownPhase

-----------------------------------------------------------------------------
\* The report data is always linked to a connected report state of the highest
\* priority, and to none only if none is connected (find_next_report_state,
\* connect, disconnect and their subscriber counterparts in hid_state.c).
THEOREM LinkAlwaysRouted == Spec => []LinkRouted
<1>1. IInv /\ CreditInv => LinkRouted
  BY LinkFollows
<1> QED BY <1>1, Invariance, PTL

\* Motion reaches the USB host once: what the host has, what is on its way in
\* the event queue and the report buffers, and what hid_state.c has accumulated,
\* add up to what the motion events carried.
THEOREM MotionAlwaysConserved == Spec => []MotionConserved
<1>1. IInv /\ CreditInv => MotionConserved
  BY DEF IInv
<1> QED BY <1>1, Invariance, PTL

\* Without expiry, a usage that hid_state.c records as pressed belongs to a
\* button that is down, or its release is on its way.
THEOREM NoKeyIsStuck == Spec => []NoStuckKey
<1>1. IInv /\ CreditInv => NoStuckKey
  BY KeysFollow
<1> QED BY <1>1, Invariance, PTL

\* With a calm host, report_cnt of the USB subscriber and cnt of its connected
\* report states are the number of reports that wait for an answer.
THEOREM CreditsAreExact == Spec => [](CalmHost => CreditExact)
<1>1. IInv /\ CreditInv => (CalmHost => CreditExact)
  BY DEF CreditInv, Credits
<1> QED BY <1>1, Invariance, PTL

\* With a calm host, usb_state.c finds a free buffer for every report that
\* hid_state.c submits: the assertion of handle_hid_report_event holds.
THEOREM BufferAlwaysFree == Spec => [](CalmHost => BufferForEveryReport)
<1>1. IInv /\ CreditInv => (CalmHost => BufferForEveryReport)
  BY BufferBound DEF CreditInv
<1> QED BY <1>1, Invariance, PTL

\* With a calm host, every part of the state stays in its range, the counters of
\* reports and the buffers within the depth of the pipeline.
THEOREM TypesCorrect == Spec => [](CalmHost => TypeOK)
<1>1. IInv /\ CreditInv => (CalmHost => TypeOK)
  BY TypesFollow DEF CreditInv
<1> QED BY <1>1, Invariance, PTL

=============================================================================
