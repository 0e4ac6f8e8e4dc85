------------------------ MODULE HistoricReport_proofs ------------------------
(***************************************************************************)
(* The end of a historic session is right for any items, any number of       *)
(* workers, any answers and any tickers: its pools keep ParallelMap's         *)
(* promise, the sold-off list matches the answers, the report adds up.       *)
(*                                                                         *)
(* The invariant IInv has three parts.  PoolInv is an account of the batch:  *)
(* each item is with the feeder, with one worker, or answered (Account), and  *)
(* a pool shuts down in the order jobs, workers, results (Shutdown).         *)
(* ScanInv says what the answers so far decide of each symbol (AnswersInv,   *)
(* ListInv) and what has been asked for at each stage (StageInv).  ReportInv  *)
(* counts the tickers and keeps the totals of the rows so far (AddsUp).      *)
(*                                                                         *)
(* The loops over an answer are folds; what they compute is proved by        *)
(* induction over the number of elements (MinLowIsRight, SessionsAreCounted,  *)
(* SumPermuted).                                                            *)
(***************************************************************************)
EXTENDS HistoricReport, SequenceTheorems, FiniteSetTheorems, WellFoundedInduction, TLAPS

-----------------------------------------------------------------------------
(* Induction, from the least element of a well-founded order: for a set of   *)
(* numbers or of sets rather than for a predicate                            *)

\* Induction over the naturals, for the set of those that have a property.
LEMMA NatInd ==
  ASSUME NEW T, 0 \in T, \A n \in Nat : n \in T => n + 1 \in T
  PROVE  \A n \in Nat : n \in T
<1> DEFINE R == {e \in Nat \X Nat : e[1] < e[2]}
           U == Nat \ T
<1>1. SUFFICES ASSUME U # {} PROVE FALSE
  OBVIOUS
<1>2. IsWellFoundedOn(R, Nat)
  BY NatLessThanWellFounded DEF OpToRel
<1>3. PICK x \in U : \A y \in U : <<y, x>> \notin R
  <2> U \subseteq Nat
    OBVIOUS
  <2> HIDE DEF R, U
  <2> QED BY <1>1, <1>2, WFMin
<1>4. x # 0
  OBVIOUS
<1>5. x - 1 \in Nat /\ <<x - 1, x>> \in R
  BY <1>4
<1>6. x - 1 \in T
  BY <1>3, <1>5
<1> QED BY <1>5, <1>6

\* Induction over the subsets of a finite set.
LEMMA SetInd ==
  ASSUME NEW S, IsFiniteSet(S), NEW T,
         \A s \in SUBSET S : (\A x \in s : s \ {x} \in T) => s \in T
  PROVE  \A s \in SUBSET S : s \in T
<1> DEFINE C == {n \in Nat : \A s \in SUBSET S : Cardinality(s) = n => s \in T}
<1>1. \A s \in SUBSET S : IsFiniteSet(s) /\ Cardinality(s) \in Nat
  BY FS_Subset, FS_CardinalityType
<1>2. 0 \in C
  BY <1>1, FS_EmptySet
<1>3. ASSUME NEW n \in Nat, n \in C PROVE n + 1 \in C
  <2> SUFFICES ASSUME NEW s \in SUBSET S, Cardinality(s) = n + 1 PROVE s \in T
    OBVIOUS
  <2>1. ASSUME NEW x \in s PROVE s \ {x} \in T
    <3>1. Cardinality(s \ {x}) = n
      BY <1>1, FS_RemoveElement
    <3> QED BY <3>1, <1>3
  <2> QED BY <2>1
<1>4. \A n \in Nat : n \in C
  <2> HIDE DEF C
  <2> QED BY <1>2, <1>3, NatInd
<1> QED BY <1>1, <1>4

-----------------------------------------------------------------------------
(* The folds of the community modules                                       *)

\* h is the fold of g over the subsets of S that takes c[s] out of s first.
FoldOf(h, S, base, c, g) ==
  h = [s \in SUBSET S |-> IF s = {} THEN base ELSE g[<<c[s], h[s \ {c[s]}]>>]]

\* A fold over the subsets of a finite set exists.
LEMMA FoldExists ==
  ASSUME NEW S, IsFiniteSet(S), NEW A, NEW base \in A,
         NEW c, \A s \in (SUBSET S) \ {{}} : c[s] \in s,
         NEW g, \A x \in S, a \in A : g[<<x, a>>] \in A
  PROVE  \E h \in [SUBSET S -> A] : FoldOf(h, S, base, c, g)
<1> DEFINE Sub(n) == {s \in SUBSET S : Cardinality(s) <= n}
           Val(h, s) == IF s = {} THEN base ELSE g[<<c[s], h[s \ {c[s]}]>>]
           Solves(h, D) == h \in [D -> A] /\ h = [s \in D |-> Val(h, s)]
           T == {n \in Nat : \E h : Solves(h, Sub(n))}
<1>1. \A s \in SUBSET S : IsFiniteSet(s) /\ Cardinality(s) \in Nat
  BY FS_Subset, FS_CardinalityType
<1>2. 0 \in T
  <2> DEFINE h == [s \in Sub(0) |-> base]
  <2>1. \A s \in Sub(0) : s = {}
    BY <1>1, FS_EmptySet
  <2>2. h \in [Sub(0) -> A]
    OBVIOUS
  <2>3. h = [s \in Sub(0) |-> Val(h, s)]
    BY <2>1
  <2>4. Solves(h, Sub(0))
    BY <2>2, <2>3
  <2> HIDE DEF Solves, h
  <2> QED BY <2>4
<1>3. ASSUME NEW n \in Nat, n \in T PROVE n + 1 \in T
  <2>1. PICK h : Solves(h, Sub(n))
    <3> HIDE DEF Solves, Sub
    <3> QED BY <1>3
  <2> DEFINE k == [s \in Sub(n + 1) |-> Val(h, s)]
  <2>2. ASSUME NEW s \in Sub(n + 1), s # {} PROVE s \ {c[s]} \in Sub(n) /\ c[s] \in S
    <3>1. c[s] \in s
      BY <2>2
    <3>2. Cardinality(s \ {c[s]}) = Cardinality(s) - 1
      BY <3>1, <1>1, FS_RemoveElement
    <3> QED BY <1>1, <3>1, <3>2
  <2>3. k \in [Sub(n + 1) -> A]
    <3>1. h \in [Sub(n) -> A]
      BY <2>1
    <3>2. ASSUME NEW s \in Sub(n + 1) PROVE Val(h, s) \in A
      <4> HIDE DEF Sub
      <4> QED BY <2>2, <3>1
    <3> QED BY <3>2
  <2>4. ASSUME NEW s \in Sub(n) PROVE s \in Sub(n + 1) /\ k[s] = h[s]
    <3>1. s \in Sub(n + 1)
      BY <1>1
    <3>2. h[s] = Val(h, s)
      <4> HIDE DEF Sub, Val
      <4> QED BY <2>1
    <3> QED BY <3>1, <3>2
  <2>5. ASSUME NEW s \in Sub(n + 1) PROVE Val(h, s) = Val(k, s)
    BY <2>2, <2>4
  <2>6. k = [s \in Sub(n + 1) |-> Val(k, s)]
    <3> HIDE DEF Val, Sub
    <3> QED BY <2>5
  <2>7. Solves(k, Sub(n + 1))
    BY <2>3, <2>6
  <2> HIDE DEF k, Solves, Sub
  <2> QED BY <2>7
<1>4. \A n \in Nat : n \in T
  <2> HIDE DEF T
  <2> QED BY <1>2, <1>3, NatInd
<1>5. Cardinality(S) \in T
  BY <1>4, FS_CardinalityType
<1>6. Sub(Cardinality(S)) = SUBSET S
  BY FS_Subset
<1>7. PICK h : Solves(h, SUBSET S)
  <2> HIDE DEF Solves
  <2> QED BY <1>5, <1>6
<1> QED BY <1>7 DEF FoldOf

\* A set of indices has a greatest one.
LEMMA MaxOf ==
  ASSUME NEW n \in Nat, NEW s \in SUBSET (1 .. n), s # {}
  PROVE  Max(s) \in s /\ \A x \in s : Max(s) >= x
<1> DEFINE T == {k \in Nat : \A u \in SUBSET (1 .. k) : u # {} => \E m \in u : \A x \in u : m >= x}
<1>1. 0 \in T
  <2>1. 1 .. 0 = {}
    OBVIOUS
  <2> QED BY <2>1
<1>2. ASSUME NEW k \in Nat, k \in T PROVE k + 1 \in T
  <2> SUFFICES ASSUME NEW u \in SUBSET (1 .. k + 1), u # {}
               PROVE  \E m \in u : \A x \in u : m >= x
    OBVIOUS
  <2>1. CASE k + 1 \in u
    BY <2>1
  <2>2. CASE k + 1 \notin u
    <3>1. u \in SUBSET (1 .. k)
      BY <2>2
    <3> QED BY <3>1, <1>2
  <2> QED BY <2>1, <2>2
<1>3. n \in T
  <2> HIDE DEF T
  <2> QED BY <1>1, <1>2, NatInd
<1>4. \E m \in s : \A x \in s : m >= x
  BY <1>3
<1> QED BY <1>4 DEF Max

\* FoldLeft takes the elements of 1 .. N from the last to the first.
LEMMA LastOf ==
  ASSUME NEW N \in Nat, NEW n \in 0 .. N - 1
  PROVE  /\ 1 .. n + 1 \in SUBSET (1 .. N) /\ 1 .. n + 1 # {}
         /\ Max(1 .. n + 1) = n + 1
         /\ (1 .. n + 1) \ {n + 1} = 1 .. n
<1> DEFINE E == 1 .. n + 1
<1>1. E \in SUBSET (1 .. N) /\ n + 1 \in Nat /\ n + 1 \in E
  OBVIOUS
<1>2. Max(E) = n + 1
  <2>1. \A m \in E : m <= n + 1 /\ m \in Nat
    OBVIOUS
  <2>2. Max(E) \in E /\ \A x \in E : Max(E) >= x
    BY <1>1, MaxOf
  <2> QED BY <1>1, <2>1, <2>2
<1>3. E \ {n + 1} = 1 .. n
  OBVIOUS
<1> QED BY <1>1, <1>2, <1>3

\* FoldLeft as the loop of MinLowAndLastClose: one bar after the other.
LEMMA LowestFold ==
  ASSUME NEW b \in Seq([low : Int, close : Int])
  PROVE  \E f : /\ FoldLeft(Lowest, [low |-> 0, last |-> 0], b) = f[1 .. Len(b)]
                /\ f[{}] = [low |-> 0, last |-> 0]
                /\ \A n \in 0 .. Len(b) - 1 : f[1 .. n + 1] = Lowest(f[1 .. n], b[n + 1])
<1> DEFINE base == [low |-> 0, last |-> 0]
           A == [low : Int, last : Int]
           D == DOMAIN b
           g == [e \in D \X A |-> Lowest(e[2], b[e[1]])]
           Is(h) == h = [s \in SUBSET D |-> IF s = {} THEN base
                                        ELSE Lowest(h[s \ {Max(s)}], b[Max(s)])]
           f == CHOOSE h : Is(h)
<1>1. FoldLeft(Lowest, base, b) = f[D]
  BY DEF FoldLeft, MapThenFoldSet
<1>2. D = 1 .. Len(b) /\ Len(b) \in Nat
  BY LenProperties
<1>3. \A i \in D, a \in A : Lowest(a, b[i]) \in A
  <2> SUFFICES ASSUME NEW i \in D, NEW a \in A PROVE Lowest(a, b[i]) \in A
    OBVIOUS
  <2>1. b[i] \in [low : Int, close : Int]
    BY <1>2, ElementOfSeq
  <2> QED BY <2>1 DEF Lowest
<1>4. \A i \in D, a \in A : g[<<i, a>>] = Lowest(a, b[i])
  OBVIOUS
<1>5. \A s \in SUBSET D : s # {} => Max(s) \in D
  BY <1>2, MaxOf
<1>6. \E h : Is(h)
  <2> DEFINE c == [s \in SUBSET D |-> Max(s)]
  <2>1. \A s \in (SUBSET D) \ {{}} : c[s] \in s
    BY <1>2, MaxOf
  <2>2. \A i \in D, a \in A : g[<<i, a>>] \in A
    BY <1>3, <1>4
  <2>3. base \in A /\ IsFiniteSet(D)
    BY <1>2, FS_Interval
  <2>4. \E h \in [SUBSET D -> A] : FoldOf(h, D, base, c, g)
    <3> HIDE DEF A, g, D, c, base
    <3> QED BY <2>1, <2>2, <2>3, FoldExists
  <2>5. PICK h \in [SUBSET D -> A] : FoldOf(h, D, base, c, g)
    BY <2>4
  <2>6. \A s \in SUBSET D : s # {} =>
          c[s] = Max(s) /\ g[<<Max(s), h[s \ {Max(s)}]>>] = Lowest(h[s \ {Max(s)}], b[Max(s)])
    <3> HIDE DEF g, A, D
    <3> QED BY <1>4, <1>5
  <2>7. Is(h)
    <3> HIDE DEF g, A, D, c, base
    <3> QED BY <2>5, <2>6 DEF FoldOf
  <2> HIDE DEF Is
  <2> QED BY <2>7
<1>7. Is(f)
  <2> HIDE DEF Is
  <2> QED BY <1>6
<1> HIDE DEF f
<1>8. f[{}] = base
  BY <1>7
<1>9. ASSUME NEW n \in 0 .. Len(b) - 1 PROVE f[1 .. n + 1] = Lowest(f[1 .. n], b[n + 1])
  <2> DEFINE E == 1 .. n + 1
  <2>1. E \in SUBSET D /\ E # {} /\ Max(E) = n + 1 /\ E \ {n + 1} = 1 .. n
    BY <1>2, LastOf
  <2> HIDE DEF E
  <2>2. f[E] = Lowest(f[E \ {Max(E)}], b[Max(E)])
    BY <1>7, <2>1
  <2> QED BY <2>1, <2>2 DEF E
<1> QED BY <1>1, <1>2, <1>8, <1>9

\* FoldLeft as the loop of avgPrevSessionsOpen5mVol: one day after the other.
LEMMA SessionFold ==
  ASSUME NEW v \in Seq(Int)
  PROVE  \E f : /\ FoldLeft(Session, [n |-> 0, sum |-> 0], v) = f[1 .. Len(v)]
                /\ f[{}] = [n |-> 0, sum |-> 0]
                /\ \A n \in 0 .. Len(v) - 1 : f[1 .. n + 1] = Session(f[1 .. n], v[n + 1])
<1> DEFINE base == [n |-> 0, sum |-> 0]
           A == [n : Int, sum : Int]
           D == DOMAIN v
           g == [e \in D \X A |-> Session(e[2], v[e[1]])]
           Is(h) == h = [s \in SUBSET D |-> IF s = {} THEN base
                                        ELSE Session(h[s \ {Max(s)}], v[Max(s)])]
           f == CHOOSE h : Is(h)
<1>1. FoldLeft(Session, base, v) = f[D]
  BY DEF FoldLeft, MapThenFoldSet
<1>2. D = 1 .. Len(v) /\ Len(v) \in Nat
  BY LenProperties
<1>3. \A i \in D, a \in A : Session(a, v[i]) \in A
  <2> SUFFICES ASSUME NEW i \in D, NEW a \in A PROVE Session(a, v[i]) \in A
    OBVIOUS
  <2>1. v[i] \in Int
    BY <1>2, ElementOfSeq
  <2> QED BY <2>1 DEF Session
<1>4. \A i \in D, a \in A : g[<<i, a>>] = Session(a, v[i])
  OBVIOUS
<1>5. \A s \in SUBSET D : s # {} => Max(s) \in D
  BY <1>2, MaxOf
<1>6. \E h : Is(h)
  <2> DEFINE c == [s \in SUBSET D |-> Max(s)]
  <2>1. \A s \in (SUBSET D) \ {{}} : c[s] \in s
    BY <1>2, MaxOf
  <2>2. \A i \in D, a \in A : g[<<i, a>>] \in A
    BY <1>3, <1>4
  <2>3. base \in A /\ IsFiniteSet(D)
    BY <1>2, FS_Interval
  <2>4. \E h \in [SUBSET D -> A] : FoldOf(h, D, base, c, g)
    <3> HIDE DEF A, g, D, c, base
    <3> QED BY <2>1, <2>2, <2>3, FoldExists
  <2>5. PICK h \in [SUBSET D -> A] : FoldOf(h, D, base, c, g)
    BY <2>4
  <2>6. \A s \in SUBSET D : s # {} =>
          c[s] = Max(s) /\ g[<<Max(s), h[s \ {Max(s)}]>>] = Session(h[s \ {Max(s)}], v[Max(s)])
    <3> HIDE DEF g, A, D
    <3> QED BY <1>4, <1>5
  <2>7. Is(h)
    <3> HIDE DEF g, A, D, c, base
    <3> QED BY <2>5, <2>6 DEF FoldOf
  <2> HIDE DEF Is
  <2> QED BY <2>7
<1>7. Is(f)
  <2> HIDE DEF Is
  <2> QED BY <1>6
<1> HIDE DEF f
<1>8. f[{}] = base
  BY <1>7
<1>9. ASSUME NEW n \in 0 .. Len(v) - 1 PROVE f[1 .. n + 1] = Session(f[1 .. n], v[n + 1])
  <2> DEFINE E == 1 .. n + 1
  <2>1. E \in SUBSET D /\ E # {} /\ Max(E) = n + 1 /\ E \ {n + 1} = 1 .. n
    BY <1>2, LastOf
  <2> HIDE DEF E
  <2>2. f[E] = Session(f[E \ {Max(E)}], v[Max(E)])
    BY <1>7, <2>1
  <2> QED BY <2>1, <2>2 DEF E
<1> QED BY <1>1, <1>2, <1>8, <1>9

-----------------------------------------------------------------------------
(* Sums over a finite set, in any order                                      *)

\* f gives the sum of q over each subset of S.
SumsOf(f, q, S) ==
  /\ f[{}] = 0
  /\ \A s \in SUBSET S : f[s] \in Int /\ \A x \in s : f[s] = q[x] + f[s \ {x}]

\* SumFunctionOnSet has such an f.
LEMMA SumFold ==
  ASSUME NEW S, IsFiniteSet(S), NEW q, \A i \in S : q[i] \in Int
  PROVE  \E f : SumsOf(f, q, S) /\ SumFunctionOnSet(q, S) = f[S]
<1> DEFINE c == [s \in SUBSET S |-> CHOOSE x \in s : TRUE]
           g == [e \in S \X Int |-> q[e[1]] + e[2]]
           Is(h) == h = [s \in SUBSET S |-> IF s = {} THEN 0
                           ELSE q[CHOOSE x \in s : TRUE] + h[s \ {CHOOSE x \in s : TRUE}]]
           f == CHOOSE h : Is(h)
<1>1. SumFunctionOnSet(q, S) = f[S]
  BY DEF SumFunctionOnSet, FoldFunctionOnSet, MapThenFoldSet
<1>2. \A s \in (SUBSET S) \ {{}} : c[s] \in s /\ c[s] = CHOOSE x \in s : TRUE
  OBVIOUS
<1>3. \A i \in S, a \in Int : g[<<i, a>>] = q[i] + a /\ g[<<i, a>>] \in Int
  OBVIOUS
<1>4. \E h : Is(h)
  <2>1. \E h \in [SUBSET S -> Int] : FoldOf(h, S, 0, c, g)
    <3> DEFINE A == Int
               zero == 0
    <3>1. zero \in A /\ \A i \in S, a \in A : g[<<i, a>>] \in A
      BY <1>3
    <3>2. \A s \in (SUBSET S) \ {{}} : c[s] \in s
      BY <1>2
    <3>3. \E h \in [SUBSET S -> A] : FoldOf(h, S, zero, c, g)
      <4> HIDE DEF A, zero, g, c
      <4> QED BY <3>1, <3>2, FoldExists
    <3> QED BY <3>3
  <2>2. PICK h \in [SUBSET S -> Int] : FoldOf(h, S, 0, c, g)
    BY <2>1
  <2>3. \A s \in SUBSET S : s # {} => g[<<c[s], h[s \ {c[s]}]>>] = q[c[s]] + h[s \ {c[s]}]
    <3> HIDE DEF g, c
    <3> QED BY <1>2, <1>3
  <2>4. Is(h)
    <3> HIDE DEF g, c
    <3> QED BY <1>2, <2>2, <2>3 DEF FoldOf
  <2> HIDE DEF Is
  <2> QED BY <2>4
<1>5. Is(f)
  <2> HIDE DEF Is
  <2> QED BY <1>4
<1> HIDE DEF f
<1>6. f[{}] = 0
  BY <1>5
<1>7. \A s \in SUBSET S : s # {} => c[s] \in s /\ f[s] = q[c[s]] + f[s \ {c[s]}]
  <2> SUFFICES ASSUME NEW s \in SUBSET S, s # {}
               PROVE  c[s] \in s /\ f[s] = q[c[s]] + f[s \ {c[s]}]
    OBVIOUS
  <2>1. f[s] = q[CHOOSE x \in s : TRUE] + f[s \ {CHOOSE x \in s : TRUE}]
    BY <1>5
  <2> HIDE DEF c
  <2> QED BY <1>2, <2>1
<1> HIDE DEF c
<1>8. \A s \in SUBSET S : f[s] \in Int
  <2> DEFINE T == {s \in SUBSET S : f[s] \in Int}
  <2>1. ASSUME NEW s \in SUBSET S, \A x \in s : s \ {x} \in T PROVE s \in T
    <3>1. CASE s = {}
      BY <3>1, <1>6
    <3>2. CASE s # {}
      <4>1. c[s] \in s /\ f[s] = q[c[s]] + f[s \ {c[s]}]
        BY <1>7, <3>2
      <4>2. f[s \ {c[s]}] \in Int /\ q[c[s]] \in Int
        BY <2>1, <4>1
      <4> QED BY <4>1, <4>2
    <3> QED BY <3>1, <3>2
  <2>2. \A s \in SUBSET S : s \in T
    <3> HIDE DEF T
    <3> QED BY <2>1, SetInd
  <2> QED BY <2>2
<1>9. \A s \in SUBSET S : \A x \in s : f[s] = q[x] + f[s \ {x}]
  <2> DEFINE T == {s \in SUBSET S : \A x \in s : f[s] = q[x] + f[s \ {x}]}
  <2>1. ASSUME NEW s \in SUBSET S, \A x \in s : s \ {x} \in T, NEW x \in s
        PROVE  f[s] = q[x] + f[s \ {x}]
    <3>1. c[s] \in s /\ f[s] = q[c[s]] + f[s \ {c[s]}]
      BY <1>7
    <3>2. CASE x = c[s]
      BY <3>1, <3>2
    <3>3. CASE x # c[s]
      <4>1. f[s \ {c[s]}] = q[x] + f[(s \ {c[s]}) \ {x}]
        BY <2>1, <3>1, <3>3
      <4>2. f[s \ {x}] = q[c[s]] + f[(s \ {x}) \ {c[s]}]
        BY <2>1, <3>1, <3>3
      <4>3. (s \ {x}) \ {c[s]} = (s \ {c[s]}) \ {x} /\ (s \ {x}) \ {c[s]} \in SUBSET S
        OBVIOUS
      <4>4. q[x] \in Int /\ q[c[s]] \in Int /\ f[(s \ {x}) \ {c[s]}] \in Int
        BY <1>8, <3>1, <4>3
      <4> DEFINE a == q[x]
                 d == q[c[s]]
                 y == f[(s \ {x}) \ {c[s]}]
      <4>5. f[s] = d + (a + y) /\ f[s \ {x}] = d + y
        BY <3>1, <4>1, <4>2, <4>3
      <4>6. a \in Int /\ d \in Int /\ y \in Int
        BY <4>4
      <4> HIDE DEF a, d, y
      <4>7. f[s] = a + f[s \ {x}]
        BY <4>5, <4>6
      <4> QED BY <4>7 DEF a
    <3> QED BY <3>2, <3>3
  <2>2. \A s \in SUBSET S : s \in T
    <3>1. ASSUME NEW s \in SUBSET S, \A x \in s : s \ {x} \in T PROVE s \in T
      BY <2>1, <3>1
    <3> HIDE DEF T
    <3> QED BY <3>1, SetInd
  <2> QED BY <2>2
<1>10. SumsOf(f, q, S)
  BY <1>6, <1>8, <1>9 DEF SumsOf
<1> QED BY <1>1, <1>10

\* Two of them agree on what both sum.
LEMMA SumsAgree ==
  ASSUME NEW S, IsFiniteSet(S), NEW q, NEW r, \A i \in S : q[i] = r[i],
         NEW f, NEW h, NEW U, S \subseteq U, SumsOf(f, q, S), SumsOf(h, r, U)
  PROVE  f[S] = h[S]
<1> DEFINE T == {s \in SUBSET S : f[s] = h[s]}
<1>1. ASSUME NEW s \in SUBSET S, \A x \in s : s \ {x} \in T PROVE s \in T
  <2>1. CASE s = {}
    BY <2>1 DEF SumsOf
  <2>2. CASE s # {}
    <3>1. PICK x \in s : TRUE
      BY <2>2
    <3>2. f[s] = q[x] + f[s \ {x}] /\ h[s] = r[x] + h[s \ {x}]
      BY DEF SumsOf
    <3> QED BY <1>1, <3>2
  <2> QED BY <2>1, <2>2
<1>2. \A s \in SUBSET S : s \in T
  <2> HIDE DEF T
  <2> QED BY <1>1, SetInd
<1> QED BY <1>2

\* What a sum over a finite set is: empty, with one more element, and for
\* another function with the same values.
LEMMA SumFacts ==
  ASSUME NEW S, IsFiniteSet(S), NEW q, \A i \in S : q[i] \in Int
  PROVE  /\ SumFunctionOnSet(q, S) \in Int
         /\ S = {} => SumFunctionOnSet(q, S) = 0
         /\ \A x \in S : SumFunctionOnSet(q, S) = q[x] + SumFunctionOnSet(q, S \ {x})
<1>1. PICK f : SumsOf(f, q, S) /\ SumFunctionOnSet(q, S) = f[S]
  BY SumFold
<1>2. ASSUME NEW x \in S PROVE SumFunctionOnSet(q, S) = q[x] + SumFunctionOnSet(q, S \ {x})
  <2>1. IsFiniteSet(S \ {x})
    BY FS_RemoveElement
  <2>2. PICK h : SumsOf(h, q, S \ {x}) /\ SumFunctionOnSet(q, S \ {x}) = h[S \ {x}]
    BY <2>1, SumFold
  <2>3. h[S \ {x}] = f[S \ {x}]
    BY <1>1, <2>1, <2>2, SumsAgree
  <2> QED BY <1>1, <2>2, <2>3 DEF SumsOf
<1> QED BY <1>1, <1>2 DEF SumsOf

\* Only the values count.
LEMMA SumSame ==
  ASSUME NEW S, IsFiniteSet(S), NEW q, NEW r, \A i \in S : q[i] \in Int /\ q[i] = r[i]
  PROVE  SumFunctionOnSet(q, S) = SumFunctionOnSet(r, S)
<1>1. PICK f : SumsOf(f, q, S) /\ SumFunctionOnSet(q, S) = f[S]
  BY SumFold
<1>2. PICK h : SumsOf(h, r, S) /\ SumFunctionOnSet(r, S) = h[S]
  BY SumFold
<1> QED BY <1>1, <1>2, SumsAgree

\* A sum does not depend on the order of what is summed.
LEMMA SumPermuted ==
  ASSUME NEW S, IsFiniteSet(S), NEW q, \A i \in S : q[i] \in Int,
         NEW p \in Bijection(S, S), NEW r, \A i \in S : r[i] = q[p[i]]
  PROVE  SumFunctionOnSet(r, S) = SumFunctionOnSet(q, S)
<1>1. p \in [S -> S] /\ (\A i, j \in S : p[i] = p[j] => i = j) /\ \A j \in S : \E i \in S : p[i] = j
  BY DEF Bijection, Injection, Surjection, IsInjective
<1>2. PICK f : SumsOf(f, q, S) /\ SumFunctionOnSet(q, S) = f[S]
  BY SumFold
<1>3. PICK h : SumsOf(h, r, S) /\ SumFunctionOnSet(r, S) = h[S]
  BY <1>1, SumFold
<1> DEFINE Img(s) == {p[i] : i \in s}
           T == {s \in SUBSET S : h[s] = f[Img(s)]}
<1>4. ASSUME NEW s \in SUBSET S, \A x \in s : s \ {x} \in T PROVE s \in T
  <2>1. CASE s = {}
    <3>1. Img(s) = {}
      BY <2>1
    <3> QED BY <1>2, <1>3, <2>1, <3>1 DEF SumsOf
  <2>2. CASE s # {}
    <3>1. PICK x \in s : TRUE
      BY <2>2
    <3>2. Img(s) \in SUBSET S /\ p[x] \in Img(s) /\ Img(s \ {x}) = Img(s) \ {p[x]}
      BY <1>1
    <3>3. h[s] = r[x] + h[s \ {x}] /\ f[Img(s)] = q[p[x]] + f[Img(s) \ {p[x]}]
      <4> HIDE DEF Img
      <4> QED BY <1>2, <1>3, <3>2 DEF SumsOf
    <3>4. h[s \ {x}] = f[Img(s \ {x})]
      BY <1>4
    <3> QED BY <3>2, <3>3, <3>4
  <2> QED BY <2>1, <2>2
<1>5. \A s \in SUBSET S : s \in T
  <2> HIDE DEF T
  <2> QED BY <1>4, SetInd
<1>6. Img(S) = S
  BY <1>1
<1>7. h[S] = f[Img(S)]
  BY <1>5
<1> QED BY <1>2, <1>3, <1>6, <1>7

-----------------------------------------------------------------------------
(* MinLowAndLastClose, for any bars                                         *)

\* a is the least positive low and some positive close of the first n bars.
Summarizes(a, b, n) ==
  /\ a \in [low : Nat, last : Nat]
  /\ \A k \in 1 .. n : b[k].low > 0 => a.low > 0 /\ a.low <= b[k].low
  /\ a.low > 0 => \E k \in 1 .. n : b[k].low = a.low
  /\ \A k \in 1 .. n : b[k].close > 0 => a.last > 0
  /\ a.last > 0 => \E k \in 1 .. n : b[k].close = a.last

\* The values in an answer.
LEMMA BarValues ==
  ASSUME NEW b \in Seq([low : Int, close : Int])
  PROVE  /\ Len(b) \in Nat /\ DOMAIN b = 1 .. Len(b)
         /\ \A k \in 1 .. Len(b) : b[k].low \in Int /\ b[k].close \in Int
<1> DEFINE Bar == [low : Int, close : Int]
<1>1. \A e \in Bar : e.low \in Int /\ e.close \in Int
  OBVIOUS
<1> HIDE DEF Bar
<1>2. b \in Seq(Bar)
  BY DEF Bar
<1>3. \A k \in 1 .. Len(b) : b[k] \in Bar
  BY <1>2, ElementOfSeq
<1> QED BY <1>1, <1>2, <1>3, LenProperties

\* The loop over the bars keeps that.
LEMMA LowestSummarizes ==
  ASSUME NEW b \in Seq([low : Int, close : Int])
  PROVE  Summarizes(FoldLeft(Lowest, [low |-> 0, last |-> 0], b), b, Len(b))
<1>1. PICK f : /\ FoldLeft(Lowest, [low |-> 0, last |-> 0], b) = f[1 .. Len(b)]
               /\ f[{}] = [low |-> 0, last |-> 0]
               /\ \A n \in 0 .. Len(b) - 1 : f[1 .. n + 1] = Lowest(f[1 .. n], b[n + 1])
  BY LowestFold
<1> DEFINE T == {n \in Nat : n <= Len(b) => Summarizes(f[1 .. n], b, n)}
<1>2. Len(b) \in Nat /\ \A k \in 1 .. Len(b) : b[k].low \in Int /\ b[k].close \in Int
  BY BarValues
<1>3. 0 \in T
  <2>1. 1 .. 0 = {}
    OBVIOUS
  <2>2. f[1 .. 0] = [low |-> 0, last |-> 0]
    BY <1>1, <2>1
  <2> QED BY <2>1, <2>2 DEF Summarizes
<1>4. ASSUME NEW n \in Nat, n \in T PROVE n + 1 \in T
  <2> SUFFICES ASSUME n + 1 <= Len(b) PROVE Summarizes(f[1 .. n + 1], b, n + 1)
    OBVIOUS
  <2>1. f[1 .. n + 1] = Lowest(f[1 .. n], b[n + 1]) /\ Summarizes(f[1 .. n], b, n)
    BY <1>1, <1>2, <1>4
  <2> DEFINE a == f[1 .. n]
             e == b[n + 1]
  <2>2. e.low \in Int /\ e.close \in Int /\ n + 1 \in 1 .. n + 1 /\ Summarizes(a, b, n)
    BY <1>2, <2>1
  <2>3. \A k \in 1 .. n + 1 : k \in 1 .. n \/ b[k] = e
    OBVIOUS
  <2>4. \A k \in 1 .. n : k \in 1 .. n + 1 /\ b[k].low \in Int /\ b[k].close \in Int
    BY <1>2
  <2>5. b[n + 1] = e
    OBVIOUS
  <2> HIDE DEF a, e
  <2> DEFINE c == Lowest(a, e)
  <2>6. /\ c.low = IF e.low > 0 /\ (a.low = 0 \/ e.low < a.low) THEN e.low ELSE a.low
        /\ c.last = IF e.close > 0 THEN e.close ELSE a.last
        /\ c \in [low : Nat, last : Nat] /\ a.low \in Nat /\ a.last \in Nat
    BY <2>2 DEF Summarizes, Lowest
  <2> HIDE DEF c
  <2>7. ASSUME NEW k \in 1 .. n + 1, b[k].low > 0 PROVE c.low > 0 /\ c.low <= b[k].low
    <3>1. CASE k \in 1 .. n
      <4>1. a.low > 0 /\ a.low <= b[k].low /\ b[k].low \in Int
        BY <2>2, <2>4, <2>7, <3>1 DEF Summarizes
      <4>2. a.low \in Nat /\ e.low \in Int
        BY <2>2, <2>6
      <4>3. CASE e.low > 0 /\ e.low < a.low
        <5>1. c.low = e.low
          BY <2>6, <4>3
        <5> QED BY <4>1, <4>2, <4>3, <5>1
      <4>4. CASE ~(e.low > 0 /\ e.low < a.low)
        <5>1. c.low = a.low
          BY <2>6, <4>1, <4>2, <4>4
        <5> QED BY <4>1, <5>1
      <4> QED BY <4>3, <4>4
    <3>2. CASE b[k] = e
      BY <2>2, <2>6, <2>7, <3>2, SMTT(30)
    <3> QED BY <2>3, <3>1, <3>2
  <2>8. c.low > 0 => \E k \in 1 .. n + 1 : b[k].low = c.low
    BY <2>2, <2>4, <2>5, <2>6 DEF Summarizes
  <2>9. \A k \in 1 .. n + 1 : b[k].close > 0 => c.last > 0
    BY <2>2, <2>3, <2>4, <2>6 DEF Summarizes
  <2>10. c.last > 0 => \E k \in 1 .. n + 1 : b[k].close = c.last
    BY <2>2, <2>4, <2>5, <2>6 DEF Summarizes
  <2>11. Summarizes(c, b, n + 1)
    BY <2>6, <2>7, <2>8, <2>9, <2>10 DEF Summarizes
  <2> QED BY <2>1, <2>11 DEF a, c, e
<1>5. Len(b) \in T
  <2> HIDE DEF T
  <2> QED BY <1>2, <1>3, <1>4, NatInd
<1> QED BY <1>1, <1>2, <1>5

\* What MinLowAndLastClose returns of any bars.
LEMMA MinLowIsRight ==
  ASSUME NEW b \in Seq([low : Int, close : Int])
  PROVE  LET r == MinLowAndLastClose(b)
             L == {x \in {b[k].low : k \in DOMAIN b} : x > 0}
             C == {x \in {b[k].close : k \in DOMAIN b} : x > 0}
         IN  /\ r.low \in Nat
             /\ r.ok <=> L # {} /\ C # {}
             /\ r.ok => r.low = Min(L)
<1> DEFINE a == FoldLeft(Lowest, [low |-> 0, last |-> 0], b)
           L == {x \in {b[k].low : k \in DOMAIN b} : x > 0}
           C == {x \in {b[k].close : k \in DOMAIN b} : x > 0}
           r == MinLowAndLastClose(b)
<1>1. DOMAIN b = 1 .. Len(b)
  BY LenProperties
<1>a. \A k \in 1 .. Len(b) : b[k].low \in Int /\ b[k].close \in Int
  BY BarValues
<1>2. Summarizes(a, b, Len(b))
  BY LowestSummarizes
<1>3. r.low = a.low /\ (r.ok <=> a.low > 0 /\ a.last > 0)
  BY DEF MinLowAndLastClose
<1> HIDE DEF a, r
<1>4. /\ r.low \in Nat
      /\ r.low > 0 <=> L # {}
      /\ a.last > 0 <=> C # {}
  BY <1>1, <1>2, <1>3, <1>a DEF Summarizes
<1>5. r.low > 0 => r.low \in L /\ \A x \in L : r.low <= x
  BY <1>1, <1>2, <1>3, <1>a DEF Summarizes
<1>6. \A x \in L : x \in Int
  BY <1>1, <1>a
<1> HIDE DEF L, C
<1>7. r.low > 0 => r.low = Min(L)
  BY <1>4, <1>5, <1>6 DEF Min
<1> QED BY <1>3, <1>4, <1>7 DEF L, C, r

-----------------------------------------------------------------------------
(* avgPrevSessionsOpen5mVol, for any history                                *)

\* The days with a volume among the first n, and those of them that count.
Days(v, n) == {j \in 1 .. n : v[j] > 0}
CountedUpTo(v, n) == {k \in 1 .. n : v[k] > 0 /\ Cardinality(Days(v, k)) <= Sessions}

\* a has counted the days of v up to the n-th.
Counts(a, v, n) ==
  /\ a.n \in Nat /\ a.sum \in Int
  /\ a.n = Cardinality(CountedUpTo(v, n))
  /\ a.sum = SumFunctionOnSet(v, CountedUpTo(v, n))
  /\ a.n = IF Cardinality(Days(v, n)) <= Sessions THEN Cardinality(Days(v, n)) ELSE Sessions

\* The loop over the days keeps that.
LEMMA CountOneMore ==
  ASSUME NEW v \in Seq(Int), NEW n \in Nat, n < Len(v), NEW a, Counts(a, v, n)
  PROVE  Counts(Session(a, v[n + 1]), v, n + 1)
<1> DEFINE x == v[n + 1]
           D == Days(v, n)
           E == Days(v, n + 1)
           C == CountedUpTo(v, n)
           G == CountedUpTo(v, n + 1)
           t == Session(a, x)
<1>1. /\ Len(v) \in Nat /\ \A k \in 1 .. Len(v) : v[k] \in Int
      /\ Sessions \in Nat /\ a.n \in Nat /\ a.sum \in Int /\ n + 1 \in 1 .. Len(v)
  BY LenProperties, ElementOfSeq, FiltersAssumption DEF Counts
<1>2. x \in Int
  BY <1>1
<1>3. /\ IsFiniteSet(D) /\ IsFiniteSet(C) /\ Cardinality(D) \in Nat /\ Cardinality(C) \in Nat
      /\ IsFiniteSet(E) /\ IsFiniteSet(G)
  <2>1. IsFiniteSet(1 .. n) /\ IsFiniteSet(1 .. n + 1)
    BY FS_Interval
  <2>2. /\ D \in SUBSET (1 .. n) /\ E \in SUBSET (1 .. n + 1)
        /\ C \in SUBSET (1 .. n) /\ G \in SUBSET (1 .. n + 1)
    BY DEF Days, CountedUpTo
  <2> HIDE DEF D, C, E, G
  <2> QED BY <2>1, <2>2, FS_Subset, FS_CardinalityType
<1>4. n + 1 \notin D /\ n + 1 \notin C /\ \A k \in 1 .. n + 1 : k \in 1 .. n \/ k = n + 1
  BY DEF Days, CountedUpTo
<1>5. CASE ~(x > 0)
  <2>1. E = D
    BY <1>4, <1>5 DEF Days
  <2>2. G = C
    BY <1>4, <1>5 DEF CountedUpTo
  <2>3. t = a
    BY <1>5 DEF Session
  <2> HIDE DEF E, D, G, C, t
  <2> QED BY <2>1, <2>2, <2>3 DEF Counts, E, D, G, C, t
<1>6. CASE x > 0
  <2>1. E = D \cup {n + 1}
    BY <1>4, <1>6 DEF Days
  <2>2. Cardinality(E) = Cardinality(D) + 1
    <3> HIDE DEF E, D
    <3> QED BY <1>3, <1>4, <2>1, FS_AddElement
  <2>3. CASE a.n < Sessions
    <3>1. Cardinality(D) < Sessions /\ a.n = Cardinality(D)
      BY <1>1, <1>3, <2>3 DEF Counts
    <3>2. Cardinality(E) <= Sessions
      BY <1>1, <1>3, <2>2, <3>1
    <3>3. G = C \cup {n + 1}
      BY <1>4, <1>6, <3>2 DEF CountedUpTo
    <3>4. G \ {n + 1} = C /\ n + 1 \in G
      BY <1>4, <3>3
    <3>5. \A i \in G : v[i] \in Int
      BY <1>1 DEF CountedUpTo
    <3>6. t.n = a.n + 1 /\ t.sum = a.sum + x
      BY <1>6, <2>3 DEF Session
    <3> HIDE DEF E, D, G, C, t
    <3>7. Cardinality(G) = Cardinality(C) + 1
      BY <1>3, <1>4, <3>3, FS_AddElement
    <3>8. SumFunctionOnSet(v, G) = v[n + 1] + SumFunctionOnSet(v, C)
      BY <1>3, <3>4, <3>5, SumFacts
    <3>9. a.n = Cardinality(C) /\ a.sum = SumFunctionOnSet(v, C)
      BY DEF Counts, C
    <3> HIDE DEF x
    <3>10. t.n \in Nat /\ t.sum \in Int /\ t.n = Cardinality(G) /\ t.n = Cardinality(E)
      BY <1>1, <1>2, <2>2, <3>1, <3>6, <3>7, <3>9
    <3>11. t.sum = SumFunctionOnSet(v, G)
      BY <1>1, <1>2, <3>6, <3>8, <3>9 DEF x
    <3> QED BY <3>2, <3>10, <3>11 DEF Counts, E, G, t, x
  <2>4. CASE ~(a.n < Sessions)
    <3>1. Cardinality(D) >= Sessions /\ a.n = Sessions
      BY <1>1, <1>3, <2>4 DEF Counts
    <3>2. ~(Cardinality(E) <= Sessions)
      BY <1>1, <1>3, <2>2, <3>1
    <3>3. G = C
      BY <1>4, <1>6, <3>2 DEF CountedUpTo
    <3>4. t = a
      BY <2>4 DEF Session
    <3> HIDE DEF E, D, G, C, t
    <3> QED BY <3>1, <3>2, <3>3, <3>4 DEF Counts, E, G, C, t
  <2> QED BY <2>3, <2>4
<1> QED BY <1>5, <1>6

\* What PrevSessions returns of any history: the first days with a volume.
LEMMA SessionsAreCounted ==
  ASSUME NEW v \in Seq(Int)
  PROVE  /\ PrevSessions(v).n = Cardinality(Counted(v))
         /\ PrevSessions(v).sum = SumFunctionOnSet(v, Counted(v))
<1>1. PICK f : /\ FoldLeft(Session, [n |-> 0, sum |-> 0], v) = f[1 .. Len(v)]
               /\ f[{}] = [n |-> 0, sum |-> 0]
               /\ \A n \in 0 .. Len(v) - 1 : f[1 .. n + 1] = Session(f[1 .. n], v[n + 1])
  BY SessionFold
<1> DEFINE T == {n \in Nat : n <= Len(v) => Counts(f[1 .. n], v, n)}
<1>2. Len(v) \in Nat /\ DOMAIN v = 1 .. Len(v)
  BY LenProperties
<1>3. 0 \in T
  <2>1. 1 .. 0 = {}
    OBVIOUS
  <2>2. f[1 .. 0].n = 0 /\ f[1 .. 0].sum = 0
    BY <1>1, <2>1
  <2>3. Days(v, 0) = {} /\ CountedUpTo(v, 0) = {}
    BY <2>1 DEF Days, CountedUpTo
  <2>4. SumFunctionOnSet(v, {}) = 0 /\ Cardinality({}) = 0
    BY SumFacts, FS_EmptySet
  <2>8. /\ Cardinality(Days(v, 0)) = 0 /\ Cardinality(CountedUpTo(v, 0)) = 0
        /\ SumFunctionOnSet(v, CountedUpTo(v, 0)) = 0
    BY <2>3, <2>4, Zenon
  <2>5. 0 <= Sessions
    BY FiltersAssumption
  <2> DEFINE a == f[1 .. 0]
  <2>6. a.n = 0 /\ a.sum = 0
    BY <2>2
  <2> HIDE DEF a
  <2>7. Counts(a, v, 0)
    BY <2>5, <2>6, <2>8 DEF Counts
  <2> QED BY <2>7 DEF a
<1>4. ASSUME NEW n \in Nat, n \in T PROVE n + 1 \in T
  <2> SUFFICES ASSUME n + 1 <= Len(v) PROVE Counts(f[1 .. n + 1], v, n + 1)
    OBVIOUS
  <2>1. f[1 .. n + 1] = Session(f[1 .. n], v[n + 1]) /\ Counts(f[1 .. n], v, n) /\ n < Len(v)
    BY <1>1, <1>2, <1>4
  <2> QED BY <2>1, CountOneMore
<1>5. Counts(f[1 .. Len(v)], v, Len(v))
  <2>1. Len(v) \in T
    <3> HIDE DEF T
    <3> QED BY <1>2, <1>3, <1>4, NatInd
  <2> QED BY <1>2, <2>1
<1>6. CountedUpTo(v, Len(v)) = Counted(v)
  BY <1>2 DEF CountedUpTo, Counted, Days
<1> QED BY <1>1, <1>5, <1>6 DEF Counts, PrevSessions

-----------------------------------------------------------------------------
(* Tally and the tables                                                     *)

\* The sum of a column with one more row.
LEMMA SumAppend ==
  ASSUME NEW n \in Nat, NEW q, DOMAIN q = 1 .. n, NEW r, DOMAIN r = 1 .. n + 1,
         \A i \in 1 .. n : q[i] \in Int /\ r[i] = q[i], r[n + 1] \in Int
  PROVE  SumFunction(q) \in Int /\ SumFunction(r) = SumFunction(q) + r[n + 1]
<1> DEFINE S == 1 .. n
           U == 1 .. n + 1
<1>1. IsFiniteSet(S) /\ IsFiniteSet(U)
  BY FS_Interval
<1>2. n + 1 \in U /\ U \ {n + 1} = S /\ \A i \in U : r[i] \in Int
  OBVIOUS
<1> HIDE DEF S, U
<1>3. SumFunctionOnSet(r, U) = r[n + 1] + SumFunctionOnSet(r, S)
  BY <1>1, <1>2, SumFacts
<1>4. \A i \in S : q[i] \in Int /\ q[i] = r[i]
  BY DEF S
<1>5. SumFunctionOnSet(r, S) = SumFunctionOnSet(q, S) /\ SumFunctionOnSet(q, S) \in Int
  BY <1>1, <1>4, SumSame, SumFacts
<1>6. SumFunctionOnSet(q, S) = SumFunction(q) /\ SumFunctionOnSet(r, U) = SumFunction(r)
  BY DEF SumFunction, S, U
<1> QED BY <1>3, <1>5, <1>6

\* A return is a number.
LEMMA PctType == ASSUME NEW e \in Entries, NEW x \in ExitPrices PROVE Pct(e, x) \in Int
BY TradesAssumption DEF Pct

\* The columns of a table have numbers, one a row.
LEMMA RowType ==
  ASSUME NEW q \in Seq(Trade)
  PROVE  /\ Len(q) \in Nat /\ DOMAIN q = 1 .. Len(q)
         /\ DOMAIN Gains(q) = 1 .. Len(q) /\ DOMAIN Returns(q) = 1 .. Len(q)
         /\ DOMAIN Spent(q) = 1 .. Len(q)
         /\ \A i \in 1 .. Len(q) :
              /\ q[i] \in Trade
              /\ Gains(q)[i] = q[i].exit - q[i].entry /\ Gains(q)[i] \in Int
              /\ Returns(q)[i] = Pct(q[i].entry, q[i].exit) /\ Returns(q)[i] \in Int
              /\ Spent(q)[i] = q[i].entry /\ Spent(q)[i] \in Int
<1>1. Len(q) \in Nat /\ DOMAIN q = 1 .. Len(q) /\ \A i \in 1 .. Len(q) : q[i] \in Trade
  BY LenProperties, ElementOfSeq
<1>2. \A t \in Trade : /\ t.exit - t.entry \in Int /\ t.entry \in Int
                       /\ t.entry \in Entries /\ t.exit \in ExitPrices
  <2> SUFFICES ASSUME NEW t \in Trade
               PROVE  /\ t.exit - t.entry \in Int /\ t.entry \in Int
                      /\ t.entry \in Entries /\ t.exit \in ExitPrices
    OBVIOUS
  <2>1. t.entry \in Entries /\ t.exit \in ExitPrices
    BY DEF Trade
  <2>2. (\A x \in Entries : x \in Int) /\ \A x \in ExitPrices : x \in Int
    BY TradesAssumption
  <2> QED BY <2>1, <2>2
<1>3. \A t \in Trade : Pct(t.entry, t.exit) \in Int
  BY <1>2, PctType
<1> QED BY <1>1, <1>2, <1>3 DEF Gains, Returns, Spent

\* a holds the totals of the rows q.
AddsUp(a, q) ==
  /\ a.wins \in Nat /\ a.losses \in Nat /\ a.timeExits \in Nat
  /\ a.won \in Int /\ a.lost \in Int /\ a.best \in Int /\ a.worst \in Int
  /\ a.wins + a.losses = Len(q)
  /\ a.losses = Cardinality(Negative(q))
  /\ a.timeExits = Cardinality(TimedOut(q))
  /\ a.pnl = SumFunction(Gains(q))
  /\ a.won + a.lost = a.pnl /\ a.lost <= 0
  /\ a.pct = SumFunction(Returns(q))
  /\ a.notional = SumFunction(Spent(q))
  /\ a.first <=> Len(q) = 0
  /\ ~a.first => /\ \E i \in 1 .. Len(q) : Returns(q)[i] = a.best
                 /\ \E i \in 1 .. Len(q) : Returns(q)[i] = a.worst
                 /\ \A i \in 1 .. Len(q) : a.worst <= Returns(q)[i] /\ Returns(q)[i] <= a.best

\* There are finitely many rows of each kind.
LEMMA FiniteRows ==
  ASSUME NEW q \in Seq(Trade)
  PROVE  /\ IsFiniteSet(Negative(q)) /\ Cardinality(Negative(q)) \in Nat
         /\ IsFiniteSet(TimedOut(q)) /\ Cardinality(TimedOut(q)) \in Nat
         /\ Cardinality(TimedOut(q)) <= Len(q)
<1> DEFINE S == 1 .. Len(q)
<1>1. Len(q) \in Nat /\ Negative(q) \in SUBSET S /\ TimedOut(q) \in SUBSET S
  BY RowType DEF Negative, TimedOut
<1>2. IsFiniteSet(S) /\ Cardinality(S) = Len(q)
  BY <1>1, FS_Interval, SMTT(30)
<1> HIDE DEF S
<1> QED BY <1>1, <1>2, FS_Subset, FS_CardinalityType

\* No rows yet.
LEMMA EmptyAddsUp == AddsUp(NoSums, <<>>)
<1>1. <<>> \in Seq(Trade) /\ Len(<<>>) = 0 /\ 1 .. 0 = {}
  BY EmptySeq
<1>2. /\ DOMAIN Gains(<<>>) = {} /\ DOMAIN Returns(<<>>) = {} /\ DOMAIN Spent(<<>>) = {}
      /\ Negative(<<>>) = {} /\ TimedOut(<<>>) = {}
  BY <1>1, RowType DEF Negative, TimedOut
<1>3. /\ SumFunction(Gains(<<>>)) = 0 /\ SumFunction(Returns(<<>>)) = 0
      /\ SumFunction(Spent(<<>>)) = 0
  BY <1>2, SumFacts, FS_EmptySet DEF SumFunction
<1>4. Cardinality(Negative(<<>>)) = 0 /\ Cardinality(TimedOut(<<>>)) = 0
  BY <1>2, FS_EmptySet, Zenon
<1>5. NoSums.first = TRUE
  BY DEF NoSums
<1>6. /\ NoSums.wins = 0 /\ NoSums.losses = 0 /\ NoSums.timeExits = 0 /\ NoSums.won = 0
      /\ NoSums.lost = 0 /\ NoSums.best = 0 /\ NoSums.worst = 0 /\ NoSums.pnl = 0
      /\ NoSums.pct = 0 /\ NoSums.notional = 0
  BY DEF NoSums
<1> QED BY <1>1, <1>3, <1>4, <1>5, <1>6 DEF AddsUp

\* One more row: what the body of the loop over the tickers keeps.
LEMMA TallyAddsUp ==
  ASSUME NEW q \in Seq(Trade), NEW a, AddsUp(a, q), NEW t \in Trade
  PROVE  AddsUp(Tally(a, t.entry, t.exit, t.reason), Append(q, t))
<1> DEFINE n == Len(q)
           r == Append(q, t)
           c == Tally(a, t.entry, t.exit, t.reason)
           amt == t.exit - t.entry
           pct == Pct(t.entry, t.exit)
<1>1. r \in Seq(Trade) /\ n \in Nat /\ Len(r) = n + 1 /\ r[n + 1] = t
      /\ \A i \in 1 .. n : r[i] = q[i]
  BY LenProperties, AppendProperties
<1>3. /\ Gains(r)[n + 1] = amt /\ Returns(r)[n + 1] = pct /\ Spent(r)[n + 1] = t.entry
      /\ \A i \in 1 .. n : /\ Gains(r)[i] = Gains(q)[i] /\ Returns(r)[i] = Returns(q)[i]
                           /\ Spent(r)[i] = Spent(q)[i]
  <2>1. ASSUME NEW i \in 1 .. n
        PROVE  /\ Gains(r)[i] = Gains(q)[i] /\ Returns(r)[i] = Returns(q)[i]
               /\ Spent(r)[i] = Spent(q)[i]
    <3>1. i \in 1 .. Len(r) /\ r[i] = q[i]
      BY <1>1
    <3> HIDE DEF r
    <3> QED BY <1>1, <3>1, RowType, ZenonT(60)
  <2>2. n + 1 \in 1 .. Len(r)
    BY <1>1
  <2> HIDE DEF r
  <2>3. Gains(r)[n + 1] = amt /\ Returns(r)[n + 1] = pct /\ Spent(r)[n + 1] = t.entry
    BY <1>1, <2>2, RowType
  <2> QED BY <2>1, <2>3
<1> HIDE DEF r
<1>2. amt \in Int /\ pct \in Int /\ t.entry \in Int
  <2>1. n + 1 \in 1 .. Len(r)
    BY <1>1
  <2>2. Gains(r)[n + 1] \in Int /\ Returns(r)[n + 1] \in Int /\ Spent(r)[n + 1] \in Int
    BY <1>1, <2>1, RowType
  <2> HIDE DEF amt, pct
  <2> QED BY <1>3, <2>2
<1> HIDE DEF amt, pct
<1>4. /\ SumFunction(Gains(r)) = SumFunction(Gains(q)) + amt /\ SumFunction(Gains(q)) \in Int
      /\ SumFunction(Returns(r)) = SumFunction(Returns(q)) + pct /\ SumFunction(Returns(q)) \in Int
      /\ SumFunction(Spent(r)) = SumFunction(Spent(q)) + t.entry /\ SumFunction(Spent(q)) \in Int
  <2>1. /\ DOMAIN Gains(r) = 1 .. n + 1 /\ DOMAIN Returns(r) = 1 .. n + 1
        /\ DOMAIN Spent(r) = 1 .. n + 1
    BY <1>1, RowType
  <2>3. SumFunction(Gains(r)) = SumFunction(Gains(q)) + amt /\ SumFunction(Gains(q)) \in Int
    <3> DEFINE u == Gains(q)
               v == Gains(r)
    <3>1. /\ DOMAIN u = 1 .. n /\ DOMAIN v = 1 .. n + 1
          /\ \A i \in 1 .. n : u[i] \in Int /\ v[i] = u[i]
          /\ v[n + 1] = amt /\ v[n + 1] \in Int
      BY <1>2, <1>3, <2>1, RowType
    <3> HIDE DEF u, v
    <3>2. SumFunction(u) \in Int /\ SumFunction(v) = SumFunction(u) + v[n + 1]
      BY <1>1, <3>1, SumAppend
    <3> QED BY <3>1, <3>2 DEF u, v
  <2>4. SumFunction(Returns(r)) = SumFunction(Returns(q)) + pct /\ SumFunction(Returns(q)) \in Int
    <3> DEFINE u == Returns(q)
               v == Returns(r)
    <3>1. /\ DOMAIN u = 1 .. n /\ DOMAIN v = 1 .. n + 1
          /\ \A i \in 1 .. n : u[i] \in Int /\ v[i] = u[i]
          /\ v[n + 1] = pct /\ v[n + 1] \in Int
      BY <1>2, <1>3, <2>1, RowType
    <3> HIDE DEF u, v
    <3>2. SumFunction(u) \in Int /\ SumFunction(v) = SumFunction(u) + v[n + 1]
      BY <1>1, <3>1, SumAppend
    <3> QED BY <3>1, <3>2 DEF u, v
  <2>5. SumFunction(Spent(r)) = SumFunction(Spent(q)) + t.entry /\ SumFunction(Spent(q)) \in Int
    <3> DEFINE u == Spent(q)
               v == Spent(r)
    <3>1. /\ DOMAIN u = 1 .. n /\ DOMAIN v = 1 .. n + 1
          /\ \A i \in 1 .. n : u[i] \in Int /\ v[i] = u[i]
          /\ v[n + 1] = t.entry /\ v[n + 1] \in Int
      BY <1>2, <1>3, <2>1, RowType
    <3> HIDE DEF u, v
    <3>2. SumFunction(u) \in Int /\ SumFunction(v) = SumFunction(u) + v[n + 1]
      BY <1>1, <3>1, SumAppend
    <3> QED BY <3>1, <3>2 DEF u, v
  <2> QED BY <2>3, <2>4, <2>5
<1>5. Negative(r) = IF amt < 0 THEN Negative(q) \cup {n + 1} ELSE Negative(q)
  <2>1. DOMAIN r = 1 .. n + 1 /\ DOMAIN q = 1 .. n
    BY <1>1, RowType
  <2> QED BY <1>1, <1>3, <2>1 DEF Negative
<1>6. TimedOut(r) = IF t.reason = "TIME_EXIT" THEN TimedOut(q) \cup {n + 1} ELSE TimedOut(q)
  <2>1. DOMAIN r = 1 .. n + 1 /\ DOMAIN q = 1 .. n
    BY <1>1, RowType
  <2> QED BY <1>1, <2>1 DEF TimedOut
<1>7. n + 1 \notin Negative(q) /\ n + 1 \notin TimedOut(q)
  BY <1>1, RowType DEF Negative, TimedOut
<1>8. /\ Cardinality(Negative(r)) = IF amt < 0 THEN a.losses + 1 ELSE a.losses
      /\ Cardinality(TimedOut(r)) = IF t.reason = "TIME_EXIT" THEN a.timeExits + 1 ELSE a.timeExits
  <2>1. a.losses = Cardinality(Negative(q)) /\ a.timeExits = Cardinality(TimedOut(q))
    BY DEF AddsUp
  <2>2. IsFiniteSet(Negative(q)) /\ IsFiniteSet(TimedOut(q))
    BY FiniteRows
  <2>3. /\ Cardinality(Negative(q) \cup {n + 1}) = Cardinality(Negative(q)) + 1
        /\ Cardinality(TimedOut(q) \cup {n + 1}) = Cardinality(TimedOut(q)) + 1
    BY <1>7, <2>2, FS_AddElement
  <2> QED BY <1>5, <1>6, <2>1, <2>3
<1>9. /\ c.pnl = a.pnl + amt /\ c.pct = a.pct + pct /\ c.notional = a.notional + t.entry
      /\ c.won = IF amt >= 0 THEN a.won + amt ELSE a.won
      /\ c.lost = IF amt >= 0 THEN a.lost ELSE a.lost + amt
      /\ c.wins = IF amt >= 0 THEN a.wins + 1 ELSE a.wins
      /\ c.losses = IF amt >= 0 THEN a.losses ELSE a.losses + 1
      /\ c.timeExits = IF t.reason = "TIME_EXIT" THEN a.timeExits + 1 ELSE a.timeExits
      /\ c.best = IF a.first \/ pct > a.best THEN pct ELSE a.best
      /\ c.worst = IF a.first \/ pct < a.worst THEN pct ELSE a.worst
      /\ c.first = FALSE
  BY Zenon DEF Tally, amt, pct
<1>a. /\ a.wins \in Nat /\ a.losses \in Nat /\ a.timeExits \in Nat /\ a.wins + a.losses = n
      /\ a.won \in Int /\ a.lost \in Int /\ a.lost <= 0 /\ a.won + a.lost = a.pnl
      /\ a.pnl = SumFunction(Gains(q)) /\ a.pct = SumFunction(Returns(q))
      /\ a.notional = SumFunction(Spent(q))
  BY DEF AddsUp
<1> HIDE DEF c
<1>10. /\ c.wins \in Nat /\ c.losses \in Nat /\ c.wins + c.losses = n + 1
       /\ c.losses = Cardinality(Negative(r))
  <2>1. CASE amt >= 0
    <3>1. c.wins = a.wins + 1 /\ c.losses = a.losses
      BY <1>9, <2>1
    <3>2. ~(amt < 0)
      BY <1>2, <2>1
    <3>3. Cardinality(Negative(r)) = a.losses
      BY <1>8, <3>2
    <3> QED BY <1>1, <1>a, <3>1, <3>3
  <2>2. CASE ~(amt >= 0)
    <3>1. c.wins = a.wins /\ c.losses = a.losses + 1
      BY <1>9, <2>2
    <3>2. amt < 0
      BY <1>2, <2>2
    <3>3. Cardinality(Negative(r)) = a.losses + 1
      BY <1>8, <3>2
    <3> QED BY <1>1, <1>a, <3>1, <3>3, SMTT(30)
  <2> QED BY <2>1, <2>2
<1>11. c.timeExits \in Nat /\ c.timeExits = Cardinality(TimedOut(r))
  BY <1>8, <1>9, <1>a
<1>12. /\ c.won \in Int /\ c.lost \in Int /\ c.lost <= 0 /\ c.won + c.lost = c.pnl
  <2>1. CASE amt >= 0
    BY <1>2, <1>9, <1>a, <2>1, SMTT(30)
  <2>2. CASE ~(amt >= 0)
    BY <1>2, <1>9, <1>a, <2>2, SMTT(30)
  <2> QED BY <2>1, <2>2
<1>13. /\ c.pnl = SumFunction(Gains(r))
       /\ c.pct = SumFunction(Returns(r)) /\ c.notional = SumFunction(Spent(r))
  BY <1>4, <1>9, <1>a
<1>14. /\ c.best \in Int /\ c.worst \in Int
       /\ \E i \in 1 .. n + 1 : Returns(r)[i] = c.best
       /\ \E i \in 1 .. n + 1 : Returns(r)[i] = c.worst
       /\ \A i \in 1 .. n + 1 : c.worst <= Returns(r)[i] /\ Returns(r)[i] <= c.best
  <2>1. \A i \in 1 .. n : Returns(q)[i] \in Int
    BY RowType
  <2>2. n + 1 \in 1 .. n + 1 /\ \A i \in 1 .. n + 1 : i \in 1 .. n \/ i = n + 1
    BY <1>1
  <2>3. \A i \in 1 .. n : i \in 1 .. n + 1
    BY <1>1
  <2>4. CASE a.first
    <3>1. n = 0 /\ c.best = pct /\ c.worst = pct
      BY <1>9, <2>4 DEF AddsUp
    <3>2. \A i \in 1 .. n + 1 : i = n + 1
      BY <3>1
    <3> QED BY <1>2, <1>3, <2>2, <3>1, <3>2
  <2>5. CASE ~a.first
    <3>1. /\ c.best = IF pct > a.best THEN pct ELSE a.best
          /\ c.worst = IF pct < a.worst THEN pct ELSE a.worst
          /\ a.best \in Int /\ a.worst \in Int
      BY <1>9, <2>5 DEF AddsUp
    <3>2. /\ \E i \in 1 .. n : Returns(r)[i] = a.best
          /\ \E i \in 1 .. n : Returns(r)[i] = a.worst
          /\ \A i \in 1 .. n : a.worst <= Returns(r)[i] /\ Returns(r)[i] <= a.best /\ Returns(r)[i] \in Int
      BY <1>3, <2>1, <2>5 DEF AddsUp
    <3>3. \E i \in 1 .. n + 1 : Returns(r)[i] = c.best
      BY <1>3, <2>2, <2>3, <3>1, <3>2
    <3>4. \E i \in 1 .. n + 1 : Returns(r)[i] = c.worst
      BY <1>3, <2>2, <2>3, <3>1, <3>2
    <3>5. ASSUME NEW i \in 1 .. n + 1 PROVE c.worst <= Returns(r)[i] /\ Returns(r)[i] <= c.best
      <4> DEFINE x == Returns(r)[i]
      <4>1. x = pct \/ (x \in Int /\ a.worst <= x /\ x <= a.best)
        BY <1>3, <2>2, <3>2
      <4> HIDE DEF x
      <4>2. c.worst <= x /\ x <= c.best
        BY <1>2, <3>1, <4>1
      <4> QED BY <4>2 DEF x
    <3> QED BY <1>2, <3>1, <3>3, <3>4, <3>5
  <2> QED BY <2>4, <2>5
<1>15. Len(r) = n + 1 /\ ~(Len(r) = 0) /\ ~c.first
  BY <1>1, <1>9
<1> HIDE DEF n
<1>16. AddsUp(c, r)
  BY <1>10, <1>11, <1>12, <1>13, <1>14, <1>15 DEF AddsUp
<1> QED
  BY <1>16 DEF c, r

\* The sum of a column with its rows in another order.
LEMMA ColumnPermuted ==
  ASSUME NEW n \in Nat, NEW u, NEW v, DOMAIN u = 1 .. n, DOMAIN v = 1 .. n,
         \A i \in 1 .. n : u[i] \in Int, NEW p \in Bijection(1 .. n, 1 .. n),
         \A i \in 1 .. n : v[i] = u[p[i]]
  PROVE  SumFunction(v) = SumFunction(u)
<1> DEFINE S == 1 .. n
<1>1. IsFiniteSet(S)
  BY FS_Interval
<1>2. p \in Bijection(S, S) /\ (\A i \in S : u[i] \in Int) /\ \A i \in S : v[i] = u[p[i]]
  OBVIOUS
<1> HIDE DEF S
<1>3. SumFunctionOnSet(v, S) = SumFunctionOnSet(u, S)
  BY <1>1, <1>2, SumPermuted
<1> QED BY <1>3 DEF SumFunction, S

\* Sorting the rows leaves the totals right.
LEMMA SortedAddsUp ==
  ASSUME NEW q \in Seq(Trade), NEW a, AddsUp(a, q), NEW p \in Bijection(1 .. Len(q), 1 .. Len(q)),
         NEW r, r = [i \in DOMAIN q |-> q[p[i]]]
  PROVE  r \in Seq(Trade) /\ Len(r) = Len(q) /\ AddsUp(a, r)
<1> DEFINE n == Len(q)
           S == 1 .. n
<1>1. /\ n \in Nat /\ DOMAIN q = S /\ \A i \in S : q[i] \in Trade
      /\ IsFiniteSet(S)
  BY RowType, FS_Interval
<1>2. p \in [S -> S] /\ (\A i, j \in S : p[i] = p[j] => i = j) /\ \A j \in S : \E i \in S : p[i] = j
  BY DEF Bijection, Injection, Surjection, IsInjective
<1>3. r \in [1 .. n -> Trade]
  BY <1>1, <1>2
<1>4. r \in Seq(Trade) /\ Len(r) = n
  <2> HIDE DEF n
  <2> QED BY <1>1, <1>3, SeqDef, LenProperties
<1>5. \A i \in S : /\ r[i] = q[p[i]]
                   /\ Gains(r)[i] = Gains(q)[p[i]] /\ Returns(r)[i] = Returns(q)[p[i]]
                   /\ Spent(r)[i] = Spent(q)[p[i]]
  <2> SUFFICES ASSUME NEW i \in S
               PROVE  /\ r[i] = q[p[i]]
                      /\ Gains(r)[i] = Gains(q)[p[i]] /\ Returns(r)[i] = Returns(q)[p[i]]
                      /\ Spent(r)[i] = Spent(q)[p[i]]
    OBVIOUS
  <2>1. p[i] \in 1 .. Len(q) /\ i \in 1 .. Len(r) /\ r[i] = q[p[i]]
    BY <1>1, <1>2, <1>4
  <2> QED BY <1>4, <2>1, RowType
<1>6. /\ DOMAIN Gains(q) = S /\ DOMAIN Returns(q) = S /\ DOMAIN Spent(q) = S
      /\ DOMAIN Gains(r) = S /\ DOMAIN Returns(r) = S /\ DOMAIN Spent(r) = S
      /\ DOMAIN r = S
      /\ \A i \in S : Gains(q)[i] \in Int /\ Returns(q)[i] \in Int /\ Spent(q)[i] \in Int
  BY <1>4, RowType
<1> HIDE DEF S
<1>7. SumFunction(Gains(r)) = SumFunction(Gains(q))
  <2> DEFINE u == Gains(q)
             v == Gains(r)
  <2>1. /\ DOMAIN u = S /\ DOMAIN v = S
        /\ (\A i \in S : u[i] \in Int) /\ \A i \in S : v[i] = u[p[i]]
    BY <1>5, <1>6
  <2> HIDE DEF u, v
  <2>2. SumFunction(v) = SumFunction(u)
    BY <1>1, <2>1, ColumnPermuted DEF S
  <2> QED BY <2>2 DEF u, v
<1>8. SumFunction(Returns(r)) = SumFunction(Returns(q))
  <2> DEFINE u == Returns(q)
             v == Returns(r)
  <2>1. /\ DOMAIN u = S /\ DOMAIN v = S
        /\ (\A i \in S : u[i] \in Int) /\ \A i \in S : v[i] = u[p[i]]
    BY <1>5, <1>6
  <2> HIDE DEF u, v
  <2>2. SumFunction(v) = SumFunction(u)
    BY <1>1, <2>1, ColumnPermuted DEF S
  <2> QED BY <2>2 DEF u, v
<1>9. SumFunction(Spent(r)) = SumFunction(Spent(q))
  <2> DEFINE u == Spent(q)
             v == Spent(r)
  <2>1. /\ DOMAIN u = S /\ DOMAIN v = S
        /\ (\A i \in S : u[i] \in Int) /\ \A i \in S : v[i] = u[p[i]]
    BY <1>5, <1>6
  <2> HIDE DEF u, v
  <2>2. SumFunction(v) = SumFunction(u)
    BY <1>1, <2>1, ColumnPermuted DEF S
  <2> QED BY <2>2 DEF u, v
<1>10. Cardinality(Negative(r)) = Cardinality(Negative(q))
  <2> DEFINE A == Negative(r)
             B == Negative(q)
             f == [i \in A |-> p[i]]
  <2>1. A = {i \in S : Gains(q)[p[i]] < 0} /\ B = {i \in S : Gains(q)[i] < 0}
    BY <1>1, <1>5, <1>6 DEF Negative
  <2> HIDE DEF A, B
  <2>2. f \in Bijection(A, B)
    BY <1>2, <2>1, ZenonT(60) DEF Bijection, Injection, Surjection, IsInjective
  <2>3. IsFiniteSet(A)
    BY <1>4, FiniteRows DEF A
  <2> QED BY <2>2, <2>3, FS_Bijection DEF A, B, ExistsBijection
<1>11. Cardinality(TimedOut(r)) = Cardinality(TimedOut(q))
  <2> DEFINE A == TimedOut(r)
             B == TimedOut(q)
             f == [i \in A |-> p[i]]
  <2>1. A = {i \in S : q[p[i]].reason = "TIME_EXIT"} /\ B = {i \in S : q[i].reason = "TIME_EXIT"}
    BY <1>1, <1>5, <1>6 DEF TimedOut
  <2> HIDE DEF A, B
  <2>2. f \in Bijection(A, B)
    BY <1>2, <2>1, ZenonT(60) DEF Bijection, Injection, Surjection, IsInjective
  <2>3. IsFiniteSet(A)
    BY <1>4, FiniteRows DEF A
  <2> QED BY <2>2, <2>3, FS_Bijection DEF A, B, ExistsBijection
<1>12. ~a.first => /\ \E i \in S : Returns(r)[i] = a.best
                   /\ \E i \in S : Returns(r)[i] = a.worst
                   /\ \A i \in S : a.worst <= Returns(r)[i] /\ Returns(r)[i] <= a.best
  <2> SUFFICES ASSUME ~a.first
               PROVE  /\ \E i \in S : Returns(r)[i] = a.best
                      /\ \E i \in S : Returns(r)[i] = a.worst
                      /\ \A i \in S : a.worst <= Returns(r)[i] /\ Returns(r)[i] <= a.best
    OBVIOUS
  <2>1. /\ \E i \in S : Returns(q)[i] = a.best
        /\ \E i \in S : Returns(q)[i] = a.worst
        /\ \A i \in S : a.worst <= Returns(q)[i] /\ Returns(q)[i] <= a.best
    BY DEF AddsUp, S
  <2> DEFINE u == Returns(q)
             v == Returns(r)
  <2>2. \A i \in S : v[i] = u[p[i]]
    BY <1>5
  <2> HIDE DEF u, v
  <2>3. ASSUME NEW x, \E i \in S : u[i] = x PROVE \E i \in S : v[i] = x
    <3>1. PICK j \in S : u[j] = x
      BY <2>3
    <3>2. PICK i \in S : p[i] = j
      BY <1>2
    <3> QED BY <2>2, <3>1, <3>2
  <2>4. \A i \in S : a.worst <= v[i] /\ v[i] <= a.best
    BY <1>2, <2>1, <2>2 DEF u
  <2> QED BY <2>1, <2>3, <2>4 DEF u, v
<1>13. AddsUp(a, r)
  BY <1>4, <1>7, <1>8, <1>9, <1>10, <1>11, <1>12 DEF AddsUp, S
<1> QED BY <1>4, <1>13

-----------------------------------------------------------------------------
(* The pools                                                                *)

Account ==
  /\ answered \subseteq todo
  /\ unfed \subseteq todo \ answered
  /\ \A w \in Workers : job[w] # NoItem => job[w] \in todo \ (answered \cup unfed)
  /\ \A v, w \in Workers : job[v] = job[w] /\ job[v] # NoItem => v = w
  /\ \A i \in todo : i \in answered \cup unfed \/ \E w \in Workers : job[w] = i

Shutdown ==
  /\ ~ranging => resultsClosed
  /\ resultsClosed => working = {}
  /\ working # Workers => jobsClosed
  /\ jobsClosed => unfed = {} \/ ctxDone
  /\ \A w \in Workers : w \notin working => job[w] = NoItem

PoolInv == PoolTypeOK /\ Account /\ Shutdown

\* The safety of ParallelMap.
MapStep == [Map!Next]_(Map!mapVars)

\* Nobody works for a pool over whose results nobody ranges.
LEMMA RestingPool ==
  ASSUME PoolInv, ~ranging PROVE job = [w \in Workers |-> NoItem]
BY DEF PoolInv, PoolTypeOK, Shutdown

LEMMA StartStep ==
  ASSUME PoolInv, NEW batch \in SUBSET Items, Start(batch) PROVE PoolInv' /\ Map!Begin(batch)
<1> USE NoItemAssumption DEF Start
<1>1. job = [w \in Workers |-> NoItem] /\ job' = job
  BY RestingPool
<1>2. PoolTypeOK'
  BY DEF PoolInv, PoolTypeOK
<1>3. Account'
  BY <1>1 DEF Account
<1>4. Shutdown'
  BY <1>1 DEF Shutdown
<1>5. Map!Begin(batch)
  BY DEF Map!Begin
<1> QED
  BY <1>2, <1>3, <1>4, <1>5 DEF PoolInv

LEMMA FeedStep ==
  ASSUME PoolInv, NEW w \in Workers, NEW i \in unfed, Feed(w, i)
  PROVE  PoolInv' /\ UNCHANGED Map!mapVars
<1> USE NoItemAssumption DEF Feed, callerVars
<1>1. i \in Items /\ i # NoItem
  BY DEF PoolInv, PoolTypeOK
<1>2. PoolTypeOK'
  BY <1>1 DEF PoolInv, PoolTypeOK
<1>3. Account'
  BY <1>1 DEF PoolInv, PoolTypeOK, Account
<1>4. Shutdown'
  BY <1>1 DEF PoolInv, PoolTypeOK, Shutdown
<1> QED
  BY <1>2, <1>3, <1>4 DEF PoolInv, Map!mapVars

LEMMA DeliverStep ==
  ASSUME PoolInv, NEW w \in Workers, NEW ok \in BOOLEAN, Deliver(w, ok)
  PROVE  PoolInv' /\ \E i \in Items : Map!Answer(i)
<1> USE NoItemAssumption DEF Deliver
<1>1. job[w] \in todo \ answered /\ job[w] \in Items
  BY DEF PoolInv, PoolTypeOK, Account
<1>2. PoolTypeOK'
  BY <1>1 DEF PoolInv, PoolTypeOK
<1>3. Account'
  BY <1>1 DEF PoolInv, PoolTypeOK, Account
<1>4. Shutdown'
  BY <1>1 DEF PoolInv, PoolTypeOK, Shutdown
<1>5. Map!Answer(job[w])
  BY <1>1 DEF Map!Answer
<1> QED
  BY <1>1, <1>2, <1>3, <1>4, <1>5 DEF PoolInv

LEMMA EndingStep ==
  ASSUME PoolInv, FeederEnds \/ CloseResults \/ \E w \in Workers : WorkerEnds(w)
  PROVE  PoolInv' /\ UNCHANGED Map!mapVars
<1> USE DEF PoolInv, PoolTypeOK, Account, Shutdown, callerVars, Map!mapVars
<1>1. CASE FeederEnds
  BY <1>1 DEF FeederEnds
<1>2. CASE CloseResults
  BY <1>2 DEF CloseResults
<1>3. ASSUME NEW w \in Workers, WorkerEnds(w) PROVE PoolInv' /\ UNCHANGED Map!mapVars
  BY <1>3 DEF WorkerEnds
<1> QED
  BY <1>1, <1>2, <1>3

\* When results is closed the workers have ended, hence jobs was closed before:
\* what has not been answered was never fed.
LEMMA RangeStep == ASSUME PoolInv, RangeEnds PROVE PoolInv' /\ Map!End
<1>1. PoolInv'
  BY DEF RangeEnds, poolVars, PoolInv, PoolTypeOK, Account, Shutdown
<1>2. working = {} /\ working # Workers
  BY WorkersAssumption DEF RangeEnds, PoolInv, Shutdown
<1>3. /\ unfed = {} \/ ctxDone
      /\ \A w \in Workers : job[w] = NoItem
  BY <1>2 DEF PoolInv, Shutdown
<1>4. answered = todo \/ ctxDone
  BY <1>3, NoItemAssumption DEF PoolInv, PoolTypeOK, Account
<1> QED
  BY <1>1, <1>4 DEF RangeEnds, Map!End

LEMMA CancelStep == ASSUME PoolInv, Cancel PROVE PoolInv' /\ Map!Cancel
BY DEF Cancel, callerVars, poolVars, PoolInv, PoolTypeOK, Account, Shutdown, Map!Cancel

LEMMA PoolStutter ==
  ASSUME PoolInv, UNCHANGED <<callerVars, ctxDone, poolVars>>
  PROVE  PoolInv' /\ UNCHANGED Map!mapVars
BY DEF callerVars, poolVars, PoolInv, PoolTypeOK, Account, Shutdown, Map!mapVars

-----------------------------------------------------------------------------
(* The scan: the two maps of answers decide what is known of a symbol        *)

\* What an answer of bars says, as Lows, Closes, Drop and Fell say it of the
\* symbol it came for.
LowsOf(b) == {x \in {b[k].low : k \in DOMAIN b} : x > 0}
ClosesOf(b) == {x \in {b[k].close : k \in DOMAIN b} : x > 0}
DropOf(b) == OpenPrice - Min(LowsOf(b))
FallIn(b) == LowsOf(b) # {} /\ ClosesOf(b) # {} /\ DropOf(b) >= DropMin

\* What an answer of volumes says, as Busy does.
BusyIn(v) == OpenVol * 100 * Cardinality(Counted(v)) >= TodayMin * SumFunctionOnSet(v, Counted(v))

AnswersInv ==
  /\ eligible \in SUBSET Items /\ failed1 \in SUBSET eligible
  /\ DOMAIN bars \in SUBSET eligible /\ \A s \in DOMAIN bars : bars[s] \in Bars
  /\ DOMAIN volumes \in SUBSET DOMAIN pre /\ \A s \in DOMAIN volumes : volumes[s] \in Volumes
  /\ DOMAIN pre = {s \in DOMAIN bars : FallIn(bars[s])}
  /\ \A s \in DOMAIN pre : pre[s] = DropOf(bars[s]) /\ pre[s] \in Int

ListInv ==
  /\ soldOff \in Seq(DOMAIN volumes)
  /\ Range(soldOff) = {s \in DOMAIN volumes : BusyIn(volumes[s])}
  /\ \A i, j \in DOMAIN soldOff : soldOff[i] = soldOff[j] => i = j

\* Ahead, for drops d.
InOrder(d, s, t) == d[s] > d[t] \/ (d[s] = d[t] /\ s < t)

\* Which batch is being answered, and what has been asked for at its end.
StageInv ==
  /\ stage \in Stages
  /\ stage = "open" => eligible = {}
  /\ stage \in {"open", "lows"} => DOMAIN volumes = {}
  /\ stage = "lows" => todo = eligible /\ answered = failed1 \cup DOMAIN bars
  /\ stage = "history" =>
       /\ todo = DOMAIN pre /\ answered = failed \cup DOMAIN volumes
       /\ ctxDone \/ eligible \subseteq failed1 \cup DOMAIN bars
  /\ stage \in {"report", "done"} =>
       /\ cancelled \/ (/\ eligible \subseteq failed1 \cup DOMAIN bars
                        /\ DOMAIN pre \subseteq failed \cup DOMAIN volumes)
       /\ \A i, j \in DOMAIN soldOff : i < j => InOrder(pre, soldOff[i], soldOff[j])

ScanInv == AnswersInv /\ ListInv /\ StageInv

\* At the end of a range every item of the batch has been answered, unless the
\* context is done.
LEMMA AllAnswered == ASSUME PoolInv, ~ranging PROVE answered = todo \/ ctxDone
<1>0. working = {} /\ resultsClosed
  BY DEF PoolInv, Shutdown
<1>1. jobsClosed /\ \A w \in Workers : job[w] = NoItem
  BY <1>0, WorkersAssumption DEF PoolInv, Shutdown
<1>2. unfed = {} \/ ctxDone
  BY <1>1 DEF PoolInv, Shutdown
<1> QED BY <1>1, <1>2, NoItemAssumption DEF PoolInv, PoolTypeOK, Account

LEMMA ListOfNothing == ASSUME ScanInv, DOMAIN volumes = {} PROVE DOMAIN soldOff = {}
<1>1. soldOff \in Seq({})
  BY DEF ScanInv, ListInv
<1>2. \A i \in 1 .. Len(soldOff) : soldOff[i] \in {}
  BY <1>1, ElementOfSeq
<1> QED BY <1>1, <1>2, LenProperties

\* The low and the drop that the worker reports are those of the answer.
LEMMA AnswerFell ==
  ASSUME NEW b \in Bars
  PROVE  LET r == MinLowAndLastClose(b)
         IN  /\ r.ok /\ OpenPrice - r.low >= DropMin <=> FallIn(b)
             /\ FallIn(b) => OpenPrice - r.low = DropOf(b)
             /\ OpenPrice - r.low \in Int
<1>1. b \in Seq([low : Int, close : Int])
  BY AnswersAssumption
<1>2. OpenPrice \in Int
  BY FiltersAssumption
<1> DEFINE r == MinLowAndLastClose(b)
           L == LowsOf(b)
           C == ClosesOf(b)
<1>3. r.low \in Nat /\ (r.ok <=> L # {} /\ C # {}) /\ (r.ok => r.low = Min(L))
  BY <1>1, MinLowIsRight DEF LowsOf, ClosesOf
<1> HIDE DEF r, L, C
<1>4. FallIn(b) <=> L # {} /\ C # {} /\ OpenPrice - Min(L) >= DropMin
  BY DEF FallIn, DropOf, L, C
<1>5. r.ok => OpenPrice - r.low = DropOf(b)
  BY <1>3 DEF DropOf, L
<1>6. OpenPrice - r.low \in Int
  BY <1>2, <1>3
<1>7. r.ok /\ OpenPrice - r.low >= DropMin <=> FallIn(b)
  BY <1>3, <1>4
<1>8. FallIn(b) => OpenPrice - r.low = DropOf(b)
  BY <1>5, <1>7
<1> QED BY <1>6, <1>7, <1>8 DEF r

LEMMA AnswerBusy == ASSUME NEW v \in Volumes PROVE TodayPasses(v) <=> BusyIn(v)
<1>1. v \in Seq(Int)
  BY AnswersAssumption
<1> QED BY <1>1, SessionsAreCounted DEF TodayPasses, BusyIn

LEMMA TakeLowStep ==
  ASSUME PoolInv, ScanInv, NEW w \in Workers, TakeLow(w) PROVE ScanInv'
<1> DEFINE s == job[w]
<1>1. PICK ok \in BOOLEAN, b \in Bars :
        /\ Deliver(w, ok)
        /\ IF ok THEN bars' = Put(bars, s, b) /\ UNCHANGED failed1
                 ELSE failed1' = failed1 \cup {s} /\ UNCHANGED bars
        /\ pre' = IF ok /\ MinLowAndLastClose(b).ok /\ OpenPrice - MinLowAndLastClose(b).low >= DropMin
                  THEN Put(pre, s, OpenPrice - MinLowAndLastClose(b).low) ELSE pre
  BY DEF TakeLow
<1>2. /\ stage = "lows" /\ stage' = "lows" /\ eligible' = eligible /\ volumes' = volumes
      /\ soldOff' = soldOff /\ cancelled' = cancelled
  BY DEF TakeLow
<1>3. /\ s \in todo \ answered /\ todo' = todo /\ answered' = answered \cup {s}
      /\ ctxDone' = ctxDone
  BY <1>1 DEF Deliver, PoolInv, Account
<1>4. /\ eligible \in SUBSET Items /\ todo = eligible /\ answered = failed1 \cup DOMAIN bars
      /\ DOMAIN volumes = {}
  BY <1>2 DEF ScanInv, AnswersInv, StageInv
<1> HIDE DEF s
<1>5. /\ FallIn(b) => pre' = IF ok THEN Put(pre, s, DropOf(b)) ELSE pre
      /\ ~FallIn(b) => pre' = pre
      /\ FallIn(b) => DropOf(b) \in Int
  BY <1>1, AnswerFell
<1>6. AnswersInv'
  <2>1. CASE ~ok
    <3>1. bars' = bars /\ pre' = pre /\ failed1' = failed1 \cup {s}
      BY <1>1, <1>5, <2>1
    <3> QED BY <1>2, <1>3, <1>4, <3>1 DEF ScanInv, AnswersInv
  <2>2. CASE ok
    <3>1. bars' = Put(bars, s, b) /\ failed1' = failed1
      BY <1>1, <2>2
    <3>2. /\ DOMAIN bars' = DOMAIN bars \cup {s} /\ bars'[s] = b
          /\ \A y \in DOMAIN bars : y # s /\ bars'[y] = bars[y]
      BY <1>3, <1>4, <3>1 DEF Put
    <3>3. s \notin DOMAIN pre
      BY <1>3, <1>4 DEF ScanInv, AnswersInv
    <3>4. /\ \A y \in DOMAIN bars' : bars'[y] \in Bars
          /\ DOMAIN bars' \in SUBSET eligible' /\ failed1' \in SUBSET eligible'
          /\ eligible' \in SUBSET Items
      BY <1>2, <1>3, <1>4, <3>1, <3>2 DEF ScanInv, AnswersInv
    <3>5. /\ DOMAIN volumes' \in SUBSET DOMAIN pre'
          /\ \A y \in DOMAIN volumes' : volumes'[y] \in Volumes
      BY <1>2, <1>4
    <3>6. CASE FallIn(b)
      <4>1. /\ DOMAIN pre' = DOMAIN pre \cup {s} /\ pre'[s] = DropOf(b)
            /\ \A y \in DOMAIN pre : y # s /\ pre'[y] = pre[y]
        BY <1>5, <2>2, <3>3, <3>6 DEF Put
      <4>2. DOMAIN pre' = {y \in DOMAIN bars' : FallIn(bars'[y])}
        BY <3>2, <3>6, <4>1 DEF ScanInv, AnswersInv
      <4>3. \A y \in DOMAIN pre' : pre'[y] = DropOf(bars'[y]) /\ pre'[y] \in Int
        BY <1>5, <3>2, <3>6, <4>1 DEF ScanInv, AnswersInv
      <4> QED BY <3>4, <3>5, <4>2, <4>3 DEF AnswersInv
    <3>7. CASE ~FallIn(b)
      <4>1. pre' = pre
        BY <1>5, <3>7
      <4>2. DOMAIN pre' = {y \in DOMAIN bars' : FallIn(bars'[y])}
        BY <3>2, <3>7, <4>1 DEF ScanInv, AnswersInv
      <4>3. \A y \in DOMAIN pre' : pre'[y] = DropOf(bars'[y]) /\ pre'[y] \in Int
        BY <3>2, <4>1 DEF ScanInv, AnswersInv
      <4> QED BY <3>4, <3>5, <4>2, <4>3 DEF AnswersInv
    <3> QED BY <3>6, <3>7
  <2> QED BY <2>1, <2>2
<1>7. ListInv'
  BY <1>2 DEF ScanInv, ListInv
<1>8. StageInv'
  <2>1. answered' = failed1' \cup DOMAIN bars'
    <3>1. CASE ok
      BY <1>1, <1>3, <1>4, <3>1 DEF Put
    <3>2. CASE ~ok
      BY <1>1, <1>3, <1>4, <3>2
    <3> QED BY <3>1, <3>2
  <2> QED BY <1>2, <1>3, <1>4, <2>1 DEF StageInv, Stages
<1> QED BY <1>6, <1>7, <1>8 DEF ScanInv

LEMMA LowsEndStep == ASSUME PoolInv, ScanInv, LowsEnd PROVE ScanInv'
<1>1. /\ stage = "lows" /\ ~ranging /\ cancelled' = ctxDone
      /\ UNCHANGED <<eligible, bars, volumes, failed1, pre, soldOff>>
  BY DEF LowsEnd
<1>2. AnswersInv' /\ ListInv'
  BY <1>1 DEF ScanInv, AnswersInv, ListInv
<1>3. answered = todo \/ ctxDone
  BY <1>1, AllAnswered, WorkersAssumption
<1>4. /\ ctxDone \/ eligible \subseteq failed1 \cup DOMAIN bars
      /\ DOMAIN volumes = {}
  BY <1>1, <1>3 DEF ScanInv, StageInv
<1>5. CASE pre = <<>>
  <2>1. stage' = "report" /\ DOMAIN pre = {}
    BY <1>5 DEF LowsEnd
  <2>2. DOMAIN soldOff = {}
    BY <1>4, ListOfNothing
  <2> QED BY <1>1, <1>2, <1>4, <2>1, <2>2 DEF ScanInv, StageInv, Stages
<1>6. CASE pre # <<>>
  <2>1. /\ stage' = "history" /\ todo' = DOMAIN pre /\ answered' = {} /\ failed' = {}
        /\ ctxDone' = ctxDone
    BY <1>6 DEF LowsEnd, Start
  <2> QED BY <1>1, <1>2, <1>4, <2>1 DEF ScanInv, StageInv, Stages
<1> QED BY <1>5, <1>6

LEMMA TakeHistoryStep ==
  ASSUME PoolInv, ScanInv, NEW w \in Workers, TakeHistory(w) PROVE ScanInv'
<1> DEFINE s == job[w]
<1>1. PICK ok \in BOOLEAN, v \in Volumes :
        /\ Deliver(w, ok)
        /\ volumes' = IF ok THEN Put(volumes, s, v) ELSE volumes
        /\ soldOff' = IF ok /\ TodayPasses(v) THEN Append(soldOff, s) ELSE soldOff
  BY DEF TakeHistory
<1>2. /\ stage = "history" /\ stage' = "history" /\ eligible' = eligible /\ bars' = bars
      /\ failed1' = failed1 /\ pre' = pre /\ cancelled' = cancelled
  BY DEF TakeHistory
<1>3. /\ s \in todo \ answered /\ todo' = todo /\ answered' = answered \cup {s}
      /\ failed' = (IF ok THEN failed ELSE failed \cup {s}) /\ ctxDone' = ctxDone
  BY <1>1 DEF Deliver, PoolInv, Account
<1>4. /\ todo = DOMAIN pre /\ answered = failed \cup DOMAIN volumes
      /\ ctxDone \/ eligible \subseteq failed1 \cup DOMAIN bars
  BY <1>2 DEF ScanInv, StageInv
<1>5. TodayPasses(v) <=> BusyIn(v)
  BY AnswerBusy
<1> HIDE DEF s
<1>6. CASE ~ok
  <2>1. volumes' = volumes /\ soldOff' = soldOff
    BY <1>1, <1>6
  <2>2. AnswersInv' /\ ListInv'
    BY <1>2, <2>1 DEF ScanInv, AnswersInv, ListInv
  <2>3. answered' = failed' \cup DOMAIN volumes'
    BY <1>3, <1>4, <1>6, <2>1
  <2> QED BY <1>2, <1>3, <1>4, <2>2, <2>3 DEF ScanInv, StageInv, Stages
<1>7. CASE ok
  <2>1. volumes' = Put(volumes, s, v) /\ s \in DOMAIN pre /\ s \notin DOMAIN volumes
    BY <1>1, <1>3, <1>4, <1>7
  <2>2. /\ DOMAIN volumes' = DOMAIN volumes \cup {s} /\ volumes'[s] = v
        /\ \A y \in DOMAIN volumes : y # s /\ volumes'[y] = volumes[y]
    BY <2>1 DEF Put
  <2>3. AnswersInv'
    BY <1>2, <2>1, <2>2 DEF ScanInv, AnswersInv
  <2>4. answered' = failed' \cup DOMAIN volumes'
    BY <1>3, <1>4, <1>7, <2>2
  <2>5. StageInv'
    BY <1>2, <1>3, <1>4, <2>4 DEF StageInv, Stages
  <2> DEFINE D == DOMAIN volumes
             E == DOMAIN volumes'
  <2>6. /\ soldOff \in Seq(D) /\ Range(soldOff) = {y \in D : BusyIn(volumes[y])}
        /\ \A i, j \in DOMAIN soldOff : soldOff[i] = soldOff[j] => i = j
    BY DEF ScanInv, ListInv
  <2>7. E = D \cup {s} /\ s \notin D
    BY <2>1, <2>2
  <2>8. {y \in E : BusyIn(volumes'[y])} =
          IF BusyIn(v) THEN {y \in D : BusyIn(volumes[y])} \cup {s}
          ELSE {y \in D : BusyIn(volumes[y])}
    BY <2>2
  <2>9. Len(soldOff) \in Nat /\ DOMAIN soldOff = 1 .. Len(soldOff)
        /\ \A i \in 1 .. Len(soldOff) : soldOff[i] \in D
    BY <2>6, LenProperties, ElementOfSeq
  <2> HIDE DEF D, E
  <2>10. soldOff \in Seq(E)
    BY <2>6, <2>7, <2>9, SeqDef
  <2>11. ListInv'
    <3>1. CASE ~BusyIn(v)
      <4>1. soldOff' = soldOff
        BY <1>1, <1>5, <3>1
      <4> QED BY <2>6, <2>8, <2>10, <3>1, <4>1 DEF ListInv, E, D
    <3>2. CASE BusyIn(v)
      <4> DEFINE n == Len(soldOff)
                 q == Append(soldOff, s)
      <4>1. soldOff' = q
        BY <1>1, <1>5, <1>7, <3>2
      <4>2. /\ q \in Seq(E) /\ DOMAIN q = 1 .. n + 1 /\ q[n + 1] = s
            /\ \A i \in 1 .. n : q[i] = soldOff[i]
        BY <2>7, <2>10, AppendProperties, LenProperties
      <4> HIDE DEF q
      <4>3. \A i \in 1 .. n + 1 : i \in 1 .. n \/ i = n + 1
        BY <2>9
      <4>4. \A i \in 1 .. n : i \in 1 .. n + 1
        BY <2>9
      <4>5. n + 1 \in 1 .. n + 1
        BY <2>9
      <4>6. \A i, j \in DOMAIN q : q[i] = q[j] => i = j
        BY <2>6, <2>7, <2>9, <4>2, <4>3
      <4>7. Range(q) = Range(soldOff) \cup {s}
        BY <2>9, <4>2, <4>3, <4>4, <4>5 DEF Range
      <4>8. Range(q) = {y \in E : BusyIn(volumes'[y])}
        BY <2>6, <2>8, <3>2, <4>7
      <4> QED BY <4>1, <4>2, <4>6, <4>8 DEF ListInv, E
    <3> QED BY <3>1, <3>2
  <2> QED BY <2>3, <2>5, <2>11 DEF ScanInv
<1> QED BY <1>6, <1>7

\* sort.Slice keeps the elements; afterwards the list is in order, because two
\* different symbols are never equal in it.
LEMMA HistoryEndStep == ASSUME PoolInv, ScanInv, HistoryEnd PROVE ScanInv'
<1>1. /\ stage = "history" /\ stage' = "report" /\ ~ranging /\ cancelled' = ctxDone
      /\ UNCHANGED <<todo, answered, failed, ctxDone, eligible, bars, volumes, failed1, pre>>
  BY DEF HistoryEnd, callerVars
<1> DEFINE q == soldOff
           D == DOMAIN soldOff
           V == DOMAIN volumes
<1>2. PICK p \in Bijection(D, D) :
        /\ soldOff' = [i \in D |-> q[p[i]]]
        /\ \A i, j \in D : i < j => ~Ahead(soldOff'[j], soldOff'[i])
  BY DEF HistoryEnd, Reordered
<1>3. p \in [D -> D] /\ (\A i, j \in D : p[i] = p[j] => i = j) /\ \A j \in D : \E i \in D : p[i] = j
  BY DEF Bijection, Injection, Surjection, IsInjective
<1>4. /\ q \in Seq(V) /\ Len(q) \in Nat /\ D = 1 .. Len(q) /\ \A i \in D : q[i] \in V
      /\ \A i, j \in D : q[i] = q[j] => i = j
      /\ Range(q) = {y \in V : BusyIn(volumes[y])}
  <2>1. q \in Seq(V)
    BY DEF ScanInv, ListInv
  <2>2. Len(q) \in Nat /\ D = 1 .. Len(q) /\ \A i \in D : q[i] \in V
    BY <2>1, LenProperties, ElementOfSeq
  <2> QED BY <2>1, <2>2 DEF ScanInv, ListInv
<1>5. \A s \in V : s \in DOMAIN pre /\ s \in Nat /\ pre[s] \in Int
  BY SymbolsAssumption DEF ScanInv, AnswersInv
<1> HIDE DEF q, V
<1>6. /\ DOMAIN soldOff' = D /\ \A i \in D : soldOff'[i] = q[p[i]] /\ soldOff'[i] \in V
  BY <1>2, <1>3, <1>4
<1>7. soldOff' \in Seq(V)
  <2>1. soldOff' \in [1 .. Len(q) -> V]
    BY <1>2, <1>4, <1>6
  <2> QED BY <1>4, <2>1, SeqDef
<1>8. ASSUME NEW i \in D, NEW j \in D, soldOff'[i] = soldOff'[j] PROVE i = j
  <2>1. q[p[i]] = q[p[j]] /\ p[i] \in D /\ p[j] \in D
    BY <1>3, <1>6, <1>8
  <2>2. p[i] = p[j]
    BY <1>4, <2>1 DEF q
  <2> QED BY <1>3, <2>2
<1>9. Range(soldOff') = Range(q)
  <2>1. Range(q) = {q[i] : i \in D}
    BY DEF Range, q
  <2>2. Range(soldOff') = {soldOff'[i] : i \in D}
    BY <1>6 DEF Range
  <2> HIDE DEF D
  <2> QED BY <1>3, <1>6, <2>1, <2>2
<1>10. ASSUME NEW i \in D, NEW j \in D, i < j PROVE InOrder(pre', soldOff'[i], soldOff'[j])
  <2> DEFINE s == soldOff'[i]
             t == soldOff'[j]
  <2>1. i \in Int /\ j \in Int
    BY <1>4
  <2>2. s # t /\ s \in V /\ t \in V
    BY <1>6, <1>8, <1>10, <2>1
  <2>6. ~InOrder(pre, t, s)
    BY <1>2, <1>10 DEF Ahead, InOrder
  <2>3. s \in Nat /\ t \in Nat /\ pre[s] \in Int /\ pre[t] \in Int
    BY <1>5, <2>2
  <2> HIDE DEF s, t
  <2>4. InOrder(pre, s, t)
    BY <2>2, <2>3, <2>6 DEF InOrder
  <2>5. pre' = pre
    BY <1>1
  <2> QED BY <2>4, <2>5 DEF s, t
<1>11. AnswersInv'
  BY <1>1 DEF ScanInv, AnswersInv
<1>12. ListInv'
  BY <1>1, <1>4, <1>6, <1>7, <1>8, <1>9 DEF ListInv, V
<1>13. answered = todo \/ ctxDone
  BY <1>1, AllAnswered, WorkersAssumption
<1>14. cancelled' \/ (/\ eligible' \subseteq failed1' \cup DOMAIN bars'
                     /\ DOMAIN pre' \subseteq failed' \cup DOMAIN volumes')
  BY <1>1, <1>13 DEF ScanInv, StageInv
<1>15. \A i, j \in DOMAIN soldOff' : i < j => InOrder(pre', soldOff'[i], soldOff'[j])
  BY <1>6, <1>10
<1>16. StageInv'
  BY <1>1, <1>14, <1>15 DEF StageInv, Stages
<1> QED BY <1>11, <1>12, <1>16 DEF ScanInv

LEMMA ScanLowsStep == ASSUME ScanInv, ScanLows PROVE ScanInv'
<1>1. PICK syms \in SUBSET Items : eligible' = syms /\ Start(syms)
  BY DEF ScanLows
<1>2. /\ stage = "open" /\ stage' = "lows"
      /\ UNCHANGED <<bars, volumes, failed1, pre, soldOff, cancelled>>
  BY DEF ScanLows
<1>3. /\ eligible = {} /\ DOMAIN volumes = {} /\ failed1 = {} /\ DOMAIN bars = {}
      /\ todo' = eligible' /\ answered' = {}
  BY <1>1, <1>2 DEF ScanInv, StageInv, AnswersInv, Start
<1>4. AnswersInv'
  BY <1>1, <1>2, <1>3 DEF ScanInv, AnswersInv
<1>5. ListInv'
  BY <1>2 DEF ScanInv, ListInv
<1>6. StageInv'
  BY <1>2, <1>3 DEF StageInv, Stages
<1> QED BY <1>4, <1>5, <1>6 DEF ScanInv

LEMMA SkipScanStep == ASSUME ScanInv, SkipScan PROVE ScanInv'
<1>1. /\ stage = "open" /\ stage' = "report"
      /\ UNCHANGED <<todo, answered, failed, ctxDone, scanVars>>
  BY DEF SkipScan, callerVars
<1>2. AnswersInv' /\ ListInv'
  BY <1>1 DEF ScanInv, AnswersInv, ListInv, scanVars
<1>3. eligible = {} /\ DOMAIN pre = {} /\ DOMAIN volumes = {}
  BY <1>1 DEF ScanInv, StageInv, AnswersInv
<1>4. DOMAIN soldOff = {}
  BY <1>3, ListOfNothing
<1>5. StageInv'
  BY <1>1, <1>3, <1>4 DEF StageInv, Stages, scanVars
<1> QED BY <1>2, <1>5 DEF ScanInv

\* Every other step leaves the scan alone; a cancelled context only helps.
LEMMA ScanStutter ==
  ASSUME ScanInv, UNCHANGED <<todo, answered, failed, scanVars>>,
         ctxDone => ctxDone',
         stage' = stage \/ (stage = "report" /\ stage' = "done")
  PROVE  ScanInv'
<1>1. AnswersInv' /\ ListInv'
  BY DEF ScanInv, AnswersInv, ListInv, scanVars
<1>2. StageInv'
  <2>1. CASE stage' = stage
    BY <2>1 DEF ScanInv, StageInv, Stages, scanVars
  <2>2. CASE stage = "report" /\ stage' = "done"
    BY <2>2 DEF ScanInv, StageInv, Stages, scanVars
  <2> QED BY <2>1, <2>2
<1> QED BY <1>1, <1>2 DEF ScanInv

-----------------------------------------------------------------------------
(* The report: every ticker is still unread or in one of the two tables, and *)
(* the accumulators hold the totals of the first                            *)

Descending(u) == \A i, j \in DOMAIN u : i < j => u[i] >= u[j]

ReportInv ==
  /\ unread \in SUBSET Tickers /\ noEntries \in SUBSET (Tickers \ unread)
  /\ trades \in Seq(Trade)
  /\ Len(trades) + Cardinality(noEntries) + Cardinality(unread) = Cardinality(Tickers)
  /\ AddsUp(sums, trades)
  /\ stage = "done" => unread = {} /\ Descending(Returns(trades))

LEMMA FiniteTickers ==
  ASSUME NEW S \in SUBSET Tickers
  PROVE  IsFiniteSet(S) /\ Cardinality(S) \in Nat
BY TradesAssumption, FS_Subset, FS_CardinalityType

LEMMA ReportTradeStep ==
  ASSUME ReportInv, NEW t \in Tickers, ReportTrade(t) PROVE ReportInv'
<1>1. PICK entry \in Entries, exit \in ExitPrices, reason \in {"TIME_EXIT", "other"} :
        /\ trades' = Append(trades, [sym |-> t, entry |-> entry, exit |-> exit, reason |-> reason])
        /\ sums' = Tally(sums, entry, exit, reason)
  BY DEF ReportTrade
<1>2. /\ stage = "report" /\ stage' = "report" /\ t \in unread /\ unread' = unread \ {t}
      /\ noEntries' = noEntries
  BY DEF ReportTrade
<1> DEFINE row == [sym |-> t, entry |-> entry, exit |-> exit, reason |-> reason]
<1>3. row \in Trade /\ row.entry = entry /\ row.exit = exit /\ row.reason = reason
  BY DEF Trade
<1>4. trades \in Seq(Trade) /\ AddsUp(sums, trades)
  BY DEF ReportInv
<1> HIDE DEF row
<1>5. AddsUp(sums', trades')
  BY <1>1, <1>3, <1>4, TallyAddsUp DEF row
<1>6. trades' \in Seq(Trade) /\ Len(trades') = Len(trades) + 1 /\ Len(trades) \in Nat
  BY <1>1, <1>3, <1>4, AppendProperties, LenProperties DEF row
<1>7. /\ unread \in SUBSET Tickers /\ noEntries \in SUBSET (Tickers \ unread)
      /\ Len(trades) + Cardinality(noEntries) + Cardinality(unread) = Cardinality(Tickers)
  BY DEF ReportInv
<1>8. IsFiniteSet(unread) /\ Cardinality(unread) \in Nat /\ Cardinality(noEntries) \in Nat
  BY <1>7, FiniteTickers
<1>9. Cardinality(unread') = Cardinality(unread) - 1
  BY <1>2, <1>8, FS_RemoveElement
<1>10. Len(trades') + Cardinality(noEntries') + Cardinality(unread') = Cardinality(Tickers)
  BY <1>2, <1>6, <1>7, <1>8, <1>9
<1> QED BY <1>2, <1>5, <1>6, <1>7, <1>10 DEF ReportInv

LEMMA ReportNoEntryStep ==
  ASSUME ReportInv, NEW t \in Tickers, ReportNoEntry(t) PROVE ReportInv'
<1>1. /\ stage = "report" /\ stage' = "report" /\ t \in unread /\ unread' = unread \ {t}
      /\ noEntries' = noEntries \cup {t} /\ trades' = trades /\ sums' = sums
  BY DEF ReportNoEntry
<1>2. /\ unread \in SUBSET Tickers /\ noEntries \in SUBSET (Tickers \ unread)
      /\ Len(trades) + Cardinality(noEntries) + Cardinality(unread) = Cardinality(Tickers)
      /\ trades \in Seq(Trade) /\ AddsUp(sums, trades)
  BY DEF ReportInv
<1>3. /\ IsFiniteSet(unread) /\ Cardinality(unread) \in Nat
      /\ IsFiniteSet(noEntries) /\ Cardinality(noEntries) \in Nat
  BY <1>2, FiniteTickers
<1>4. Cardinality(unread') = Cardinality(unread) - 1
  BY <1>1, <1>3, FS_RemoveElement
<1>5. t \notin noEntries
  BY <1>1, <1>2
<1>6. Cardinality(noEntries') = Cardinality(noEntries) + 1
  BY <1>1, <1>3, <1>5, FS_AddElement
<1>7. Len(trades) \in Nat
  BY <1>2, LenProperties
<1>8. Len(trades') + Cardinality(noEntries') + Cardinality(unread') = Cardinality(Tickers)
  BY <1>1, <1>2, <1>3, <1>4, <1>6, <1>7
<1> QED BY <1>1, <1>2, <1>8 DEF ReportInv

LEMMA SortTradesStep == ASSUME ReportInv, SortTrades PROVE ReportInv'
<1>1. /\ stage' = "done" /\ unread = {} /\ unread' = unread /\ noEntries' = noEntries
      /\ sums' = sums
  BY DEF SortTrades
<1>2. /\ trades \in Seq(Trade) /\ AddsUp(sums, trades)
      /\ unread \in SUBSET Tickers /\ noEntries \in SUBSET (Tickers \ unread)
      /\ Len(trades) + Cardinality(noEntries) + Cardinality(unread) = Cardinality(Tickers)
  BY DEF ReportInv
<1> DEFINE D == DOMAIN trades
<1>3. PICK p \in Bijection(D, D) :
        /\ trades' = [i \in D |-> trades[p[i]]]
        /\ \A i, j \in D : i < j => ~Better(trades'[j], trades'[i])
  BY DEF SortTrades, Reordered
<1>4. D = 1 .. Len(trades)
  BY <1>2, LenProperties
<1>5. trades' \in Seq(Trade) /\ Len(trades') = Len(trades) /\ AddsUp(sums, trades')
  BY <1>2, <1>3, <1>4, SortedAddsUp
<1>6. Descending(Returns(trades'))
  <2>1. /\ DOMAIN Returns(trades') = D
        /\ \A i \in D : /\ Returns(trades')[i] = Pct(trades'[i].entry, trades'[i].exit)
                        /\ Returns(trades')[i] \in Int
    BY <1>4, <1>5, RowType
  <2> DEFINE u == Returns(trades')
  <2>2. \A i, j \in D : i < j => ~(u[j] > u[i])
    BY <1>3, <2>1 DEF Better
  <2>3. \A i \in D : u[i] \in Int
    BY <2>1
  <2>4. DOMAIN u = D
    BY <2>1
  <2> HIDE DEF u, D
  <2>5. Descending(u)
    BY <2>2, <2>3, <2>4 DEF Descending
  <2> QED BY <2>5 DEF u
<1> QED BY <1>1, <1>2, <1>5, <1>6 DEF ReportInv

LEMMA ReportStutter ==
  ASSUME ReportInv, UNCHANGED reportVars, stage' = stage \/ stage' # "done" PROVE ReportInv'
BY DEF ReportInv, reportVars

\* The first row has the best return and the last the worst.
LEMMA FirstIsBest ==
  ASSUME NEW q \in Seq(Trade), NEW a, AddsUp(a, q), Descending(Returns(q)), q # <<>>
  PROVE  /\ a.best = Max(Range(Returns(q))) /\ a.worst = Min(Range(Returns(q)))
         /\ a.best = Returns(q)[1] /\ a.worst = Returns(q)[Len(q)]
<1> DEFINE n == Len(q)
           u == Returns(q)
<1>1. n \in Nat /\ n # 0
  BY EmptySeq, LenProperties
<1>2. DOMAIN u = 1 .. n /\ \A i \in 1 .. n : u[i] \in Int
  BY RowType
<1>3. ~a.first
  BY <1>1 DEF AddsUp
<1>4. /\ a.best \in Int /\ a.worst \in Int
      /\ \E i \in 1 .. n : u[i] = a.best
      /\ \E i \in 1 .. n : u[i] = a.worst
      /\ \A i \in 1 .. n : a.worst <= u[i] /\ u[i] <= a.best
  BY <1>3 DEF AddsUp
<1>5. \A i, j \in 1 .. n : i < j => u[i] >= u[j]
  BY <1>2 DEF Descending
<1> HIDE DEF n, u
<1>6. 1 \in 1 .. n /\ n \in 1 .. n
  BY <1>1
<1>7. u[1] = a.best
  <2>1. PICK i \in 1 .. n : u[i] = a.best
    BY <1>4
  <2>2. u[1] >= a.best
    <3>1. CASE i = 1
      BY <1>4, <2>1, <3>1
    <3>2. CASE i # 1
      BY <1>5, <1>6, <2>1, <3>2
    <3> QED BY <3>1, <3>2
  <2>3. u[1] <= a.best /\ u[1] \in Int
    BY <1>2, <1>4, <1>6
  <2> QED BY <1>4, <2>2, <2>3
<1>8. u[n] = a.worst
  <2>1. PICK i \in 1 .. n : u[i] = a.worst
    BY <1>4
  <2>2. a.worst >= u[n]
    <3>1. CASE i = n
      BY <1>4, <2>1, <3>1
    <3>2. CASE i # n
      BY <1>1, <1>5, <1>6, <2>1, <3>2
    <3> QED BY <3>1, <3>2
  <2>3. a.worst <= u[n] /\ u[n] \in Int
    BY <1>2, <1>4, <1>6
  <2> QED BY <1>4, <2>2, <2>3
<1> DEFINE R == Range(u)
<1>9. R = {u[i] : i \in 1 .. n}
  BY <1>2 DEF Range
<1>10. a.best \in R /\ a.worst \in R /\ \A x \in R : x \in Int /\ a.worst <= x /\ x <= a.best
  BY <1>2, <1>4, <1>9
<1> HIDE DEF R
<1>11. a.best = Max(R)
  BY <1>4, <1>10 DEF Max
<1>12. a.worst = Min(R)
  BY <1>4, <1>10 DEF Min
<1> QED BY <1>7, <1>8, <1>11, <1>12 DEF u, n, R

-----------------------------------------------------------------------------
(* The inductive invariant                                                  *)

IInv == PoolInv /\ ScanInv /\ ReportInv

LEMMA InitInv == Init => IInv /\ Map!Init
<1> SUFFICES ASSUME Init PROVE IInv /\ Map!Init
  OBVIOUS
<1>1. PoolTypeOK
  BY DEF Init, PoolInit, PoolTypeOK
<1>2. Account /\ Shutdown
  BY DEF Init, PoolInit, Account, Shutdown
<1>3. Map!Init
  BY DEF Init, PoolInit, Map!Init
<1>4. ScanInv
  <2>1. DOMAIN pre = {} /\ DOMAIN bars = {} /\ DOMAIN volumes = {} /\ DOMAIN soldOff = {}
    BY DEF Init
  <2>2. AnswersInv
    BY <2>1 DEF Init, AnswersInv
  <2>3. ListInv
    <3>1. soldOff \in Seq(DOMAIN volumes)
      BY EmptySeq DEF Init
    <3> QED BY <2>1, <3>1 DEF ListInv, Range
  <2>4. StageInv
    BY <2>1 DEF Init, StageInv, Stages
  <2> QED BY <2>2, <2>3, <2>4 DEF ScanInv
<1>5. ReportInv
  <2>1. AddsUp(sums, trades)
    BY EmptyAddsUp DEF Init
  <2>2. trades \in Seq(Trade) /\ Len(trades) = 0 /\ Cardinality(noEntries) = 0
    BY EmptySeq, FS_EmptySet DEF Init
  <2>3. Cardinality(Tickers) \in Nat
    BY FiniteTickers
  <2> QED BY <2>1, <2>2, <2>3 DEF Init, ReportInv
<1> QED
  BY <1>1, <1>2, <1>3, <1>4, <1>5 DEF IInv, PoolInv

LEMMA NextInv == ASSUME IInv, [Next]_vars PROVE IInv' /\ MapStep
<1> USE DEF IInv
<1>1. CASE SkipScan
  <2>1. UNCHANGED <<callerVars, ctxDone, poolVars>> /\ UNCHANGED reportVars /\ stage' = "report"
    BY <1>1 DEF SkipScan
  <2>2. PoolInv' /\ MapStep
    BY <2>1, PoolStutter DEF MapStep
  <2> QED BY <1>1, <2>1, <2>2, SkipScanStep, ReportStutter
<1>2. CASE BuildReport
  <2>1. /\ UNCHANGED <<callerVars, ctxDone, poolVars>> /\ UNCHANGED scanVars
        /\ stage' = stage \/ (stage = "report" /\ stage' = "done")
    BY <1>2 DEF BuildReport, ReportTrade, ReportNoEntry, SortTrades
  <2>2. PoolInv' /\ MapStep
    BY <2>1, PoolStutter DEF MapStep
  <2>3. ScanInv'
    BY <2>1, ScanStutter DEF callerVars
  <2>4. ReportInv'
    BY <1>2, ReportTradeStep, ReportNoEntryStep, SortTradesStep DEF BuildReport
  <2> QED BY <2>2, <2>3, <2>4
<1>3. CASE ScanLows
  <2>1. PICK syms \in SUBSET Items : Start(syms)
    BY <1>3 DEF ScanLows
  <2>2. UNCHANGED reportVars /\ stage' = "lows"
    BY <1>3 DEF ScanLows
  <2>3. PoolInv' /\ MapStep
    BY <2>1, StartStep DEF MapStep, Map!Next
  <2> QED BY <1>3, <2>2, <2>3, ScanLowsStep, ReportStutter
<1>4. ASSUME NEW w \in Workers, TakeLow(w) PROVE IInv' /\ MapStep
  <2>1. PICK ok \in BOOLEAN : Deliver(w, ok)
    BY <1>4 DEF TakeLow
  <2>2. UNCHANGED reportVars /\ stage' = stage
    BY <1>4 DEF TakeLow
  <2>3. PoolInv' /\ MapStep
    BY <2>1, DeliverStep DEF MapStep, Map!Next
  <2> QED BY <1>4, <2>2, <2>3, TakeLowStep, ReportStutter
<1>5. CASE LowsEnd
  <2>1. PoolInv' /\ MapStep
    <3>1. CASE pre = <<>>
      BY <1>5, <3>1, PoolStutter DEF LowsEnd, MapStep
    <3>2. CASE pre # <<>>
      <4>1. Start(DOMAIN pre)
        BY <1>5, <3>2 DEF LowsEnd
      <4>2. DOMAIN pre \in SUBSET Items
        BY DEF ScanInv, AnswersInv
      <4> QED BY <4>1, <4>2, StartStep DEF MapStep, Map!Next
    <3> QED BY <3>1, <3>2
  <2>2. UNCHANGED reportVars /\ stage' # "done"
    BY <1>5 DEF LowsEnd
  <2> QED BY <1>5, <2>1, <2>2, LowsEndStep, ReportStutter
<1>6. ASSUME NEW w \in Workers, TakeHistory(w) PROVE IInv' /\ MapStep
  <2>1. PICK ok \in BOOLEAN : Deliver(w, ok)
    BY <1>6 DEF TakeHistory
  <2>2. UNCHANGED reportVars /\ stage' = stage
    BY <1>6 DEF TakeHistory
  <2>3. PoolInv' /\ MapStep
    BY <2>1, DeliverStep DEF MapStep, Map!Next
  <2> QED BY <1>6, <2>2, <2>3, TakeHistoryStep, ReportStutter
<1>7. CASE HistoryEnd
  <2>1. PoolInv' /\ MapStep
    BY <1>7, PoolStutter DEF HistoryEnd, MapStep
  <2>2. UNCHANGED reportVars /\ stage' # "done"
    BY <1>7 DEF HistoryEnd
  <2> QED BY <1>7, <2>1, <2>2, HistoryEndStep, ReportStutter
<1>8. CASE Pool
  <2>1. UNCHANGED <<todo, answered, failed, scanVars>> /\ UNCHANGED reportVars
        /\ stage' = stage /\ ctxDone' = ctxDone
    BY <1>8 DEF Pool, Feed, WorkerEnds, FeederEnds, CloseResults, RangeEnds, callerVars
  <2>2. ScanInv' /\ ReportInv'
    BY <2>1, ScanStutter, ReportStutter
  <2>3. ASSUME NEW w \in Workers, NEW i \in unfed, Feed(w, i) PROVE PoolInv' /\ MapStep
    BY <2>3, FeedStep DEF MapStep
  <2>4. CASE FeederEnds \/ CloseResults \/ \E w \in Workers : WorkerEnds(w)
    BY <2>2, <2>4, EndingStep DEF MapStep
  <2>5. CASE RangeEnds
    BY <2>2, <2>5, RangeStep DEF MapStep, Map!Next
  <2> QED
    BY <1>8, <2>2, <2>3, <2>4, <2>5 DEF Pool
<1>9. CASE CancelSession
  <2>1. /\ UNCHANGED <<todo, answered, failed, scanVars>> /\ UNCHANGED reportVars
        /\ stage' = stage /\ ctxDone' = TRUE
    BY <1>9 DEF CancelSession, Cancel, callerVars
  <2>2. PoolInv' /\ MapStep
    BY <1>9, CancelStep DEF CancelSession, MapStep, Map!Next
  <2> QED BY <2>1, <2>2, ScanStutter, ReportStutter
<1>10. CASE UNCHANGED vars
  <2>1. /\ UNCHANGED <<callerVars, ctxDone, poolVars>> /\ UNCHANGED <<scanVars, reportVars>>
        /\ stage' = stage
    BY <1>10 DEF vars, callerVars, poolVars
  <2>2. PoolInv' /\ MapStep
    BY <2>1, PoolStutter DEF MapStep
  <2> QED BY <2>1, <2>2, ScanStutter, ReportStutter DEF callerVars
<1> QED
  BY <1>1, <1>2, <1>3, <1>4, <1>5, <1>6, <1>7, <1>8, <1>9, <1>10 DEF Next

LEMMA Invariance == Spec => []IInv
<1>1. Init => IInv
  BY InitInv
<1>2. IInv /\ [Next]_vars => IInv'
  BY NextInv
<1> QED
  BY <1>1, <1>2, PTL DEF Spec

LEMMA IInvTypeOK == ASSUME IInv PROVE TypeOK
<1>1. PoolTypeOK
  BY DEF IInv, PoolInv
<1>2. /\ stage \in Stages /\ eligible \subseteq Items
      /\ DOMAIN bars \subseteq eligible /\ DOMAIN volumes \subseteq DOMAIN pre
      /\ DOMAIN pre \subseteq DOMAIN bars /\ failed1 \subseteq eligible
      /\ soldOff \in Seq(DOMAIN volumes)
  BY DEF IInv, ScanInv, AnswersInv, ListInv, StageInv
<1>3. /\ unread \in SUBSET Tickers /\ trades \in Seq(Trade) /\ noEntries \in SUBSET Tickers
      /\ AddsUp(sums, trades)
      /\ Len(trades) + Cardinality(noEntries) + Cardinality(unread) = Cardinality(Tickers)
  BY DEF IInv, ReportInv
<1>4. /\ Cardinality(unread) \in Nat /\ Cardinality(noEntries) \in Nat
      /\ Cardinality(Tickers) \in Nat /\ Len(trades) \in Nat
  BY <1>3, FiniteTickers, LenProperties
<1>5. Len(trades) <= Cardinality(Tickers)
  BY <1>3, <1>4
<1>6. /\ sums.wins \in Nat /\ sums.losses \in Nat /\ sums.wins + sums.losses = Len(trades)
      /\ sums.timeExits \in Nat /\ sums.timeExits <= Len(trades)
  BY <1>3, FiniteRows DEF AddsUp
<1>7. {sums.wins, sums.losses, sums.timeExits} \subseteq 0 .. Cardinality(Tickers)
  BY <1>4, <1>5, <1>6
<1> QED BY <1>1, <1>2, <1>3, <1>7 DEF TypeOK

LEMMA IInvSoldOff == ASSUME IInv PROVE SoldOffIsRight
<1> SUFFICES ASSUME stage \in {"report", "done"}
             PROVE  /\ Range(soldOff) = {s \in eligible : Fell(s) /\ Busy(s)}
                    /\ \A i, j \in DOMAIN soldOff : i < j =>
                         LET s == soldOff[i]
                             t == soldOff[j]
                         IN  Drop(s) > Drop(t) \/ (Drop(s) = Drop(t) /\ s < t)
                    /\ cancelled \/
                         \A s \in eligible : /\ s \in failed1 \/ s \in DOMAIN bars
                                             /\ Fell(s) => s \in failed \/ s \in DOMAIN volumes
  BY DEF SoldOffIsRight
<1>1. \A s \in DOMAIN bars : Drop(s) = DropOf(bars[s])
  BY DEF Drop, DropOf, Lows, LowsOf
<1>2. \A s : Fell(s) <=> s \in DOMAIN bars /\ FallIn(bars[s])
  BY DEF Fell, FallIn, Drop, DropOf, Lows, LowsOf, Closes, ClosesOf
<1>3. \A s : Busy(s) <=> s \in DOMAIN volumes /\ BusyIn(volumes[s])
  BY DEF Busy, BusyIn
<1>4. AnswersInv /\ ListInv /\ StageInv
  BY DEF IInv, ScanInv
<1>5. \A s : s \in DOMAIN pre <=> s \in DOMAIN bars /\ FallIn(bars[s])
  BY <1>4 DEF AnswersInv
<1>6. Range(soldOff) = {s \in eligible : Fell(s) /\ Busy(s)}
  <2>1. Range(soldOff) = {s \in DOMAIN volumes : BusyIn(volumes[s])}
    BY <1>4 DEF ListInv
  <2>2. \A s \in DOMAIN volumes : s \in DOMAIN pre /\ s \in eligible
    BY <1>4 DEF AnswersInv
  <2> QED BY <1>2, <1>3, <1>5, <2>1, <2>2
<1>7. ASSUME NEW i \in DOMAIN soldOff, NEW j \in DOMAIN soldOff, i < j
      PROVE  LET s == soldOff[i]
                 t == soldOff[j]
             IN  Drop(s) > Drop(t) \/ (Drop(s) = Drop(t) /\ s < t)
  <2>1. InOrder(pre, soldOff[i], soldOff[j])
    BY <1>4, <1>7 DEF StageInv
  <2>2. soldOff[i] \in DOMAIN volumes /\ soldOff[j] \in DOMAIN volumes
    <3>1. \A k \in DOMAIN soldOff : soldOff[k] \in DOMAIN volumes
      BY <1>4, LenProperties, ElementOfSeq DEF ListInv
    <3> QED BY <3>1
  <2>3. /\ pre[soldOff[i]] = Drop(soldOff[i])
        /\ pre[soldOff[j]] = Drop(soldOff[j])
    BY <1>1, <1>4, <1>5, <2>2 DEF AnswersInv
  <2> QED BY <2>1, <2>3 DEF InOrder
<1>8. cancelled \/
        \A s \in eligible : /\ s \in failed1 \/ s \in DOMAIN bars
                            /\ Fell(s) => s \in failed \/ s \in DOMAIN volumes
  BY <1>2, <1>4, <1>5 DEF StageInv
<1> QED BY <1>6, <1>7, <1>8

LEMMA IInvReport == ASSUME IInv PROVE ReportAddsUp
<1> SUFFICES ASSUME stage = "done" PROVE ReportAddsUp
  BY DEF ReportAddsUp
<1>1. /\ trades \in Seq(Trade) /\ AddsUp(sums, trades)
      /\ unread = {} /\ Descending(Returns(trades)) /\ noEntries \in SUBSET Tickers
      /\ Len(trades) + Cardinality(noEntries) + Cardinality(unread) = Cardinality(Tickers)
  BY DEF IInv, ReportInv
<1>2. Cardinality(unread) = 0 /\ Len(trades) \in Nat /\ Cardinality(noEntries) \in Nat
  BY <1>1, FS_EmptySet, FiniteTickers, LenProperties
<1>3. Cardinality(Tickers) = Len(trades) + Cardinality(noEntries)
  BY <1>1, <1>2
<1>4. trades # <<>> =>
         /\ sums.best = Max(Range(Returns(trades))) /\ sums.worst = Min(Range(Returns(trades)))
         /\ sums.best = Returns(trades)[1] /\ sums.worst = Returns(trades)[Len(trades)]
  BY <1>1, FirstIsBest
<1> QED BY <1>1, <1>3, <1>4 DEF ReportAddsUp, AddsUp

-----------------------------------------------------------------------------
(* Theorems *)

\* No item of a pool's batch is lost or answered twice, and the range over the
\* results ends early only for a cancelled context, for any number of workers:
\* the safety of PoolIsParallelMap (engine.go:323-398, historic.go:842-891).
THEOREM PoolsKeepTheirPromise == Spec => Map!Init /\ [][Map!Next]_(Map!mapVars)
<1>1. Init => IInv /\ Map!Init
  BY InitInv
<1>2. IInv /\ [Next]_vars => IInv' /\ [Map!Next]_(Map!mapVars)
  BY NextInv DEF MapStep
<1> QED
  BY <1>1, <1>2, PTL DEF Spec

\* A symbol is listed only among those whose two answers came, and no counter
\* of the report passes the number of tickers (historic.go:65-257, 928-1150).
THEOREM TypeCorrect == Spec => []TypeOK
<1>1. IInv => TypeOK
  BY IInvTypeOK
<1> QED
  BY <1>1, Invariance, PTL

\* For any answers, any number of workers and any order of answering, failing
\* and cancelling: the published list holds exactly the symbols that match the
\* filters by the answers that came, in the order of sort.Slice, and without a
\* cancellation every eligible symbol was asked about (historic.go:65-257).
THEOREM SoldOffListIsRight == Spec => []SoldOffIsRight
<1>1. IInv => SoldOffIsRight
  BY IInvSoldOff
<1> QED
  BY <1>1, Invariance, PTL

\* For any tickers and prices and any order of the map's keys: the totals of
\* the report are those of the tables under it, every ticker is in one table,
\* and the best and the worst return stand in the first and the last row
\* (historic.go:928-1150).
THEOREM SummaryAddsUp == Spec => []ReportAddsUp
<1>1. IInv => ReportAddsUp
  BY IInvReport
<1> QED
  BY <1>1, Invariance, PTL
=============================================================================
