---------------------------- MODULE FilterProofs ----------------------------
(***************************************************************************)
(* What is proved of Filter for any samples, settings, clock and buffer    *)
(* size: types, that the minimum period is kept, that the extremes of a    *)
(* buffer are samples that were pushed and its mean lies between two of    *)
(* them, and that the current value follows what is in range.              *)
(***************************************************************************)
EXTENDS Filter, SequenceTheorems, FiniteSetTheorems, WellFoundedInduction, TLAPS

-----------------------------------------------------------------------------
(* The greatest and the least number of a buffer *)

\* A set of natural numbers that is not empty has a least element.
LEMMA LeastNatural ==
    ASSUME NEW T, T \subseteq Nat, T # {}
    PROVE  \E k \in T : \A j \in T : k <= j
<1> DEFINE R == OpToRel(<, Nat)
<1>1. IsWellFoundedOn(R, Nat)
    BY NatLessThanWellFounded, Zenon
<1>2. \A i, j \in Nat : i < j => <<i, j>> \in R
    <2> SUFFICES ASSUME NEW i \in Nat, NEW j \in Nat, i < j
                 PROVE  <<i, j>> \in {ss \in Nat \X Nat : ss[1] < ss[2]}
        BY Zenon DEF OpToRel
    <2>1. <<i, j>> \in Nat \X Nat /\ <<i, j>>[1] = i /\ <<i, j>>[2] = j
        OBVIOUS
    <2> QED
        BY <2>1
<1> HIDE DEF R
<1>3. PICK k \in T : \A j \in T : ~(<<j, k>> \in R)
    BY <1>1, WFMin
<1>4. \A j \in T : ~(j < k)
    BY <1>2, <1>3
<1> QED
    BY <1>4

\* A buffer with numbers in it has a greatest number, and a least one.
LEMMA ExtremesExist ==
    ASSUME NEW b \in Seq(Samples), Numbers(b) # {}
    PROVE  /\ Max(Values(b)) \in Values(b)
           /\ Min(Values(b)) \in Values(b)
           /\ \A v \in Values(b) : Min(Values(b)) <= v /\ v <= Max(Values(b))
           /\ Values(b) \subseteq Int
<1> DEFINE V(k) == {b[i].v : i \in {i \in Numbers(b) : i <= k}}
           Extremes(k) == /\ \E x \in V(k) : \A y \in V(k) : x >= y
                          /\ \E x \in V(k) : \A y \in V(k) : x <= y
           T == {k \in Nat : V(k) # {} /\ ~Extremes(k)}
<1>1. Len(b) \in Nat /\ DOMAIN b = 1 .. Len(b) /\ \A i \in Numbers(b) : b[i].v \in Int
    <2>1. Len(b) \in Nat /\ DOMAIN b = 1 .. Len(b) /\ \A i \in 1 .. Len(b) : b[i] \in Samples
        BY LenProperties, ElementOfSeq
    <2> QED
        BY <2>1, FilterAssumption DEF Numbers
<1>2. Numbers(b) \subseteq 1 .. Len(b)
    BY <1>1 DEF Numbers
<1>3. T = {}
    <2> SUFFICES ASSUME T # {}
                 PROVE  FALSE
        OBVIOUS
    <2>1. PICK k \in T : \A j \in T : k <= j
        <3> HIDE DEF V, Extremes
        <3>1. T \subseteq Nat
            OBVIOUS
        <3> HIDE DEF T
        <3> QED
            BY <3>1, LeastNatural
    <2>2. k \in Nat /\ V(k) # {} /\ ~Extremes(k)
        BY <2>1
    <2>3. k # 0
        BY <1>2, <2>2
    <2>4. k - 1 \in Nat /\ k - 1 \notin T
        <3>1. k - 1 \in Nat /\ ~(k <= k - 1)
            BY <2>2, <2>3
        <3> HIDE DEF T
        <3> QED
            BY <2>1, <3>1
    <2>5. V(k - 1) = {} \/ Extremes(k - 1)
        <3> HIDE DEF V, Extremes
        <3> QED
            BY <2>4
    <2>6. CASE k \notin Numbers(b)
        <3>1. {i \in Numbers(b) : i <= k} = {i \in Numbers(b) : i <= k - 1}
            BY <1>2, <2>2, <2>6
        <3>2. V(k) = V(k - 1)
            BY <3>1
        <3> HIDE DEF V
        <3> QED
            BY <2>2, <2>5, <3>2
    <2>7. CASE k \in Numbers(b)
        <3>1. {i \in Numbers(b) : i <= k} = {i \in Numbers(b) : i <= k - 1} \cup {k}
            BY <1>2, <2>2, <2>7
        <3>2. V(k) = V(k - 1) \cup {b[k].v}
            BY <3>1
        <3>3. V(k) \subseteq Int
            BY <1>1
        <3> HIDE DEF V
        <3>4. CASE V(k - 1) = {}
            BY <2>2, <3>2, <3>3, <3>4
        <3>5. CASE Extremes(k - 1)
            <4>1. PICK x \in V(k - 1) : \A y \in V(k - 1) : x >= y
                BY <3>5
            <4>2. \E z \in V(k) : \A y \in V(k) : z >= y
                <5>1. CASE x >= b[k].v
                    BY <3>2, <4>1, <5>1
                <5>2. CASE ~(x >= b[k].v)
                    <6>1. \A y \in V(k) : b[k].v >= y
                        BY <3>2, <3>3, <4>1, <5>2
                    <6> QED
                        BY <3>2, <6>1
                <5> QED
                    BY <5>1, <5>2
            <4>3. PICK w \in V(k - 1) : \A y \in V(k - 1) : w <= y
                BY <3>5
            <4>4. \E z \in V(k) : \A y \in V(k) : z <= y
                <5>1. CASE w <= b[k].v
                    BY <3>2, <4>3, <5>1
                <5>2. CASE ~(w <= b[k].v)
                    <6>1. \A y \in V(k) : b[k].v <= y
                        BY <3>2, <3>3, <4>3, <5>2
                    <6> QED
                        BY <3>2, <6>1
                <5> QED
                    BY <5>1, <5>2
            <4> QED
                BY <2>2, <4>2, <4>4
        <3> QED
            BY <2>5, <3>4, <3>5
    <2> QED
        BY <2>6, <2>7
<1>4. V(Len(b)) = Values(b)
    <2>1. {i \in Numbers(b) : i <= Len(b)} = Numbers(b)
        BY <1>1, <1>2
    <2> QED
        BY <2>1 DEF Values
<1>5. Values(b) # {}
    BY DEF Values
<1>6. Extremes(Len(b))
    <2> HIDE DEF V, Extremes
    <2> QED
        BY <1>1, <1>3, <1>4, <1>5
<1> HIDE DEF V
<1>7. Values(b) \subseteq Int
    BY <1>1 DEF Values
<1>8. /\ \A x, y \in Values(b) : x >= y <=> y <= x
      /\ \E x \in Values(b) : \A y \in Values(b) : x >= y
      /\ \E x \in Values(b) : \A y \in Values(b) : x <= y
    BY <1>4, <1>6, <1>7
<1> QED
    BY <1>7, <1>8 DEF Max, Min

-----------------------------------------------------------------------------
(* The sum of a buffer's numbers *)

Pick(s) == CHOOSE i \in s : TRUE

\* f adds up the numbers of b, for every set of positions in D.
Adds(f, b, D) ==
    f = [s \in D |-> IF s = {} THEN 0 ELSE b[Pick(s)].v + f[s \ {Pick(s)}]]

\* The sum that Mean divides.
SumOf(b, N) == MapThenSumSet(LAMBDA i : b[i].v, N)

\* Of n positions at most.
UpTo(P, n) == {s \in P : Cardinality(s) <= n}

LEMMA PickRemoves ==
    ASSUME NEW N, IsFiniteSet(N), NEW s \in SUBSET N
    PROVE  /\ IsFiniteSet(s) /\ Cardinality(s) \in Nat
           /\ s = {} <=> Cardinality(s) = 0
           /\ s # {} => /\ Pick(s) \in s /\ s \ {Pick(s)} \in SUBSET N
                        /\ Cardinality(s \ {Pick(s)}) = Cardinality(s) - 1
<1>1. IsFiniteSet(s) /\ Cardinality(s) \in Nat
    BY FS_Subset, FS_CardinalityType
<1>2. s # {} => Pick(s) \in s
    BY DEF Pick
<1> QED
    BY <1>1, <1>2, FS_EmptySet, FS_RemoveElement

\* There is such a function: the fold of MapThenSumSet is defined.
LEMMA AddsExists ==
    ASSUME NEW b, NEW N, IsFiniteSet(N)
    PROVE  \E f : Adds(f, b, SUBSET N)
<1> DEFINE P == SUBSET N
           Fails(n) == ~ \E f : Adds(f, b, UpTo(P, n))
           T == {n \in Nat : Fails(n)}
           G(f, n) == [s \in UpTo(P, n) |->
                         IF s = {} THEN 0 ELSE b[Pick(s)].v + f[s \ {Pick(s)}]]
<1>9. /\ \A s \in P : Cardinality(s) \in Nat /\ (s = {} <=> Cardinality(s) = 0)
      /\ \A s \in P : s # {} => /\ s \ {Pick(s)} \in P
                                /\ Cardinality(s \ {Pick(s)}) = Cardinality(s) - 1
    BY PickRemoves
<1> HIDE DEF P
<1>1. ~Fails(0)
  <2>1. \A s \in UpTo(P, 0) : s = {}
      BY <1>9 DEF UpTo
  <2>2. Adds(G(<<>>, 0), b, UpTo(P, 0))
    <3>1. G(<<>>, 0) = [s \in UpTo(P, 0) |-> 0]
        BY <2>1
    <3> QED
        BY <2>1, <3>1 DEF Adds
  <2> QED
      BY <2>2
<1>2. \A n \in Nat : n # 0 /\ ~Fails(n - 1) => ~Fails(n)
  <2> SUFFICES ASSUME NEW n \in Nat, n # 0, NEW f, Adds(f, b, UpTo(P, n - 1))
               PROVE  \E g : Adds(g, b, UpTo(P, n))
      OBVIOUS
  <2>1. \A s \in UpTo(P, n) : s # {} => s \ {Pick(s)} \in UpTo(P, n - 1)
      BY <1>9 DEF UpTo
  <2>2. \A s \in UpTo(P, n - 1) : s \in UpTo(P, n)
      BY <1>9 DEF UpTo
  <2>3. \A s \in UpTo(P, n - 1) : f[s] = G(f, n)[s]
      BY <2>2 DEF Adds
  <2>4. G(f, n) = [s \in UpTo(P, n) |->
                     IF s = {} THEN 0 ELSE b[Pick(s)].v + G(f, n)[s \ {Pick(s)}]]
    <3> HIDE DEF G
    <3>1. \A s \in UpTo(P, n) : s # {} => f[s \ {Pick(s)}] = G(f, n)[s \ {Pick(s)}]
        BY <2>1, <2>3
    <3> QED
        BY <3>1 DEF G
  <2> HIDE DEF G
  <2> QED
      BY <2>4 DEF Adds
<1>3. T = {}
  <2> SUFFICES ASSUME T # {}
               PROVE  FALSE
      OBVIOUS
  <2> HIDE DEF Fails
  <2>1. PICK n \in T : \A m \in T : n <= m
    <3>1. T \subseteq Nat
        OBVIOUS
    <3> HIDE DEF T
    <3> QED
        BY <3>1, LeastNatural
  <2>2. n \in Nat /\ Fails(n) /\ n # 0
      BY <1>1, <2>1
  <2>3. n - 1 \in Nat /\ ~Fails(n - 1)
      BY <2>1, <2>2
  <2> QED
      BY <1>2, <2>2, <2>3
<1>4. Cardinality(N) \in Nat /\ UpTo(P, Cardinality(N)) = SUBSET N
    BY FS_Subset, FS_CardinalityType DEF UpTo, P
<1> HIDE DEF Fails
<1>5. ~Fails(Cardinality(N))
    BY <1>3, <1>4
<1> QED
    BY <1>4, <1>5 DEF Fails

\* The sum lies between so many times the least and so many times the greatest number.
LEMMA SumBetween ==
    ASSUME NEW b, NEW N, IsFiniteSet(N), NEW lo \in Int, NEW hi \in Int,
           \A i \in N : b[i].v \in Int /\ lo <= b[i].v /\ b[i].v <= hi
    PROVE  /\ SumOf(b, N) \in Int
           /\ Cardinality(N) * lo <= SumOf(b, N) /\ SumOf(b, N) <= Cardinality(N) * hi
<1> DEFINE P == SUBSET N
           f == CHOOSE f : Adds(f, b, SUBSET N)
           Bounded(s) == /\ f[s] \in Int
                         /\ Cardinality(s) * lo <= f[s] /\ f[s] <= Cardinality(s) * hi
           T == {Cardinality(s) : s \in {s \in P : ~Bounded(s)}}
<1>9. /\ \A s \in P : Cardinality(s) \in Nat /\ (s = {} <=> Cardinality(s) = 0)
      /\ \A s \in P : s # {} => /\ s \ {Pick(s)} \in P
                                /\ Cardinality(s \ {Pick(s)}) = Cardinality(s) - 1
    BY PickRemoves
<1> HIDE DEF P
<1>1. SumOf(b, N) = f[N]
    BY Zenon DEF SumOf, MapThenSumSet, MapThenFoldSet, Adds, Pick
<1>2. Adds(f, b, SUBSET N)
    BY AddsExists
<1> HIDE DEF f
<1>3. \A s \in P : f[s] = IF s = {} THEN 0 ELSE b[Pick(s)].v + f[s \ {Pick(s)}]
    BY <1>2 DEF Adds, P
<1>4. T = {}
  <2> SUFFICES ASSUME T # {}
               PROVE  FALSE
      OBVIOUS
  <2>1. T \subseteq Nat
    <3> HIDE DEF Bounded
    <3> QED
        BY <1>9
  <2>2. PICK n \in T : \A m \in T : n <= m
    <3> HIDE DEF T
    <3> QED
        BY <2>1, LeastNatural
  <2>3. PICK s \in P : n = Cardinality(s) /\ ~Bounded(s)
      BY <2>2
  <2>4. s # {}
    <3> SUFFICES ASSUME s = {}
                 PROVE  Bounded(s)
        BY <2>3
    <3>1. Cardinality(s) = 0 /\ f[s] = 0
        BY <1>3, <1>9
    <3>2. 0 * lo = 0 /\ 0 * hi = 0
        OBVIOUS
    <3> QED
        BY <3>1, <3>2
  <2> DEFINE r == s \ {Pick(s)}
             v == b[Pick(s)].v
  <2>5. /\ r \in P /\ Cardinality(r) = n - 1 /\ n \in Nat
        /\ v \in Int /\ lo <= v /\ v <= hi
    <3>1. r \in P /\ Cardinality(r) = n - 1 /\ n \in Nat
      <4> HIDE DEF Bounded
      <4> QED
          BY <1>9, <2>3, <2>4
    <3>2. Pick(s) \in N
        BY <2>4 DEF Pick, P
    <3> QED
        BY <3>1, <3>2
  <2>6. Bounded(r)
    <3> HIDE DEF Bounded, r
    <3>1. ~(n <= Cardinality(r))
        BY <2>5
    <3> QED
        BY <2>2, <2>5, <3>1
  <2>7. f[s] = v + f[r]
      BY <1>3, <2>4
  <2> HIDE DEF r, v
  <2>8. (n - 1) * lo + lo = n * lo /\ (n - 1) * hi + hi = n * hi
      BY <2>5
  <2>9. (n - 1) * lo \in Int /\ (n - 1) * hi \in Int /\ n * lo \in Int /\ n * hi \in Int
      BY <2>5
  <2> QED
      BY <2>3, <2>5, <2>6, <2>7, <2>8, <2>9
<1>5. Bounded(N)
  <2> HIDE DEF Bounded
  <2> QED
      BY <1>4 DEF P
<1> QED
    BY <1>1, <1>5

\* What lies between so many times two numbers lies between them when divided.
LEMMA DivBetween ==
    ASSUME NEW s \in Int, NEW n \in Nat \ {0}, NEW lo \in Int, NEW hi \in Int,
           n * lo <= s, s <= n * hi
    PROVE  s \div n \in Int /\ lo <= s \div n /\ s \div n <= hi
<1> DEFINE q == s \div n
<1>1. q \in Int /\ n * q <= s /\ s < n * q + n
    OBVIOUS
<1> HIDE DEF q
<1>2. \A d \in Int : d >= 1 => n * d >= n
    OBVIOUS
<1>3. lo <= q
  <2> SUFFICES ASSUME lo - q >= 1
               PROVE  FALSE
      BY <1>1
  <2>1. n * (lo - q) >= n /\ n * (lo - q) = n * lo - n * q
      BY <1>1, <1>2
  <2> QED
      BY <1>1, <2>1
<1>4. q <= hi
  <2> SUFFICES ASSUME q - hi >= 1
               PROVE  FALSE
      BY <1>1
  <2>1. n * (q - hi) >= n /\ n * (q - hi) = n * q - n * hi
      BY <1>1, <1>2
  <2> QED
      BY <1>1, <2>1
<1> QED
    BY <1>1, <1>3, <1>4 DEF q

\* The mean lies between the least and the greatest number (obs_QueryMean).
LEMMA MeanBetweenExtremes ==
    ASSUME NEW b \in Seq(Samples), Numbers(b) # {}
    PROVE  /\ Mean(b) \in Int
           /\ Min(Values(b)) <= Mean(b) /\ Mean(b) <= Max(Values(b))
<1> DEFINE N == Numbers(b)
           lo == Min(Values(b))
           hi == Max(Values(b))
           sum == SumOf(b, N)
           n == Cardinality(N)
<1>1. /\ Values(b) \subseteq Int /\ lo \in Values(b) /\ hi \in Values(b)
      /\ \A v \in Values(b) : lo <= v /\ v <= hi
    BY ExtremesExist
<1>2. \A i \in N : b[i].v \in Values(b)
    BY DEF Values
<1>3. IsFiniteSet(N)
  <2>1. N \subseteq 1 .. Len(b) /\ Len(b) \in Nat
      BY LenProperties DEF Numbers
  <2>2. IsFiniteSet(1 .. Len(b))
      BY <2>1, FS_Interval
  <2> QED
      BY <2>1, <2>2, FS_Subset
<1>4. n \in Nat \ {0}
    BY <1>3, FS_CardinalityType, FS_EmptySet
<1> HIDE DEF N, lo, hi
<1>5. \A i \in N : b[i].v \in Int /\ lo <= b[i].v /\ b[i].v <= hi
    BY <1>1, <1>2
<1>6. sum \in Int /\ n * lo <= sum /\ sum <= n * hi
    BY <1>1, <1>3, <1>5, SumBetween
<1>7. Mean(b) = sum \div n
    BY Zenon DEF Mean, SumOf, N
<1> HIDE DEF sum, n
<1>8. sum \div n \in Int /\ lo <= sum \div n /\ sum \div n <= hi
    BY <1>1, <1>4, <1>6, DivBetween
<1> QED
    BY <1>7, <1>8 DEF lo, hi

-----------------------------------------------------------------------------
(* The buffer *)

\* What is left of a buffer that is cut to n samples.
LEMMA TruncateKeeps ==
    ASSUME NEW b \in Seq(Samples), NEW n \in Nat
    PROVE  /\ TruncateBuffer(b, n) \in Seq(Samples)
           /\ Len(TruncateBuffer(b, n)) <= n
           /\ \A i \in DOMAIN TruncateBuffer(b, n) :
                 \E j \in DOMAIN b : TruncateBuffer(b, n)[i] = b[j]
<1>1. Len(b) \in Nat /\ DOMAIN b = 1 .. Len(b) /\ \A i \in 1 .. Len(b) : b[i] \in Samples
    BY LenProperties, ElementOfSeq
<1>2. CASE ~(Len(b) > n)
    BY <1>1, <1>2 DEF TruncateBuffer
<1>3. CASE Len(b) > n
  <2> DEFINE m == Len(b) - n + 1
             c == SubSeq(b, m, Len(b))
  <2>1. TruncateBuffer(b, n) = c
      BY <1>3 DEF TruncateBuffer
  <2>2. m \in 1 .. Len(b) + 1 /\ Len(b) - m + 1 = n
      BY <1>1, <1>3
  <2>3. \A i \in 1 .. n : i + m - 1 \in 1 .. Len(b)
      BY <1>1, <1>3
  <2>4. c \in Seq(Samples) /\ Len(c) = n /\ \A i \in 1 .. n : c[i] = b[i + m - 1]
      <3> HIDE DEF m
      <3> QED
          BY <1>1, <1>3, <2>2, <2>3, SMTT(30)
  <2>5. DOMAIN c = 1 .. n
      <3> HIDE DEF c
      <3> QED
          BY <2>4, LenProperties
  <2> HIDE DEF c, m
  <2> QED
      BY <1>1, <2>1, <2>3, <2>4, <2>5
<1> QED
    BY <1>1, <1>2, <1>3

\* Everything in b has type t and is in S.
Holds(b, t, S) == \A i \in DOMAIN b : b[i].t = t /\ b[i] \in S

\* A sample that is pushed joins what is in the buffer, if it has the same type.
LEMMA BufferedKeeps ==
    ASSUME NEW x \in Samples, NEW late \in BOOLEAN, NEW S,
           buffer \in Seq(Samples), maxCount \in Nat, Len(buffer) <= maxCount,
           Holds(buffer, bufferedType, S)
    PROVE  /\ Buffered(x, late) \in Seq(Samples)
           /\ Len(Buffered(x, late)) <= maxCount
           /\ Holds(Buffered(x, late), BufferedType(x), S \cup {x})
           /\ maxCount # 0 => BufferedType(x) = x.t
           /\ maxCount = 0 => Buffered(x, late) = <<>>
<1>1. CASE maxCount = 0
  <2>1. buffer = <<>>
      BY <1>1, LenProperties, EmptySeq
  <2> QED
      BY <1>1, <2>1 DEF Buffered, BufferedType, Holds
<1>2. CASE maxCount # 0
  <2> DEFINE k == Kept(x)
             b == IF late THEN k ELSE Append(k, x)
  <2>1. k \in Seq(Samples) /\ Holds(k, x.t, S)
      BY DEF Kept, Holds
  <2> HIDE DEF k
  <2>2. b \in Seq(Samples) /\ Holds(b, x.t, S \cup {x})
    <3>1. CASE late
        BY <2>1, <3>1 DEF Holds
    <3>2. CASE ~late
        <4>1. Len(k) \in Nat /\ DOMAIN k = 1 .. Len(k)
            BY <2>1, LenProperties
        <4>2. /\ b \in Seq(Samples) /\ DOMAIN b = 1 .. (Len(k) + 1) /\ b[Len(k) + 1] = x
              /\ \A i \in 1 .. Len(k) : b[i] = k[i]
            BY <2>1, <3>2, <4>1, AppendProperties, LenProperties
        <4> HIDE DEF b
        <4>3. \A i \in DOMAIN b : i \in DOMAIN k \/ i = Len(k) + 1
            BY <4>1, <4>2
        <4> QED
            BY <2>1, <4>1, <4>2, <4>3 DEF Holds
    <3> QED
        BY <3>1, <3>2
  <2>3. Buffered(x, late) = TruncateBuffer(b, maxCount) /\ BufferedType(x) = x.t
      BY <1>2 DEF Buffered, BufferedType, k
  <2> HIDE DEF b
  <2> QED
      BY <1>2, <2>2, <2>3, TruncateKeeps DEF Holds
<1> QED
    BY <1>1, <1>2

-----------------------------------------------------------------------------
(* The transforms *)

\* A transform changes the value of a sample, not its type.
LEMMA TransformKeepsType ==
    ASSUME NEW x \in Samples, NEW b, NEW t
    PROVE  ApplyTransform(x, b, t).t = x.t /\ x.t \in Types
<1>1. x \in [t : Types, v : Int \cup {Nan}]
    BY FilterAssumption
<1>2. \A z : [x EXCEPT !.v = z].t = x.t
    BY <1>1
<1>3. \A z : UpdateSample(x, z).t = x.t
    BY <1>2, Zenon DEF UpdateSample
<1> QED
    BY <1>1, <1>3, Zenon DEF ApplyTransform

\* Under max or min what comes out of a buffer of samples of S is one of them.
LEMMA ExtremeFromBuffer ==
    ASSUME NEW S, NEW x \in Samples, x \in S, NEW b \in Seq(Samples), NEW t,
           Holds(b, t, S), b # <<>> => t = x.t,
           transform \in {"max", "min"},
           x.t # "boolean", ApplyTransform(x, b, t).v # Nan
    PROVE  ApplyTransform(x, b, t) \in S
<1> DEFINE y == ApplyTransform(x, b, t)
           q == Query(b, t)
<1>1. x \in [t : Types, v : Int \cup {Nan}]
    BY FilterAssumption
<1>2. y = UpdateSample(x, q)
    BY DEF ApplyTransform
<1>3. CASE x.t # "numeric"
  <2>1. y = x
      BY <1>2, <1>3, Zenon DEF UpdateSample
  <2> QED
      BY <2>1
<1>4. CASE x.t = "numeric"
  <2> HIDE DEF q
  <2>1. y = [x EXCEPT !.v = q]
      BY <1>2, <1>4, Zenon DEF UpdateSample
  <2>2. y.v = q
      BY <1>1, <2>1
  <2>3. q # Nan
      BY <2>2
  <2>4. Numbers(b) # {} /\ (q = Max(Values(b)) \/ q = Min(Values(b)))
      BY <2>3 DEF Query, q
  <2>5. q \in Values(b)
      BY <2>4, ExtremesExist
  <2>6. PICK i \in DOMAIN b : q = b[i].v
      BY <2>5 DEF Values, Numbers
  <2>7. b # <<>> /\ b[i] \in Samples
    <3>1. Len(b) \in Nat /\ DOMAIN b = 1 .. Len(b) /\ i \in 1 .. Len(b)
        BY <2>6, LenProperties
    <3> QED
        BY <3>1, ElementOfSeq, EmptySeq
  <2>8. b[i].t = x.t /\ b[i] \in S /\ b[i] \in [t : Types, v : Int \cup {Nan}]
      BY <2>6, <2>7, FilterAssumption DEF Holds
  <2> HIDE DEF y
  <2>9. y = b[i]
      BY <1>1, <2>1, <2>6, <2>8
  <2> QED
      BY <2>8, <2>9 DEF y
<1> QED
    BY <1>3, <1>4

\* What a transform shows is a number or Nan.
LEMMA TransformTyped ==
    ASSUME NEW x \in Samples, NEW b \in Seq(Samples), NEW t,
           transform \in {"none", "mean", "max", "min"}
    PROVE  ApplyTransform(x, b, t).v \in Int \cup {Nan}
<1> DEFINE q == Query(b, t)
<1>1. x \in [t : Types, v : Int \cup {Nan}] /\ One \in Int
    BY FilterAssumption
<1>2. Numbers(b) # {} => /\ Mean(b) \in Int
                         /\ Max(Values(b)) \in Int /\ Min(Values(b)) \in Int
    BY ExtremesExist, MeanBetweenExtremes
<1>3. q \in Int \cup {Nan}
    BY <1>2 DEF Query
<1> HIDE DEF q
<1>4. \A z : [x EXCEPT !.v = z].v = z
    BY <1>1
<1>5. UpdateSample(x, q).v \in Int \cup {Nan}
  <2>1. CASE x.t = "numeric"
      BY <1>3, <1>4, <2>1 DEF UpdateSample
  <2>2. CASE x.t # "numeric"
      BY <1>1, <1>4, <2>2 DEF UpdateSample
  <2> QED
      BY <2>1, <2>2
<1> QED
    BY <1>1, <1>5, Zenon DEF ApplyTransform, q

\* Under mean what comes out of a buffer of numbers of S lies between two of them.
LEMMA MeanFromBuffer ==
    ASSUME NEW S, NEW x \in Samples, NEW b \in Seq(Samples), NEW t,
           Holds(b, t, S), b # <<>> => t = x.t,
           transform = "mean", x.t = "numeric", ApplyTransform(x, b, t).v # Nan
    PROVE  \E a, c \in {z \in S : z.t = "numeric" /\ z.v # Nan} :
              a.v <= ApplyTransform(x, b, t).v /\ ApplyTransform(x, b, t).v <= c.v
<1> DEFINE y == ApplyTransform(x, b, t)
           q == Query(b, t)
           Z == {z \in S : z.t = "numeric" /\ z.v # Nan}
<1>1. x \in [t : Types, v : Int \cup {Nan}]
    BY FilterAssumption
<1>2. y.v = q
  <2>1. y = [x EXCEPT !.v = q]
      BY Zenon DEF ApplyTransform, UpdateSample
  <2> HIDE DEF y, q
  <2> QED
      BY <1>1, <2>1
<1>3. Numbers(b) # {} /\ q = Mean(b)
    BY <1>2 DEF Query
<1> HIDE DEF y, q
<1>4. \A v \in Values(b) : \E z \in Z : z.v = v
  <2> SUFFICES ASSUME NEW i \in Numbers(b)
               PROVE  \E z \in Z : z.v = b[i].v
      BY DEF Values
  <2>1. i \in DOMAIN b /\ b[i].v # Nan
      BY DEF Numbers
  <2>2. b # <<>>
      BY <2>1, EmptySeq
  <2> QED
      BY <2>1, <2>2 DEF Holds
<1> HIDE DEF Z
<1>5. PICK a \in Z : a.v = Min(Values(b))
    BY <1>3, <1>4, ExtremesExist
<1>6. PICK c \in Z : c.v = Max(Values(b))
    BY <1>3, <1>4, ExtremesExist
<1>7. a.v <= y.v /\ y.v <= c.v
    BY <1>2, <1>3, <1>5, <1>6, MeanBetweenExtremes
<1> QED
    BY <1>7 DEF Z, y

-----------------------------------------------------------------------------
(* The inductive invariant *)

\* While a transform is set, what is buffered was pushed since.
SeenCovers == transform # "none" => \A i \in DOMAIN buffer : buffer[i] \in seen

\* Once a pushed sample has become current there is a current value, and the time the
\* code computes is not longer than has passed: wraps and held samples shorten it.
Waits == sinceShown # Forever => current # None /\ elapsed <= sinceShown

\* What is current and what was recorded holds a number or Nan.
Numeric == \A x \in {current, pushed} : x.v \in Int \cup {Nan}

IInv == TypeOK /\ Numeric /\ SeenCovers /\ Waits /\ Throttled /\ ExtremeIsSample /\ MeanBetween

LEMMA InitHolds == Init => IInv
<1> SUFFICES ASSUME Init
             PROVE  IInv
    OBVIOUS
<1>1. DOMAIN <<>> = {} /\ <<>> \in Seq(Samples) /\ Len(<<>>) = 0
    BY EmptySeq
<1>2. TypeOK
  <2>1. \A x \in {current, pushed} : x = None
      BY DEF Init
  <2>2. /\ buffer \in Seq(Samples) /\ Len(buffer) <= maxCount /\ maxCount \in Nat
        /\ \A i \in DOMAIN buffer : buffer[i].t = bufferedType
      BY <1>1 DEF Init
  <2>3. slack \in Int /\ sinceShown \in 0 .. Forever
      BY FilterAssumption DEF Init
  <2> QED
      BY <2>1, <2>2, <2>3, FilterAssumption DEF Init, TypeOK, Types
<1>3. Numeric /\ SeenCovers /\ Waits /\ Throttled /\ ExtremeIsSample /\ MeanBetween
    BY FilterAssumption
    DEF Init, None, Numeric, SeenCovers, Waits, Throttled, ExtremeIsSample, MeanBetween
<1> QED
    BY <1>2, <1>3 DEF IInv

\* A push.
LEMMA PushKeeps ==
    ASSUME IInv, NEW x \in Samples, NEW late \in BOOLEAN, res_Push(x, late)
    PROVE  IInv'
<1> DEFINE y == ApplyTransform(x, buffer', bufferedType')
           Shown == ShouldAccept(y) /\ Record(y)
           Dropped == UNCHANGED <<current, pushed, time>>
<1>1. Shown \/ Dropped
    BY DEF res_Push
<1>2. /\ buffer' = Buffered(x, late) /\ bufferedType' = BufferedType(x)
      /\ seen' = IF transform = "none" THEN seen ELSE seen \cup {x}
      /\ parity' = 1 - parity
      /\ UNCHANGED <<limits, transform, maxCount, override, default, update>>
    BY DEF res_Push
<1>3. y.t = x.t /\ x.t \in Types /\ y # None
    BY TransformKeepsType DEF Types, None
<1> DEFINE S == IF transform = "none" THEN Samples ELSE seen
<1>4. buffer \in Seq(Samples) /\ maxCount \in Nat /\ Len(buffer) <= maxCount
    BY DEF IInv, TypeOK
<1>5. Holds(buffer, bufferedType, S)
  <2>1. \A i \in DOMAIN buffer : buffer[i] \in Samples
    <3>1. DOMAIN buffer = 1 .. Len(buffer)
        BY <1>4, LenProperties
    <3> QED
        BY <1>4, <3>1, ElementOfSeq
  <2> QED
      BY <2>1 DEF IInv, TypeOK, SeenCovers, Holds
<1>6. /\ buffer' \in Seq(Samples)
      /\ Len(buffer') <= maxCount
      /\ Holds(buffer', bufferedType', S \cup {x})
      /\ maxCount # 0 => bufferedType' = x.t
      /\ maxCount = 0 => buffer' = <<>>
  <2> HIDE DEF S
  <2> QED
      BY <1>2, <1>4, <1>5, BufferedKeeps
<1>7. transform # "none" => S \cup {x} = seen' /\ x \in seen'
    BY <1>2
<1> HIDE DEF y, S
<1>8. SeenCovers'
    BY <1>2, <1>6, <1>7 DEF SeenCovers, Holds
<1>9. TypeOK'
  <2>1. /\ buffer' \in Seq(Samples) /\ Len(buffer') <= maxCount'
        /\ bufferedType' \in Types
        /\ \A i \in DOMAIN buffer' : buffer'[i].t = bufferedType'
      BY <1>2, <1>3, <1>6 DEF Holds, BufferedType, IInv, TypeOK
  <2>2. seen' \subseteq Samples /\ parity' \in {0, 1}
      BY <1>2 DEF IInv, TypeOK
  <2>3. CASE Shown
    <3>1. pushed' = y /\ elapsed' = 0
        BY <2>3 DEF Record
    <3>2. current' \in {current, y, override}
        BY <2>3 DEF Record
    <3>3. sinceShown' \in 0 .. Forever /\ slack' \in Int
        BY <2>3, FilterAssumption DEF Record, IInv, TypeOK
    <3>4. \A z \in {current', pushed'} : z.t \in Types \/ z = None
        BY <1>3, <3>1, <3>2, FilterAssumption DEF IInv, TypeOK
    <3>5. elapsed' \in 0 .. (W - 1)
        BY <3>1, FilterAssumption
    <3> QED
        BY <1>2, <2>1, <2>2, <3>3, <3>4, <3>5 DEF IInv, TypeOK, limits, update
  <2>4. CASE Dropped
      BY <1>2, <2>1, <2>2, <2>4 DEF IInv, TypeOK, limits, update, time
  <2> QED
      BY <1>1, <2>3, <2>4
<1>10. Waits' /\ Throttled'
  <2>1. CASE Dropped
      BY <1>2, <2>1 DEF IInv, Waits, Throttled, time
  <2>2. CASE Shown /\ changing
    <3>1. elapsed' = 0 /\ UNCHANGED <<current, sinceShown, slack>>
        BY <2>2 DEF Record
    <3> QED
        BY <3>1 DEF IInv, TypeOK, Waits, Throttled
  <2>3. CASE Shown /\ ~changing
    <3>1. /\ elapsed' = 0 /\ sinceShown' = 0
          /\ current' = IF override = None THEN y ELSE override
          /\ slack' = IF minPeriod = Off THEN Forever ELSE sinceShown - minPeriod
        BY <2>3 DEF Record
    <3>2. Forever \in Nat /\ sinceShown \in Int /\ (minPeriod = Off \/ minPeriod \in Int)
        BY FilterAssumption DEF IInv, TypeOK
    <3>3. minPeriod # Off => sinceShown >= minPeriod
      <4>1. SUFFICES ASSUME minPeriod # Off
                     PROVE  sinceShown >= minPeriod
          OBVIOUS
      <4>2. minPeriod \in 1 .. Forever /\ elapsed \in Int /\ sinceShown \in 0 .. Forever
          BY <4>1, FilterAssumption DEF IInv, TypeOK
      <4>3. CASE sinceShown = Forever
          BY <4>2, <4>3, FilterAssumption
      <4>4. CASE sinceShown # Forever
        <5>1. current # None /\ elapsed <= sinceShown
            BY <4>4 DEF IInv, Waits
        <5>2. elapsed >= minPeriod
            BY <2>3, <4>1, <5>1 DEF ShouldAccept, PeriodOver
        <5> QED
            BY <4>2, <5>1, <5>2
      <4> QED
          BY <4>3, <4>4
    <3>4. Throttled'
        BY <3>1, <3>2, <3>3 DEF Throttled
    <3>5. Waits'
        BY <1>3, <3>1 DEF Waits
    <3> QED
        BY <3>4, <3>5
  <2> QED
      BY <1>1, <2>1, <2>2, <2>3
<1>11. ExtremeIsSample'
  <2>1. CASE Dropped
      BY <1>2, <2>1 DEF IInv, ExtremeIsSample
  <2>2. CASE Shown
    <3>1. pushed' = y
        BY <2>2 DEF Record
    <3>2. SUFFICES ASSUME transform \in {"max", "min"}, y.t # "boolean", y.v # Nan
                   PROVE  y \in seen'
        BY <1>2, <3>1 DEF ExtremeIsSample
    <3>3. x \in seen' /\ Holds(buffer', bufferedType', seen') /\ x.t # "boolean"
        BY <1>3, <1>6, <1>7, <3>2
    <3>4. buffer' # <<>> => bufferedType' = x.t
        BY <1>6
    <3> QED
        BY <1>6, <3>2, <3>3, <3>4, ExtremeFromBuffer DEF y
  <2> QED
      BY <1>1, <2>1, <2>2
<1>12. MeanBetween'
  <2>1. CASE Dropped
      BY <1>2, <2>1 DEF IInv, MeanBetween
  <2>2. CASE Shown
    <3>1. pushed' = y
        BY <2>2 DEF Record
    <3>2. SUFFICES ASSUME transform = "mean", y.t = "numeric", y.v # Nan
                   PROVE  \E a, b \in {z \in seen' : z.t = "numeric" /\ z.v # Nan} :
                             a.v <= y.v /\ y.v <= b.v
        BY <1>2, <3>1 DEF MeanBetween
    <3>3. Holds(buffer', bufferedType', seen') /\ x.t = "numeric"
        BY <1>3, <1>6, <1>7, <3>2
    <3>4. buffer' # <<>> => bufferedType' = x.t
        BY <1>6
    <3> QED
        BY <1>6, <3>2, <3>3, <3>4, MeanFromBuffer DEF y
  <2> QED
      BY <1>1, <2>1, <2>2
<1>13. Numeric'
  <2>1. CASE Dropped
      BY <2>1 DEF IInv, Numeric
  <2>2. CASE Shown
    <3>1. pushed' = y /\ current' \in {current, y, override}
        BY <2>2 DEF Record
    <3>2. y.v \in Int \cup {Nan}
      <4>1. transform \in {"none", "mean", "max", "min"}
          BY FilterAssumption DEF IInv, TypeOK
      <4> QED
          BY <1>6, <4>1, TransformTyped DEF y
    <3>3. override.v \in Int \cup {Nan}
        BY FilterAssumption DEF IInv, TypeOK, None
    <3> QED
        BY <3>1, <3>2, <3>3 DEF IInv, Numeric
  <2> QED
      BY <1>1, <2>1, <2>2
<1> QED
    BY <1>8, <1>9, <1>10, <1>11, <1>12, <1>13 DEF IInv

\* The clock.
LEMMA TickKeeps ==
    ASSUME IInv, Tick
    PROVE  IInv'
<1>1. elapsed \in 0 .. (W - 1) /\ sinceShown \in 0 .. Forever /\ W \in Nat \ {0} /\ Forever \in Nat
    BY FilterAssumption DEF IInv, TypeOK
<1>2. elapsed' \in 0 .. (W - 1) /\ elapsed' <= elapsed + 1
    BY <1>1 DEF Tick
<1>3. sinceShown' \in 0 .. Forever
    BY <1>1 DEF Tick
<1>4. Waits'
  <2>1. SUFFICES ASSUME sinceShown' # Forever
                 PROVE  current' # None /\ elapsed' <= sinceShown'
      BY DEF Waits
  <2>2. sinceShown < Forever /\ sinceShown' = sinceShown + 1
      BY <1>1, <2>1 DEF Tick
  <2>3. current # None /\ elapsed <= sinceShown
      BY <2>2, <1>1 DEF IInv, Waits
  <2> QED
      BY <1>1, <1>2, <2>2, <2>3 DEF Tick, values
<1>5. UNCHANGED <<limits, stored, values, slack, update, parity>>
    BY DEF Tick
<1> QED
    BY <1>2, <1>3, <1>4, <1>5
    DEF IInv, TypeOK, Numeric, SeenCovers, Throttled, ExtremeIsSample, MeanBetween,
        limits, stored, values, update

\* The settings of the filter.
LEMMA SettingKeeps ==
    ASSUME IInv,
           lowLimit' \in LowLimits \cup {Off}, highLimit' \in HighLimits \cup {Off},
           changeBy' \in Changes \cup {Off}, minPeriod' \in Periods \cup {Off},
           changing' \in BOOLEAN, updating' \in BOOLEAN,
           UNCHANGED <<stored, values, time, parity>>
    PROVE  IInv'
BY DEF IInv, TypeOK, Numeric, SeenCovers, Waits, Throttled, ExtremeIsSample, MeanBetween,
       stored, values, time

\* The transform and the size of the buffer.
LEMMA TransformKeeps ==
    ASSUME IInv, NEW f \in Transforms, res_SetTransform(f)
    PROVE  IInv'
<1>1. /\ transform' = f /\ buffer' = <<>> /\ pushed' = None /\ seen' = {}
      /\ maxCount' = IF f # "none" /\ maxCount = 0 THEN 1 ELSE maxCount
      /\ changing' = (changing \/ updating) /\ updating' = updating
      /\ UNCHANGED <<limits, bufferedType, current, override, default, time, parity>>
    BY DEF res_SetTransform, Mark
<1>2. changing' \in BOOLEAN /\ updating' \in BOOLEAN
    BY <1>1 DEF IInv, TypeOK
<1>3. /\ buffer' \in Seq(Samples) /\ maxCount' \in Nat /\ Len(buffer') <= maxCount'
      /\ DOMAIN buffer' = {}
    BY <1>1, EmptySeq DEF IInv, TypeOK
<1>4. \A x \in {current', pushed'} : x.t \in Types \/ x = None
    BY <1>1 DEF IInv, TypeOK
<1>5. TypeOK'
    BY <1>1, <1>2, <1>3, <1>4 DEF IInv, TypeOK, limits, time
<1>6. /\ Numeric' /\ SeenCovers' /\ Waits' /\ Throttled'
      /\ ExtremeIsSample' /\ MeanBetween'
    BY <1>1, <1>3
    DEF IInv, Numeric, None, SeenCovers, Waits, Throttled, ExtremeIsSample, MeanBetween, time
<1> QED
    BY <1>5, <1>6 DEF IInv

LEMMA MaxCountKeeps ==
    ASSUME IInv, NEW n \in Counts, res_SetBufferMaxCount(n)
    PROVE  IInv'
<1>1. /\ maxCount' = n /\ n \in Nat /\ buffer' = TruncateBuffer(buffer, n)
      /\ UNCHANGED <<limits, transform, bufferedType, seen, values, time, update, parity>>
    BY FilterAssumption DEF res_SetBufferMaxCount
<1>2. buffer \in Seq(Samples)
    BY DEF IInv, TypeOK
<1>3. /\ buffer' \in Seq(Samples) /\ Len(buffer') <= n
      /\ \A i \in DOMAIN buffer' : \E j \in DOMAIN buffer : buffer'[i] = buffer[j]
    BY <1>1, <1>2, TruncateKeeps
<1>4. \A i \in DOMAIN buffer' : buffer'[i].t = bufferedType'
    BY <1>1, <1>3 DEF IInv, TypeOK
<1>5. TypeOK'
    BY <1>1, <1>3, <1>4 DEF IInv, TypeOK, limits, values, time, update
<1>6. SeenCovers'
    BY <1>1, <1>3 DEF IInv, SeenCovers
<1>7. Numeric' /\ Waits' /\ Throttled' /\ ExtremeIsSample' /\ MeanBetween'
    BY <1>1 DEF IInv, Numeric, Waits, Throttled, ExtremeIsSample, MeanBetween, values, time
<1> QED
    BY <1>5, <1>6, <1>7 DEF IInv

\* Defaults and overrides: a current value stays one.
LEMMA ValueKeeps ==
    ASSUME IInv, current' # None \/ current' = current,
           current'.t \in Types \/ current' = None, current'.v \in Int \cup {Nan},
           override' \in Overrides \cup {None}, default' \in Defaults \cup {None},
           UNCHANGED <<limits, stored, pushed, time, update, parity>>
    PROVE  IInv'
<1>1. \A x \in {current', pushed'} : x.t \in Types \/ x = None
    BY DEF IInv, TypeOK
<1>2. TypeOK'
    BY <1>1 DEF IInv, TypeOK, limits, stored, time, update
<1>3. /\ Numeric' /\ SeenCovers' /\ Waits' /\ Throttled'
      /\ ExtremeIsSample' /\ MeanBetween'
    BY DEF IInv, Numeric, SeenCovers, Waits, Throttled, ExtremeIsSample, MeanBetween, stored, time
<1> QED
    BY <1>2, <1>3 DEF IInv

\* Every step, one by one.
LEMMA NextKeeps == IInv /\ [Next]_vars => IInv'
<1> SUFFICES ASSUME IInv, [Next]_vars
             PROVE  IInv'
    OBVIOUS
<1>1. /\ lowLimit \in LowLimits \cup {Off} /\ highLimit \in HighLimits \cup {Off}
      /\ changeBy \in Changes \cup {Off} /\ minPeriod \in Periods \cup {Off}
      /\ changing \in BOOLEAN /\ updating \in BOOLEAN
      /\ (changing \/ updating) \in BOOLEAN
    BY DEF IInv, TypeOK
<1>2. /\ \A x \in Overrides \cup Defaults : x.t \in Types /\ x # None
      /\ override \in Overrides \cup {None} /\ default \in Defaults \cup {None}
      /\ \A x \in {current, pushed} : x.t \in Types \/ x = None
      /\ \A x \in {current, pushed} \cup Overrides \cup Defaults : x.v \in Int \cup {Nan}
    BY FilterAssumption DEF IInv, TypeOK, Numeric, Types, None
<1>3. CASE \E x \in Samples, late \in BOOLEAN : res_Push(x, late)
    BY <1>3, PushKeeps
<1>4. CASE Tick
    BY <1>4, TickKeeps
<1>5. CASE \E v \in LowLimits \cup {Off} : res_SetLowLimit(v)
    BY <1>1, <1>5, SettingKeeps DEF res_SetLowLimit, Mark
<1>6. CASE \E v \in HighLimits \cup {Off} : res_SetHighLimit(v)
    BY <1>1, <1>6, SettingKeeps DEF res_SetHighLimit, Mark
<1>7. CASE \E v \in Changes \cup {Off} : res_SetChangeBy(v)
    BY <1>1, <1>7, SettingKeeps DEF res_SetChangeBy, Mark
<1>8. CASE \E v \in Periods \cup {Off} : res_SetMinPeriod(v)
    BY <1>1, <1>8, SettingKeeps DEF res_SetMinPeriod, Mark
<1>9. CASE \E f \in Transforms : res_SetTransform(f)
    BY <1>9, TransformKeeps
<1>10. CASE \E n \in Counts : res_SetBufferMaxCount(n)
    BY <1>10, MaxCountKeeps
<1>11. CASE \E x \in Overrides : res_SetOverride(x)
    BY <1>2, <1>11, ValueKeeps DEF res_SetOverride
<1>12. CASE res_RemoveOverride
  <2>1. /\ override' = None
        /\ current' = IF pushed # None THEN pushed ELSE IF default # None THEN default ELSE current
        /\ UNCHANGED <<limits, stored, pushed, default, time, update, parity>>
      BY <1>12 DEF res_RemoveOverride
  <2>2. current' # None \/ current' = current
      BY <2>1
  <2>3. (current'.t \in Types \/ current' = None) /\ current'.v \in Int \cup {Nan}
      BY <1>2, <2>1
  <2> QED
      BY <1>2, <2>1, <2>2, <2>3, ValueKeeps
<1>13. CASE \E x \in Defaults : res_SetDefault(x)
    BY <1>2, <1>13, ValueKeeps DEF res_SetDefault
<1>14. CASE res_RemoveDefault
    BY <1>2, <1>14, ValueKeeps DEF res_RemoveDefault
<1>15. CASE res_StartUpdate
    BY <1>1, <1>15, SettingKeeps DEF res_StartUpdate, limits
<1>16. CASE res_EndUpdate
    BY <1>1, <1>16, SettingKeeps DEF res_EndUpdate, limits
<1>17. CASE UNCHANGED vars
    BY <1>1, <1>17, SettingKeeps DEF vars, limits, update
<1> QED
    BY <1>3, <1>4, <1>5, <1>6, <1>7, <1>8, <1>9, <1>10, <1>11, <1>12, <1>13, <1>14,
       <1>15, <1>16, <1>17 DEF Next

-----------------------------------------------------------------------------
(* The theorems *)

\* Every variable keeps its type, and the buffer holds samples of one type, no more than fit.
THEOREM FilterTyped == Spec => []TypeOK
<1>1. IInv => TypeOK
    BY DEF IInv
<1> QED
    BY <1>1, InitHolds, NextKeeps, PTL DEF Spec

\* Between two pushed samples that become current passes the minimum period, whatever
\* the time of last push was at first, and wherever the clock wraps (obs_ShouldAccept).
THEOREM PeriodKept == Spec => []Throttled
<1>1. IInv => Throttled
    BY DEF IInv
<1> QED
    BY <1>1, InitHolds, NextKeeps, PTL DEF Spec

\* What max and min make of a buffer of any size was pushed since the transform was set
\* (obs_QueryMax, obs_QueryMin, obs_SetTransform).
THEOREM ExtremesWerePushed == Spec => []ExtremeIsSample
<1>1. IInv => ExtremeIsSample
    BY DEF IInv
<1> QED
    BY <1>1, InitHolds, NextKeeps, PTL DEF Spec

\* What mean makes of a buffer of any size lies between two samples that were pushed
\* since the transform was set (obs_QueryMean, obs_SetTransform).
THEOREM MeansLieBetween == Spec => []MeanBetween
<1>1. IInv => MeanBetween
    BY DEF IInv
<1> QED
    BY <1>1, InitHolds, NextKeeps, PTL DEF Spec

\* The limits let pass what is in range, and no more.
LEMMA LimitsAreRange ==
    ASSUME IInv, NEW y, y.v \in Int \cup {Nan}
    PROVE  InRange(y) <=> (y.t = "numeric" => InLimits(y.v))
<1>1. /\ lowLimit \in Int \cup {Off} /\ highLimit \in Int \cup {Off}
      /\ Nan \notin Int /\ Off \notin Int
    BY FilterAssumption DEF IInv, TypeOK
<1>2. CASE y.v = Nan
    BY <1>2 DEF InRange, InLimits, Less
<1>3. CASE y.v \in Int /\ lowLimit # Off /\ highLimit # Off
  <2>1. lowLimit \in Int /\ highLimit \in Int /\ lowLimit # Nan /\ highLimit # Nan /\ y.v # Nan
      BY <1>1, <1>3
  <2> QED
      BY <1>3, <2>1 DEF InRange, InLimits, Less
<1>4. CASE y.v \in Int /\ ~(lowLimit # Off /\ highLimit # Off)
  <2>1. /\ lowLimit # Off => lowLimit \in Int /\ lowLimit # Nan
        /\ highLimit # Off => highLimit \in Int /\ highLimit # Nan
        /\ y.v # Nan
      BY <1>1, <1>4
  <2> QED
      BY <1>4, <2>1 DEF InRange, InLimits, Less
<1> QED
    BY <1>2, <1>3, <1>4

\* After a push of a sample in range that nothing keeps back the current value is within
\* changeBy of it, and one out of range changes nothing (obs_ShouldAccept).
LEMMA PushTracks ==
    ASSUME IInv, IInv', NEW x \in Samples, NEW late \in BOOLEAN, res_Push(x, late)
    PROVE  LET y == ApplyTransform(x, buffer', bufferedType') IN
           /\ ~InRange(y) => UNCHANGED <<current, pushed>>
           /\ InRange(y) /\ ~changing /\ override = None /\ (current = None \/ PeriodOver)
                => Near(current', y)
<1> DEFINE y == ApplyTransform(x, buffer', bufferedType')
<1>1. \/ ShouldAccept(y) /\ Record(y)
      \/ ~ShouldAccept(y) /\ UNCHANGED <<current, pushed, time>>
    BY DEF res_Push
<1>2. y.v \in Int \cup {Nan} /\ y # None
  <2>1. buffer' \in Seq(Samples) /\ transform \in {"none", "mean", "max", "min"}
      BY FilterAssumption DEF IInv, TypeOK
  <2> QED
      BY <2>1, TransformTyped, TransformKeepsType DEF Types, None
<1> HIDE DEF y
<1>3. InRange(y) <=> (y.t = "numeric" => InLimits(y.v))
    BY <1>2, LimitsAreRange
<1>4. CASE ~InRange(y)
    BY <1>1, <1>3, <1>4 DEF ShouldAccept, y
<1>5. CASE InRange(y) /\ ~changing /\ override = None /\ (current = None \/ PeriodOver)
  <2>1. CASE ShouldAccept(y) /\ Record(y)
    <3>1. current' = y
        BY <1>5, <2>1 DEF Record
    <3> QED
        BY <1>2, <1>4, <1>5, <3>1 DEF Near, y
  <2>2. CASE ~ShouldAccept(y) /\ current' = current
    <3>1. current # None /\ changeBy # Off /\ y.t = current.t /\ ~Differs(y)
        BY <1>3, <1>5, <2>2 DEF ShouldAccept, ChangesEnough
    <3>2. Near(current', y)
        BY <2>2, <3>1 DEF Differs, Near
    <3> QED
        BY <1>5, <3>2 DEF y
  <2> QED
      BY <1>1, <2>1, <2>2
<1>6. CASE InRange(y) /\ ~(~changing /\ override = None /\ (current = None \/ PeriodOver))
    BY <1>6 DEF y
<1> QED
    BY <1>4, <1>5, <1>6

\* The current value follows what is in range, however slowly samples drift and whatever
\* was held or overridden before (obs_ShouldAccept).
THEOREM CurrentTracks == Spec => Tracks
<1>1. IInv /\ IInv' /\ [Next]_vars =>
        [ \A x \in Samples, late \in BOOLEAN :
            res_Push(x, late) =>
              LET y == ApplyTransform(x, buffer', bufferedType') IN
              /\ ~InRange(y) => UNCHANGED <<current, pushed>>
              /\ InRange(y) /\ ~changing /\ override = None /\ (current = None \/ PeriodOver)
                   => Near(current', y) ]_vars
    BY PushTracks
<1> QED
    BY <1>1, InitHolds, NextKeeps, PTL DEF Spec, Tracks
=============================================================================
