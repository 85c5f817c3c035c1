---------------------------- MODULE RoutesProofs ----------------------------
(***************************************************************************)
(* Why the check in res_SetSource() is enough: a set of routes that can be *)
(* ranked has no loop, and every operation on routes leaves them ranked.   *)
(***************************************************************************)
EXTENDS Routes, Naturals, TLAPS

\* Data flows along the routes from lower ranks to higher ones.
RankedBy(src, rank) ==
    /\ rank \in [DOMAIN src -> Nat]
    /\ \A d \in DOMAIN src : src[d] # NoSource => rank[src[d]] < rank[d]
Ranked(src) == \E rank \in [DOMAIN src -> Nat] : RankedBy(src, rank)

\* The recursion over destList goes on from every destination it reaches.
LEMMA DownstreamClosed ==
    ASSUME NEW src, NEW here, NEW d \in DOMAIN src,
           src[d] \in Downstream(src, here) \cup {here}
    PROVE  d \in Downstream(src, here)
<1> SUFFICES ASSUME NEW S \in SUBSET DOMAIN src,
                    \A e \in DOMAIN src : src[e] \in S \cup {here} => e \in S
             PROVE  d \in S
  BY DEF Downstream
<1>1. Downstream(src, here) \subseteq S
  BY DEF Downstream
<1> QED BY <1>1

\* No route leads from a resource back to itself if ranks go up.
LEMMA RankedNoLoop ==
    ASSUME NEW R, NoSource \notin R, NEW src \in [R -> R \cup {NoSource}], Ranked(src)
    PROVE  NoLoop(src)
<1>1. PICK rank \in [R -> Nat] : RankedBy(src, rank)
  BY DEF Ranked
<1>2. SUFFICES ASSUME NEW r \in R, r \in Downstream(src, r) PROVE FALSE
  BY DEF NoLoop
<1> DEFINE S == {d \in R : rank[r] < rank[d]}
<1>3. \A d \in R : src[d] \in S \cup {r} => d \in S
  BY <1>1 DEF RankedBy
<1>4. S \in SUBSET DOMAIN src
  OBVIOUS
<1>5. r \in S
  <2> HIDE DEF S
  <2> QED BY <1>2, <1>3, <1>4 DEF Downstream
<1> QED BY <1>1, <1>5

\* Removing routes, one or several.
LEMMA RankedRemove ==
    ASSUME NEW R, NEW src \in [R -> R \cup {NoSource}], Ranked(src),
           NEW new \in [R -> R \cup {NoSource}],
           \A d \in R : new[d] = src[d] \/ new[d] = NoSource
    PROVE  Ranked(new)
<1>1. PICK rank \in [R -> Nat] : RankedBy(src, rank)
  BY DEF Ranked
<1>2. RankedBy(new, rank)
  BY <1>1 DEF RankedBy
<1> QED BY <1>1, <1>2 DEF Ranked

\* Everything downstream of the destination is lifted above the new source.
LEMMA RankedSet ==
    ASSUME NEW R, NoSource \notin R, NEW src \in [R -> R \cup {NoSource}], Ranked(src),
           NEW dest \in R, NEW s \in R, dest # s
    PROVE  Ranked(SetSource(src, dest, s))
<1> DEFINE base == RemoveSource(src, dest)
           new == [src EXCEPT ![dest] = s]
<1>1. /\ base \in [R -> R \cup {NoSource}] /\ new \in [R -> R \cup {NoSource}]
      /\ base[dest] = NoSource /\ new[dest] = s
      /\ \A d \in R : d # dest => base[d] = src[d] /\ new[d] = src[d]
  BY DEF RemoveSource
<1>2. Ranked(base)
  <2> HIDE DEF base, new
  <2> QED BY <1>1, RankedRemove
<1>3. CASE IsDuplicate(src, dest, s)
  BY <1>2, <1>3 DEF SetSource
<1>4. CASE src[dest] = s
  <2>1. new = src
    BY <1>4
  <2> QED BY <2>1, <1>4 DEF SetSource, IsDuplicate
<1>5. CASE s \notin Downstream(base, dest)
  <2> DEFINE D == Downstream(base, dest) \cup {dest}
  <2>1. s \notin D /\ dest \in D
    BY <1>5
  <2>2. \A d \in R : base[d] \in D => d \in D
    BY <1>1, DownstreamClosed
  <2>3. PICK rank \in [R -> Nat] : RankedBy(base, rank)
    BY <1>1, <1>2 DEF Ranked
  <2> DEFINE lifted == [x \in R |-> IF x \in D THEN rank[x] + rank[s] + 1 ELSE rank[x]]
  <2>4. lifted \in [R -> Nat]
    BY <2>3
  <2> HIDE DEF base, D
  <2>5. ASSUME NEW d \in R, new[d] # NoSource
        PROVE  lifted[new[d]] < lifted[d]
    <3>1. CASE d = dest
      <4>1. lifted[s] = rank[s] /\ lifted[dest] = rank[dest] + rank[s] + 1
        BY <2>1
      <4>2. rank[s] \in Nat /\ rank[dest] \in Nat
        BY <2>3
      <4> QED BY <3>1, <4>1, <4>2, <1>1
    <3>2. CASE d # dest
      <4>1. PICK y \in R : new[d] = y /\ base[d] = y
        BY <3>2, <2>5, <1>1
      <4>2. rank[y] < rank[d] /\ rank[y] \in Nat /\ rank[d] \in Nat /\ rank[s] \in Nat
        BY <4>1, <1>1, <2>3, <2>5 DEF RankedBy
      <4>3. y \in D => d \in D
        BY <4>1, <2>2
      <4>4. /\ lifted[y] = IF y \in D THEN rank[y] + rank[s] + 1 ELSE rank[y]
            /\ lifted[d] = IF d \in D THEN rank[d] + rank[s] + 1 ELSE rank[d]
        OBVIOUS
      <4>5. lifted[y] < lifted[d]
        <5> HIDE DEF lifted
        <5> QED BY <4>2, <4>3, <4>4
      <4> QED BY <4>1, <4>5
    <3> QED BY <3>1, <3>2
  <2> HIDE DEF lifted, new
  <2>6. RankedBy(new, lifted)
    BY <1>1, <2>4, <2>5 DEF RankedBy
  <2>7. Ranked(new)
    BY <1>1, <2>4, <2>6 DEF Ranked
  <2>8. ~IsDuplicate(src, dest, s)
    BY <1>5 DEF base, IsDuplicate, CanGetThereFromHere
  <2> QED BY <2>7, <2>8 DEF SetSource, new
<1> QED BY <1>3, <1>4, <1>5 DEF IsDuplicate, CanGetThereFromHere

=============================================================================
