--------------------------- MODULE ResTreeProofs ----------------------------
(***************************************************************************)
(* What is proved of ResTree for every set of paths, routes and settings,  *)
(* and, at the end, of the push handlers on the resources of the tree      *)
(* (Handlers) for any clients, resources and pool of objects.              *)
(***************************************************************************)
EXTENDS ResTree, Handlers, RoutesProofs, FiniteSetTheorems, SequenceTheorems,
        WellFoundedInduction, TLAPS

-----------------------------------------------------------------------------
(* Paths *)

\* The prefixes of a path, what they are made of and their own prefixes.
LEMMA PrefixFacts ==
    ASSUME NEW p \in Seq(STRING), NEW n \in 0 .. Len(p)
    PROVE  /\ Prefix(p, n) \in Seq(STRING)
           /\ Len(Prefix(p, n)) = n
           /\ \A i \in 1 .. n : Prefix(p, n)[i] = p[i]
           /\ \A m \in 0 .. n : Prefix(Prefix(p, n), m) = Prefix(p, m)
           /\ Prefix(p, Len(p)) = p
           /\ Prefix(p, 0) = Root
<1>1. \A k \in 0 .. Len(p) :
         /\ Prefix(p, k) \in Seq(STRING)
         /\ Len(Prefix(p, k)) = k
         /\ \A i \in 1 .. k : Prefix(p, k)[i] = p[i]
  BY SubSeqProperties DEF Prefix
<1>2. ASSUME NEW m \in 0 .. n
      PROVE  Prefix(Prefix(p, n), m) = Prefix(p, m)
  <2> DEFINE q == Prefix(p, n)
  <2>1. q \in Seq(STRING) /\ Len(q) = n
    BY <1>1
  <2>2. /\ Prefix(q, m) \in Seq(STRING)
        /\ Len(Prefix(q, m)) = m
        /\ \A i \in 1 .. m : Prefix(q, m)[i] = q[i]
    BY <2>1, SubSeqProperties DEF Prefix
  <2>3. m \in 0 .. Len(p) /\ \A i \in 1 .. m : i \in 1 .. n
    OBVIOUS
  <2>4. \A i \in 1 .. m : q[i] = p[i]
    BY <1>1, <2>3
  <2>5. Prefix(p, m) \in Seq(STRING) /\ Len(Prefix(p, m)) = m
        /\ \A i \in 1 .. m : Prefix(p, m)[i] = p[i]
    BY <1>1, <2>3
  <2> HIDE DEF q
  <2>6. \A i \in 1 .. m : Prefix(q, m)[i] = Prefix(p, m)[i]
    BY <2>2, <2>4, <2>5
  <2>7. Prefix(q, m) = Prefix(p, m)
    BY <2>2, <2>5, <2>6, SeqEqual
  <2> QED BY <2>7 DEF q
<1>3. Prefix(p, Len(p)) = p
  BY SubSeqFull DEF Prefix
<1>4. Prefix(p, 0) = Root
  BY SubSeqEmpty DEF Prefix, Root
<1> QED BY <1>1, <1>2, <1>3, <1>4

\* The entries on the way from the root to p, p included.
LEMMA PathFacts ==
    ASSUME NEW p \in Seq(STRING)
    PROVE  /\ p \in PathTo(p) /\ Root \in PathTo(p)
           /\ \A e \in PathTo(p) :
                 /\ e \in Seq(STRING)
                 /\ Len(e) \in 0 .. Len(p)
                 /\ e = Prefix(p, Len(e))
                 /\ (e = Root <=> Len(e) = 0)
                 /\ PathTo(e) \subseteq PathTo(p)
                 /\ e # Root => Parent(e) \in PathTo(e) /\ Len(Parent(e)) = Len(e) - 1
<1>1. p \in PathTo(p) /\ Root \in PathTo(p)
  <2>1. 0 \in 0 .. Len(p) /\ Len(p) \in 0 .. Len(p)
    BY LenProperties
  <2> QED BY <2>1, PrefixFacts DEF PathTo
<1>2. ASSUME NEW e \in PathTo(p)
      PROVE  /\ e \in Seq(STRING)
             /\ Len(e) \in 0 .. Len(p)
             /\ e = Prefix(p, Len(e))
             /\ (e = Root <=> Len(e) = 0)
             /\ PathTo(e) \subseteq PathTo(p)
             /\ e # Root => Parent(e) \in PathTo(e) /\ Len(Parent(e)) = Len(e) - 1
  <2>1. PICK n \in 0 .. Len(p) : e = Prefix(p, n)
    BY DEF PathTo
  <2>2. /\ e \in Seq(STRING) /\ Len(e) = n
        /\ \A m \in 0 .. n : Prefix(e, m) = Prefix(p, m)
        /\ Prefix(p, 0) = Root
    BY <2>1, PrefixFacts
  <2>3. e = Root <=> Len(e) = 0
    BY <2>1, <2>2 DEF Root
  <2>4. PathTo(e) \subseteq PathTo(p)
    BY <2>2 DEF PathTo
  <2>5. ASSUME e # Root
        PROVE  Parent(e) \in PathTo(e) /\ Len(Parent(e)) = Len(e) - 1
    <3>1. n - 1 \in 0 .. Len(e)
      BY <2>2, <2>3, <2>5
    <3> QED BY <2>2, <3>1, PrefixFacts DEF Parent, PathTo
  <2> QED BY <2>1, <2>2, <2>3, <2>4, <2>5
<1> QED BY <1>1, <1>2

\* Entries is closed under prefixes.
LEMMA EntryFacts ==
    /\ Root \in Entries
    /\ ResPaths \subseteq Entries
    /\ \A p \in IoPaths : Namespace(p) \in Entries /\ Namespace(p) \in PathTo(p)
    /\ \A e \in Entries :
          /\ e \in Seq(STRING)
          /\ PathTo(e) \subseteq Entries
          /\ e # Root => Parent(e) \in Entries /\ Len(Parent(e)) = Len(e) - 1
          /\ e # Root => Parent(e) # e
<1>1. ResPaths \subseteq Seq(STRING) /\ \A p \in IoPaths : Len(p) >= 2
  BY PathAssumption DEF ResPaths
<1>2. Root \in Seq(STRING) /\ Root \in Entries /\ Len(Root) = 0
  BY EmptySeq DEF Root, Entries
<1>3. ASSUME NEW p \in ResPaths PROVE PathTo(p) \subseteq Entries /\ p \in Entries
  BY <1>1, PathFacts DEF Entries
<1>4. ASSUME NEW p \in IoPaths
      PROVE  Namespace(p) \in Entries /\ Namespace(p) \in PathTo(p)
  <2>1. p \in ResPaths /\ 2 \in 0 .. Len(p)
    BY <1>1, LenProperties DEF ResPaths
  <2>2. Namespace(p) \in PathTo(p)
    BY <2>1 DEF Namespace, PathTo
  <2> QED BY <2>1, <2>2, <1>3
<1>5. ASSUME NEW e \in Entries
      PROVE  \E p \in Seq(STRING) : e \in PathTo(p) /\ PathTo(p) \subseteq Entries
  <2>1. CASE e = Root
    <3>1. PathTo(Root) = {Root}
      <4>1. ASSUME NEW x \in PathTo(Root) PROVE x = Root
        <5>1. Len(x) \in 0 .. 0 /\ (x = Root <=> Len(x) = 0)
          BY <1>2, PathFacts
        <5> QED BY <5>1
      <4>2. Root \in PathTo(Root)
        BY <1>2, PathFacts
      <4> QED BY <4>1, <4>2
    <3> QED BY <2>1, <3>1, <1>2
  <2>2. CASE e # Root
    BY <2>2, <1>1, <1>3 DEF Entries
  <2> QED BY <2>1, <2>2
<1>6. ASSUME NEW e \in Entries
      PROVE  /\ e \in Seq(STRING)
             /\ PathTo(e) \subseteq Entries
             /\ e # Root => Parent(e) \in Entries /\ Len(Parent(e)) = Len(e) - 1
             /\ e # Root => Parent(e) # e
  BY <1>5, PathFacts, LenProperties
<1> QED BY <1>2, <1>3, <1>4, <1>6

-----------------------------------------------------------------------------
(* References *)

\* A set of natural numbers that is not empty has a least element.
LEMMA FirstNatural ==
    ASSUME NEW T, T \subseteq Nat, T # {}
    PROVE  \E k \in T : \A j \in T : k <= j
<1> DEFINE R == OpToRel(<, Nat)
<1>1. IsWellFoundedOn(R, Nat)
  BY NatLessThanWellFounded, Zenon
<1>2. \A i, j \in Nat : i < j => <<i, j>> \in R
  <2> SUFFICES ASSUME NEW i \in Nat, NEW j \in Nat, i < j
               PROVE  <<i, j>> \in {ss \in Nat \X Nat : ss[1] < ss[2]}
    BY Zenon DEF OpToRel
  <2>1. <<i, j>> \in Nat \X Nat /\ <<i, j>>[1] = i /\ <<i, j>>[2] = j
    OBVIOUS
  <2> QED BY <2>1
<1> HIDE DEF R
<1>3. PICK k \in T : \A j \in T : ~(<<j, k>> \in R)
  BY <1>1, WFMin
<1>4. \A j \in T : ~(j < k)
  BY <1>2, <1>3
<1> QED BY <1>4

\* The reference counts of a tree in which the counts of the entries in S balance.
Sound(r, S) ==
    /\ r \in [Entries -> Nat]
    /\ ParentsLive(r)
    /\ \A e \in S : /\ IsFiniteSet(Children(r, e))
                    /\ e \in Live(r) => r[e] = 1 + Cardinality(Children(r, e))

\* An entry that is not there has no child.
LEMMA NoOrphans ==
    ASSUME NEW r, r \in [Entries -> Nat], ParentsLive(r), NEW e \in Entries, r[e] = 0
    PROVE  Children(r, e) = {}
BY DEF ParentsLive, Children, Live

\* An entry that is there has all its ancestors there: the longest prefix of its path
\* that is not would be the parent of one that is.
LEMMA AncestorsLive ==
    ASSUME NEW r, r \in [Entries -> Nat], ParentsLive(r), NEW e \in Live(r)
    PROVE  PathTo(e) \subseteq Live(r)
<1>1. e \in Entries /\ e \in Seq(STRING) /\ Len(e) \in Nat /\ PathTo(e) \subseteq Entries
  BY EntryFacts, LenProperties DEF Live
<1> DEFINE T == {n \in 0 .. Len(e) : Prefix(e, Len(e) - n) \notin Live(r)}
<1>2. T = {}
  <2> SUFFICES ASSUME T # {}
               PROVE  FALSE
    OBVIOUS
  <2>1. PICK n \in T : \A k \in T : n <= k
    <3>1. T \subseteq Nat
      BY <1>1
    <3> HIDE DEF T
    <3> QED BY <3>1, FirstNatural
  <2>2. n \in 0 .. Len(e) /\ Prefix(e, Len(e) - n) \notin Live(r)
    BY <2>1
  <2>3. Prefix(e, Len(e)) = e
    BY <1>1, PrefixFacts
  <2>4. n # 0
    BY <1>1, <2>2, <2>3
  <2> DEFINE m == Len(e) - (n - 1)
  <2>5. n - 1 \in 0 .. Len(e) /\ m \in 1 .. Len(e) /\ m - 1 = Len(e) - n /\ m - 1 \in 0 .. m
    BY <1>1, <2>2, <2>4
  <2>6. n - 1 \notin T
    <3>1. ~(n <= n - 1)
      BY <2>2
    <3> HIDE DEF T
    <3> QED BY <2>1, <3>1
  <2>7. Prefix(e, m) \in Live(r)
    BY <2>5, <2>6
  <2> HIDE DEF m
  <2>8. Len(Prefix(e, m)) = m /\ Prefix(Prefix(e, m), m - 1) = Prefix(e, m - 1)
    BY <1>1, <2>5, PrefixFacts
  <2>9. Prefix(e, m) # Root
    BY <2>5, <2>8, EmptySeq DEF Root
  <2>10. Parent(Prefix(e, m)) \in Live(r)
    BY <2>7, <2>9 DEF ParentsLive
  <2> QED BY <2>2, <2>5, <2>8, <2>10 DEF Parent
<1>3. ASSUME NEW k \in 0 .. Len(e)
      PROVE  Prefix(e, k) \in Live(r)
  <2>1. Len(e) - k \in 0 .. Len(e) /\ Len(e) - (Len(e) - k) = k
    BY <1>1
  <2> QED BY <1>2, <2>1
<1> QED BY <1>3 DEF PathTo

\* Walking to a path adds what is missing of it and keeps the books balanced.
LEMMA AddRefsSound ==
    ASSUME NEW S, S \subseteq Entries, NEW r, Sound(r, S), NEW p \in Entries
    PROVE  /\ Sound(AddRefs(r, p), S)
           /\ \A e \in Entries : AddRefs(r, p)[e] > 0 <=> r[e] > 0 \/ e \in PathTo(p)
<1> DEFINE q == AddRefs(r, p)
           added == Missing(r, p)
           news(e) == {c \in added : c # Root /\ Parent(c) = e}
<1>1. /\ r \in [Entries -> Nat] /\ DOMAIN r = Entries
      /\ p \in Seq(STRING) /\ PathTo(p) \subseteq Entries /\ added \subseteq PathTo(p)
      /\ \A e \in Entries : r[e] > 0 <=> e \in Live(r)
  BY EntryFacts DEF Sound, Missing, Live
<1>2. \A e \in Entries :
         q[e] = (IF e \in added THEN 1 ELSE r[e]) + (IF news(e) # {} THEN 1 ELSE 0)
  BY <1>1 DEF AddRefs
<1>3. q \in [Entries -> Nat]
  <2>1. q = [e \in Entries |-> q[e]]
    BY <1>1 DEF AddRefs
  <2>2. \A e \in Entries : q[e] \in Nat
    BY <1>1, <1>2
  <2> QED BY <2>1, <2>2
<1>4. ASSUME NEW e \in Entries, news(e) # {}
      PROVE  e \in PathTo(p)
  <2>1. PICK c \in added : c # Root /\ Parent(c) = e
    BY <1>4
  <2> QED BY <2>1, <1>1, PathFacts
<1>5. \A e \in Entries : r[e] = 0 /\ news(e) # {} => e \in added
  BY <1>4 DEF Missing
<1>6. \A e \in Entries : q[e] > 0 <=> r[e] > 0 \/ e \in PathTo(p)
  <2>1. \A e \in Entries : e \in added <=> e \in PathTo(p) /\ r[e] = 0
    BY <1>1 DEF Missing
  <2> QED BY <1>1, <1>2, <1>5, <2>1
<1>7. Live(q) = Live(r) \cup added /\ Live(r) \cap added = {}
  BY <1>1, <1>3, <1>6 DEF Live, Missing
<1>8. ParentsLive(q)
  <2>1. q[Root] > 0
    BY <1>6, EntryFacts DEF Sound, ParentsLive
  <2>2. ASSUME NEW e \in Live(q), e # Root
        PROVE  Parent(e) \in Live(q)
    <3>1. CASE e \in Live(r)
      BY <2>2, <3>1, <1>7 DEF Sound, ParentsLive
    <3>2. CASE e \in added
      <4>1. Parent(e) \in PathTo(p) /\ Parent(e) \in Entries
        BY <2>2, <3>2, <1>1, PathFacts
      <4>2. q[Parent(e)] > 0
        BY <4>1, <1>6
      <4> QED BY <4>1, <4>2, <1>3 DEF Live
    <3> QED BY <3>1, <3>2, <1>7
  <2> QED BY <2>1, <2>2 DEF ParentsLive
<1>9. ASSUME NEW e \in Entries
      PROVE  Children(q, e) = Children(r, e) \cup news(e) /\ Children(r, e) \cap news(e) = {}
  BY <1>7 DEF Children
<1>10. ASSUME NEW e \in Entries
       PROVE  news(e) = {} \/ \E c : news(e) = {c}
  <2>1. ASSUME NEW c \in news(e), NEW d \in news(e)
        PROVE  c = d
    <3>1. /\ c = Prefix(p, Len(c)) /\ Len(c) \in 0 .. Len(p)
          /\ Len(Parent(c)) = Len(c) - 1 /\ Parent(c) = e
      BY <2>1, <1>1, PathFacts
    <3>2. /\ d = Prefix(p, Len(d)) /\ Len(d) \in 0 .. Len(p)
          /\ Len(Parent(d)) = Len(d) - 1 /\ Parent(d) = e
      BY <2>1, <1>1, PathFacts
    <3>3. Len(p) \in Nat
      BY <1>1, LenProperties
    <3>4. Len(c) = Len(d)
      BY <3>1, <3>2, <3>3
    <3> QED BY <3>1, <3>2, <3>4
  <2> QED BY <2>1
<1>11. ASSUME NEW e \in S
       PROVE  /\ IsFiniteSet(Children(q, e))
              /\ e \in Live(q) => q[e] = 1 + Cardinality(Children(q, e))
  <2>1. IsFiniteSet(Children(r, e)) /\ Cardinality(Children(r, e)) \in Nat
    BY FS_CardinalityType DEF Sound
  <2>2. CASE news(e) = {}
    <3>1. Children(q, e) = Children(r, e)
      BY <1>9, <2>2
    <3>2. CASE e \in added
      <4>1. Children(r, e) = {}
        BY <3>2, <1>1, NoOrphans DEF Sound, Missing
      <4> QED BY <3>1, <3>2, <4>1, <1>2, <2>1, <2>2, FS_EmptySet
    <3>3. CASE e \notin added
      BY <3>1, <3>3, <1>1, <1>2, <1>7, <2>1, <2>2 DEF Sound
    <3> QED BY <3>2, <3>3
  <2>3. CASE \E c : news(e) = {c}
    <3>1. PICK c : news(e) = {c}
      BY <2>3
    <3>2. Children(q, e) = Children(r, e) \cup {c} /\ c \notin Children(r, e)
      BY <1>9, <3>1
    <3>3. /\ IsFiniteSet(Children(q, e))
          /\ Cardinality(Children(q, e)) = Cardinality(Children(r, e)) + 1
      BY <2>1, <3>2, FS_AddElement
    <3>4. CASE e \in added
      <4>1. Children(r, e) = {}
        BY <3>4, <1>1, NoOrphans DEF Sound, Missing
      <4> QED BY <3>1, <3>3, <3>4, <4>1, <1>2, <2>1, FS_EmptySet
    <3>5. CASE e \notin added
      <4>1. e \in Live(q) => e \in Live(r)
        BY <3>5, <1>7
      <4>2. e \in Live(r) => r[e] = 1 + Cardinality(Children(r, e))
        BY DEF Sound
      <4>3. q[e] = r[e] + 1
        BY <3>1, <3>5, <1>1, <1>2
      <4> QED BY <3>3, <4>1, <4>2, <4>3, <1>1, <2>1
    <3> QED BY <3>4, <3>5
  <2> QED BY <2>2, <2>3, <1>10
<1> HIDE DEF q
<1>12. Sound(q, S)
  BY <1>3, <1>8, <1>11 DEF Sound
<1> QED BY <1>6, <1>12 DEF q

\* Releasing p destroys entries on its path, from p up, each the only one whose parent
\* is the next; an entry whose count balances goes only if it is p itself.
LEMMA DestroyedFacts ==
    ASSUME NEW S, S \subseteq Entries, Root \in S, NEW r, Sound(r, S),
           NEW p \in Entries, p # Root, r[p] > 0
    PROVE  /\ \A e \in Destroyed(r, p) : e \in PathTo(p) /\ e \in Entries /\ r[e] = 1 /\ e # Root
           /\ Destroyed(r, p) \cap S \subseteq {p}
           /\ p \in Destroyed(r, p) <=> r[p] = 1
           /\ r[p] # 1 => Destroyed(r, p) = {}
           /\ \A c \in Destroyed(r, p) :
                 /\ Parent(c) \in Live(r)
                 /\ Parent(c) \notin Destroyed(r, p) => r[Parent(c)] # 1
           /\ \A e \in Destroyed(r, p) : e # p => \E c \in Destroyed(r, p) : Parent(c) = e
           /\ \A c, d \in Destroyed(r, p) : Parent(c) = Parent(d) => c = d
<1> DEFINE D == Destroyed(r, p)
<1>1. /\ r \in [Entries -> Nat] /\ DOMAIN r = Entries /\ p \in Seq(STRING)
      /\ PathTo(p) \subseteq Entries /\ Len(p) \in Nat /\ Prefix(p, Len(p)) = p
      /\ PathTo(p) \subseteq Live(r)
  <2>1. p \in Live(r) /\ r \in [Entries -> Nat] /\ ParentsLive(r)
    BY DEF Sound, Live
  <2> QED BY <2>1, EntryFacts, LenProperties, PrefixFacts, AncestorsLive
<1>2. \A n \in 0 .. Len(p) :
         /\ Len(Prefix(p, n)) = n /\ Prefix(p, n) \in PathTo(p)
         /\ Prefix(p, n) = Root <=> n = 0
         /\ n # 0 => Parent(Prefix(p, n)) = Prefix(p, n - 1)
  <2> SUFFICES ASSUME NEW n \in 0 .. Len(p)
               PROVE  /\ Len(Prefix(p, n)) = n /\ Prefix(p, n) \in PathTo(p)
                      /\ Prefix(p, n) = Root <=> n = 0
                      /\ n # 0 => Parent(Prefix(p, n)) = Prefix(p, n - 1)
    OBVIOUS
  <2>1. /\ Len(Prefix(p, n)) = n /\ Prefix(p, 0) = Root
        /\ \A m \in 0 .. n : Prefix(Prefix(p, n), m) = Prefix(p, m)
    BY <1>1, PrefixFacts
  <2>2. n # 0 => n - 1 \in 0 .. n
    BY <1>1
  <2>3. Prefix(p, n) = Root => n = 0
    BY <2>1, EmptySeq DEF Root
  <2> QED BY <2>1, <2>2, <2>3 DEF Parent, PathTo
<1>3. ASSUME NEW e \in D
      PROVE  \E n \in 0 .. Len(p) : e = Prefix(p, n) /\ \A m \in n .. Len(p) : r[Prefix(p, m)] = 1
  BY <1>3 DEF Destroyed
<1>4. ASSUME NEW n \in 0 .. Len(p), \A m \in n .. Len(p) : r[Prefix(p, m)] = 1
      PROVE  Prefix(p, n) \in D
  BY <1>4 DEF Destroyed
<1> HIDE DEF D
<1>5. ASSUME NEW e \in D
      PROVE  /\ e \in PathTo(p) /\ e \in Entries /\ r[e] = 1 /\ r[p] = 1
             /\ e # p => \E c \in D : c # Root /\ Parent(c) = e
  <2>1. PICK n \in 0 .. Len(p) : e = Prefix(p, n) /\ \A m \in n .. Len(p) : r[Prefix(p, m)] = 1
    BY <1>3
  <2>2. n \in n .. Len(p) /\ Len(p) \in n .. Len(p)
    BY <1>1
  <2>3. e \in PathTo(p) /\ r[e] = 1 /\ r[p] = 1
    BY <1>1, <1>2, <2>1, <2>2
  <2>4. ASSUME e # p
        PROVE  \E c \in D : c # Root /\ Parent(c) = e
    <3>1. n # Len(p)
      BY <1>1, <2>1, <2>4
    <3>2. /\ n + 1 \in 0 .. Len(p) /\ n + 1 # 0 /\ (n + 1) - 1 = n
          /\ \A m \in n + 1 .. Len(p) : m \in n .. Len(p)
      BY <1>1, <3>1
    <3> DEFINE c == Prefix(p, n + 1)
    <3>3. c \in D
      BY <1>4, <2>1, <3>2
    <3>4. c # Root /\ Parent(c) = e
      BY <1>2, <2>1, <3>2
    <3> QED BY <3>3, <3>4
  <2> QED BY <1>1, <2>3, <2>4
<1>6. ASSUME NEW e \in D \cap S
      PROVE  e = p
  <2> SUFFICES ASSUME e # p
               PROVE  FALSE
    OBVIOUS
  <2>1. PICK c \in D : c # Root /\ Parent(c) = e
    BY <1>5
  <2>2. c \in Children(r, e)
    BY <1>1, <1>5, <2>1 DEF Children
  <2>3. e \in Live(r) /\ r[e] = 1
    BY <1>1, <1>5
  <2>4. IsFiniteSet(Children(r, e)) /\ r[e] = 1 + Cardinality(Children(r, e))
    BY <2>3 DEF Sound
  <2>5. Cardinality(Children(r, e)) \in Nat /\ Cardinality(Children(r, e)) # 0
    BY <2>2, <2>4, FS_CardinalityType, FS_EmptySet
  <2> QED BY <2>3, <2>4, <2>5
<1>7. Root \notin D
  BY <1>6
<1>8. r[p] = 1 => p \in D
  <2>1. ASSUME r[p] = 1
        PROVE  p \in D
    <3>1. Len(p) \in 0 .. Len(p) /\ \A m \in Len(p) .. Len(p) : m = Len(p)
      BY <1>1
    <3>2. \A m \in Len(p) .. Len(p) : r[Prefix(p, m)] = 1
      BY <1>1, <2>1, <3>1
    <3> QED BY <1>1, <1>4, <3>1, <3>2
  <2> QED BY <2>1
<1>9. ASSUME NEW c \in D
      PROVE  /\ Parent(c) \in Live(r)
             /\ Parent(c) \notin D => r[Parent(c)] # 1
             /\ \E n \in 1 .. Len(p) : c = Prefix(p, n) /\ Parent(c) = Prefix(p, n - 1)
  <2>1. PICK n \in 0 .. Len(p) : c = Prefix(p, n) /\ \A m \in n .. Len(p) : r[Prefix(p, m)] = 1
    BY <1>3
  <2>2. n # 0
    BY <1>2, <1>7, <2>1
  <2>3. n \in 1 .. Len(p) /\ n - 1 \in 0 .. Len(p) /\ Parent(c) = Prefix(p, n - 1)
    BY <1>1, <1>2, <2>1, <2>2
  <2>4. Parent(c) \in Live(r)
    BY <1>1, <1>2, <2>3
  <2>5. ASSUME r[Parent(c)] = 1
        PROVE  Parent(c) \in D
    <3>1. \A m \in n - 1 .. Len(p) : m = n - 1 \/ m \in n .. Len(p)
      BY <1>1, <2>3
    <3>2. \A m \in n - 1 .. Len(p) : r[Prefix(p, m)] = 1
      BY <2>1, <2>3, <2>5, <3>1
    <3> QED BY <1>4, <2>3, <3>2
  <2> QED BY <2>1, <2>3, <2>4, <2>5
<1>10. ASSUME NEW c \in D, NEW d \in D, Parent(c) = Parent(d)
       PROVE  c = d
  <2>1. PICK n \in 1 .. Len(p) : c = Prefix(p, n) /\ Parent(c) = Prefix(p, n - 1)
    BY <1>9
  <2>2. PICK m \in 1 .. Len(p) : d = Prefix(p, m) /\ Parent(d) = Prefix(p, m - 1)
    BY <1>9
  <2>3. n - 1 \in 0 .. Len(p) /\ m - 1 \in 0 .. Len(p)
    BY <1>1
  <2>4. n - 1 = m - 1
    BY <1>2, <1>10, <2>1, <2>2, <2>3
  <2>5. n = m
    BY <2>4
  <2> QED BY <2>1, <2>2, <2>5
<1>11. /\ \A e \in D : e \in PathTo(p) /\ e \in Entries /\ r[e] = 1 /\ e # Root
       /\ \A e \in D : e # p => \E c \in D : Parent(c) = e
  BY <1>5, <1>7
<1>12. D \cap S \subseteq {p} /\ (r[p] # 1 => D = {}) /\ (p \in D <=> r[p] = 1)
  BY <1>5, <1>6, <1>8
<1> QED BY <1>9, <1>10, <1>11, <1>12 DEF D

\* Releasing p takes a reference from each entry that loses a child, and from p: if no
\* destroyed entry leaves a child behind, what balanced still does.
LEMMA ReleaseSound ==
    ASSUME NEW S, S \subseteq Entries, Root \in S, NEW r, Sound(r, S),
           NEW p \in Entries, p # Root, r[p] > 0, p \in S => p \in Destroyed(r, p),
           \A e \in Destroyed(r, p) : Children(r, e) \subseteq Destroyed(r, p)
    PROVE  /\ Sound(ReleaseRefs(r, p), S)
           /\ \A e \in Entries : ReleaseRefs(r, p)[e] > 0 <=> r[e] > 0 /\ e \notin Destroyed(r, p)
<1> DEFINE D == Destroyed(r, p)
           q == ReleaseRefs(r, p)
           Loses(e) == e = p \/ \E c \in D : Parent(c) = e
<1>1. /\ r \in [Entries -> Nat] /\ DOMAIN r = Entries /\ ParentsLive(r)
      /\ \A e \in Entries : r[e] > 0 <=> e \in Live(r)
  BY DEF Sound, Live
<1>2. /\ \A e \in D : e \in PathTo(p) /\ e \in Entries /\ r[e] = 1 /\ e # Root
      /\ D \cap S \subseteq {p}
      /\ p \in D <=> r[p] = 1
      /\ r[p] # 1 => D = {}
      /\ \A c \in D : Parent(c) \in Live(r) /\ (Parent(c) \notin D => r[Parent(c)] # 1)
      /\ \A e \in D : e # p => \E c \in D : Parent(c) = e
      /\ \A c, d \in D : Parent(c) = Parent(d) => c = d
  BY DestroyedFacts
<1>3. \A e \in Entries : q[e] = IF Loses(e) THEN r[e] - 1 ELSE r[e]
  BY <1>1, <1>2 DEF ReleaseRefs
<1>4. q = [e \in Entries |-> q[e]]
  BY <1>1 DEF ReleaseRefs
<1>5. (p \in S => p \in D) /\ \A e \in D : Children(r, e) \subseteq D
  OBVIOUS
<1> HIDE DEF D, q
<1>6. \A e \in D : Loses(e)
  BY <1>2
<1>7. \A e \in Entries : Loses(e) /\ e \notin D => r[e] \in Nat /\ r[e] > 0 /\ r[e] # 1
  BY <1>1, <1>2
<1> HIDE DEF Loses
<1>8. \A e \in Entries : q[e] \in Nat /\ (q[e] > 0 <=> r[e] > 0 /\ e \notin D)
  <2> SUFFICES ASSUME NEW e \in Entries
               PROVE  q[e] \in Nat /\ (q[e] > 0 <=> r[e] > 0 /\ e \notin D)
    OBVIOUS
  <2>1. CASE e \in D
    <3>1. q[e] = 0
      BY <1>2, <1>3, <1>6, <2>1
    <3> QED BY <2>1, <3>1
  <2>2. CASE e \notin D /\ Loses(e)
    <3>1. q[e] = r[e] - 1 /\ r[e] \in Nat /\ r[e] > 0 /\ r[e] # 1
      BY <1>3, <1>7, <2>2
    <3>2. r[e] - 1 \in Nat /\ r[e] - 1 > 0
      BY <3>1
    <3> QED BY <2>2, <3>1, <3>2
  <2>3. CASE e \notin D /\ ~Loses(e)
    BY <1>1, <1>3, <2>3
  <2> QED BY <2>1, <2>2, <2>3
<1>9. q \in [Entries -> Nat]
  BY <1>4, <1>8
<1>10. Live(q) = Live(r) \ D
  BY <1>1, <1>8, <1>9 DEF Live
<1>11. ParentsLive(q)
  <2>1. q[Root] > 0
    BY <1>1, <1>2, <1>8, EntryFacts DEF ParentsLive
  <2>2. ASSUME NEW e \in Live(q), e # Root
        PROVE  Parent(e) \in Live(q)
    <3>1. e \in Live(r) /\ e \notin D /\ Parent(e) \in Live(r)
      BY <1>1, <1>10, <2>2 DEF ParentsLive
    <3>2. e \in Children(r, Parent(e))
      BY <2>2, <3>1 DEF Children
    <3>3. Parent(e) \notin D
      BY <1>5, <3>1, <3>2
    <3> QED BY <1>10, <3>1, <3>3
  <2> QED BY <2>1, <2>2 DEF ParentsLive
<1>12. ASSUME NEW e \in S
       PROVE  /\ IsFiniteSet(Children(q, e))
              /\ e \in Live(q) => q[e] = 1 + Cardinality(Children(q, e))
  <2>1. /\ Children(q, e) = Children(r, e) \ D
        /\ IsFiniteSet(Children(r, e)) /\ Cardinality(Children(r, e)) \in Nat
        /\ e \in Live(r) => r[e] = 1 + Cardinality(Children(r, e))
    BY <1>10, FS_CardinalityType DEF Children, Sound
  <2>2. CASE \E c \in D : Parent(c) = e
    <3>1. PICK c \in D : Parent(c) = e
      BY <2>2
    <3>2. c \in Children(r, e)
      BY <1>1, <1>2, <3>1 DEF Children
    <3>3. \A d \in Children(r, e) : d \in D => d = c
      BY <1>2, <3>1 DEF Children
    <3>4. Children(q, e) = Children(r, e) \ {c}
      BY <2>1, <3>1, <3>3
    <3>5. /\ IsFiniteSet(Children(q, e))
          /\ Cardinality(Children(q, e)) = Cardinality(Children(r, e)) - 1
      BY <2>1, <3>2, <3>4, FS_RemoveElement
    <3>6. ASSUME e \in Live(q)
          PROVE  q[e] = 1 + Cardinality(Children(q, e))
      <4>1. e \in Live(r) /\ e \in Entries
        BY <1>10, <3>6
      <4>2. q[e] = r[e] - 1
        BY <1>3, <3>1, <4>1 DEF Loses
      <4>3. r[e] = 1 + Cardinality(Children(r, e))
        BY <2>1, <4>1
      <4> QED BY <2>1, <3>5, <4>2, <4>3
    <3> QED BY <3>5, <3>6
  <2>3. CASE ~\E c \in D : Parent(c) = e
    <3>1. Children(q, e) = Children(r, e)
      BY <2>1, <2>3 DEF Children
    <3>2. ASSUME e \in Live(q)
          PROVE  q[e] = r[e]
      <4>1. e \notin D /\ e \in Entries
        BY <1>10, <3>2
      <4>2. e # p
        BY <1>5, <4>1
      <4> QED BY <1>3, <2>3, <4>1, <4>2 DEF Loses
    <3> QED BY <1>10, <2>1, <3>1, <3>2
  <2> QED BY <2>2, <2>3
<1>13. Sound(q, S)
  BY <1>9, <1>11, <1>12 DEF Sound
<1> QED BY <1>8, <1>13 DEF D, q

\* In a flat tree a resource's entry has no child, so its one reference is its own
\* and releasing it destroys that entry and nothing else.
LEMMA LeafRelease ==
    ASSUME Flat, NEW r, Sound(r, Entries), NEW p \in ResPaths, p # Root, r[p] > 0
    PROVE  /\ Children(r, p) = {}
           /\ Destroyed(r, p) = {p}
<1>1. /\ r \in [Entries -> Nat] /\ DOMAIN r = Entries /\ p \in Entries
      /\ p \in Seq(STRING) /\ Len(p) \in Nat /\ Root \in Entries
  BY EntryFacts, LenProperties DEF Sound
<1>2. p # Root
  OBVIOUS
<1>3. Children(r, p) = {}
  <2>1. SUFFICES ASSUME NEW c \in Live(r), c # Root, Parent(c) = p
                 PROVE  FALSE
    BY DEF Children
  <2>2. c \in Entries
    BY <1>1 DEF Live
  <2>3. PICK d \in ResPaths : c \in PathTo(d)
    BY <2>1, <2>2 DEF Entries
  <2>4. d \in Seq(STRING)
    BY EntryFacts
  <2>5. p \in PathTo(c) /\ Len(p) = Len(c) - 1 /\ PathTo(c) \subseteq PathTo(d)
        /\ Len(c) \in 0 .. Len(d) /\ Len(d) \in Nat
    BY <2>1, <2>3, <2>4, PathFacts, LenProperties
  <2>6. p = d
    BY <2>5 DEF Flat
  <2> QED BY <2>5, <2>6
<1>4. r[p] = 1
  BY <1>1, <1>3, FS_EmptySet DEF Sound, Live
<1>5. p \in Destroyed(r, p) /\ Destroyed(r, p) \subseteq {p}
  <2>1. \A e \in Destroyed(r, p) : e \in Entries
    BY <1>1, <1>2, DestroyedFacts
  <2>2. Destroyed(r, p) \cap Entries \subseteq {p} /\ p \in Destroyed(r, p)
    BY <1>1, <1>2, <1>4, DestroyedFacts
  <2> QED BY <2>1, <2>2
<1> QED BY <1>3, <1>5

-----------------------------------------------------------------------------
(* Entry types *)

\* An entry has a type exactly when something refers to it.
Match(r, t) ==
    /\ t \in [Entries -> EntryTypes]
    /\ \A e \in Entries : t[e] = "none" <=> r[e] = 0

\* A resource type is neither of the other two.
LEMMA TypeFacts ==
    /\ "none" \notin ResourceTypes /\ "namespace" \notin ResourceTypes
    /\ IoTypes \subseteq ResourceTypes /\ "observation" \in ResourceTypes
    /\ "placeholder" \in ResourceTypes /\ "placeholder" \notin IoTypes \cup {"observation"}
    /\ "observation" \notin IoTypes
    /\ ResourceTypes \subseteq EntryTypes /\ {"none", "namespace"} \subseteq EntryTypes
    /\ \A t \in EntryTypes : t \in ResourceTypes \/ t = "none" \/ t = "namespace"
BY DEF ResourceTypes, IoTypes, EntryTypes

\* What a client or the administrator can delete.
Owned == IoPaths \cup ObsPaths

\* Whatever can be deleted is below the root.
LEMMA OwnedFacts ==
    /\ IoPaths \subseteq Owned /\ ObsPaths \subseteq Owned /\ Owned \subseteq ResPaths
    /\ Owned \subseteq Entries /\ Root \in Entries /\ Root \notin Owned
    /\ Namespaces \subseteq Entries
    /\ IoPaths \cap ObsPaths = {}
<1>1. Root \notin Owned
  <2>1. Len(Root) = 0
    BY EmptySeq DEF Root
  <2> QED BY <2>1, PathAssumption DEF Owned
<1>2. IoPaths \cap ObsPaths = {}
  <2>1. "app" # "obs"
    OBVIOUS
  <2> QED BY <2>1, PathAssumption
<1> QED BY <1>1, <1>2, EntryFacts DEF Owned, ResPaths, Namespaces

\* Walking to p, creating namespaces on the way.
LEMMA Walked ==
    ASSUME NEW r, r \in [Entries -> Nat], NEW t, Match(r, t), NEW p \in Entries,
           \A e \in Entries : AddRefs(r, p)[e] > 0 <=> r[e] > 0 \/ e \in PathTo(p),
           AddRefs(r, p) \in [Entries -> Nat]
    PROVE  /\ Match(AddRefs(r, p), AddTypes(r, t, p))
           /\ \A e \in Entries :
                 AddTypes(r, t, p)[e] =
                     IF t[e] = "none" /\ e \in PathTo(p) THEN "namespace" ELSE t[e]
<1> DEFINE u == AddTypes(r, t, p)
           q == AddRefs(r, p)
<1>1. DOMAIN t = Entries /\ DOMAIN r = Entries /\ PathTo(p) \subseteq Entries
  BY EntryFacts DEF Match
<1>2. u \in [Entries -> EntryTypes]
  BY <1>1, TypeFacts DEF AddTypes, Match
<1>3. \A e \in Entries : u[e] = IF t[e] = "none" /\ e \in PathTo(p) THEN "namespace" ELSE t[e]
  BY <1>1 DEF AddTypes, Missing, Match
<1>4. \A e \in Entries : q[e] \in Nat /\ r[e] \in Nat /\ (q[e] > 0 <=> r[e] > 0 \/ e \in PathTo(p))
  OBVIOUS
<1> HIDE DEF u, q
<1>5. \A e \in Entries : u[e] = "none" <=> q[e] = 0
  BY <1>3, <1>4 DEF Match
<1> QED BY <1>2, <1>3, <1>5 DEF Match, u, q

\* Putting a resource at p, with the entries on the way to it.
LEMMA Placed ==
    ASSUME NEW r, NEW t, NEW p \in ResPaths, NEW k \in ResourceTypes,
           NEW S, S \subseteq Entries, Sound(r, S), Match(r, t)
    PROVE  /\ Sound(AddRefs(r, p), S)
           /\ Match(AddRefs(r, p), Place(r, t, p, k))
           /\ \A e \in Entries :
                 Place(r, t, p, k)[e] =
                     IF e = p THEN k
                     ELSE IF t[e] = "none" /\ e \in PathTo(p) THEN "namespace" ELSE t[e]
<1> DEFINE u == Place(r, t, p, k)
           w == AddTypes(r, t, p)
           q == AddRefs(r, p)
<1>1. p \in Entries /\ p \in PathTo(p) /\ r \in [Entries -> Nat]
  BY EntryFacts, PathFacts DEF Sound
<1>2. Sound(q, S) /\ \A e \in Entries : q[e] > 0 <=> r[e] > 0 \/ e \in PathTo(p)
  BY <1>1, AddRefsSound
<1>3. /\ Match(q, w)
      /\ \A e \in Entries : w[e] = IF t[e] = "none" /\ e \in PathTo(p) THEN "namespace" ELSE t[e]
  BY <1>1, <1>2, Walked DEF Sound
<1>4. u = [w EXCEPT ![p] = k]
  BY DEF Place
<1> HIDE DEF u, w, q
<1>5. /\ u \in [Entries -> EntryTypes] /\ u[p] = k
      /\ \A e \in Entries : e # p => u[e] = w[e]
  BY <1>1, <1>3, <1>4, TypeFacts DEF Match
<1>6. q[p] > 0 /\ q[p] \in Nat
  BY <1>1, <1>2 DEF Sound
<1>7. \A e \in Entries : u[e] = "none" <=> q[e] = 0
  BY <1>3, <1>5, <1>6, TypeFacts DEF Match
<1>9. Match(q, u)
  BY <1>5, <1>7 DEF Match
<1>10. \A e \in Entries :
          u[e] = IF e = p THEN k
                 ELSE IF t[e] = "none" /\ e \in PathTo(p) THEN "namespace" ELSE t[e]
  BY <1>3, <1>5
<1> QED BY <1>2, <1>9, <1>10 DEF u, q

\* Deleting the resource at p, when no assertion fails: no other resource goes, and of
\* the entries whose counts balance only p does.
LEMMA Released ==
    ASSUME NEW S, S \subseteq Entries, Root \in S, NEW r, Sound(r, S), NEW t, Match(r, t),
           NEW p \in ResPaths, p # Root, t[p] \in ResourceTypes,
           NEW d \in [Entries -> EntryTypes], d[p] = "namespace",
           \A e \in Entries : e # p => d[e] = t[e],
           ~ReleaseFails(r, d, p)
    PROVE  /\ Sound(ReleaseRefs(r, p), (S \ {p}) \cup Destroyed(r, p))
           /\ Match(ReleaseRefs(r, p), ReleaseTypes(r, d, p))
           /\ \A e \in Entries : ReleaseRefs(r, p)[e] > 0 <=> r[e] > 0 /\ e \notin Destroyed(r, p)
           /\ Destroyed(r, p) \subseteq Entries /\ Destroyed(r, p) \cap S \subseteq {p}
           /\ Root \notin Destroyed(r, p)
           /\ ReleaseTypes(r, d, p)[p] \in {"none", "namespace"}
           /\ \A e \in Entries : e # p =>
                 \/ ReleaseTypes(r, d, p)[e] = t[e]
                 \/ ReleaseTypes(r, d, p)[e] = "none" /\ t[e] \notin ResourceTypes
<1> DEFINE D == Destroyed(r, p)
           u == ReleaseTypes(r, d, p)
           q == ReleaseRefs(r, p)
           R == S \ {p}
<1>1. /\ r \in [Entries -> Nat] /\ DOMAIN r = Entries /\ DOMAIN d = Entries
      /\ p \in Entries /\ R \subseteq Entries /\ Root \in R /\ p \notin R /\ Sound(r, R)
  BY EntryFacts DEF Sound
<1>2. r[p] > 0
  BY <1>1, TypeFacts DEF Match
<1>3. D \subseteq Entries /\ D \cap S \subseteq {p} /\ Root \notin D
  BY <1>1, <1>2, DestroyedFacts
<1>4. \A e \in D : e # Root /\ d[e] \notin ResourceTypes /\ Children(r, e) \subseteq D
  BY DEF ReleaseFails
<1>5. Sound(q, R) /\ \A e \in Entries : q[e] > 0 <=> r[e] > 0 /\ e \notin D
  BY <1>1, <1>2, <1>4, ReleaseSound
<1>6. \A e \in Entries : u[e] = IF e \in D THEN "none" ELSE d[e]
  BY <1>1 DEF ReleaseTypes
<1>7. u \in [Entries -> EntryTypes]
  <2>1. u = [e \in Entries |-> u[e]]
    BY <1>1 DEF ReleaseTypes
  <2> QED BY <1>6, <2>1, TypeFacts
<1> HIDE DEF D, u, q, R
<1>8. \A e \in Entries : q[e] \in Nat /\ r[e] \in Nat
  BY <1>1, <1>5 DEF Sound
<1>9. \A e \in Entries : u[e] = "none" <=> q[e] = 0
  <2> SUFFICES ASSUME NEW e \in Entries
               PROVE  u[e] = "none" <=> q[e] = 0
    OBVIOUS
  <2>1. CASE e \in D
    BY <1>5, <1>6, <1>8, <2>1
  <2>2. CASE e \notin D /\ e = p
    BY <1>2, <1>5, <1>6, <1>8, <2>2
  <2>3. CASE e \notin D /\ e # p
    BY <1>5, <1>6, <1>8, <2>3 DEF Match
  <2> QED BY <2>1, <2>2, <2>3
<1>10. \A e \in Entries : e # p => u[e] = t[e] \/ (u[e] = "none" /\ t[e] \notin ResourceTypes)
  BY <1>4, <1>6
<1>11. u[p] \in {"none", "namespace"}
  BY <1>1, <1>6
\* What is destroyed has no child.
<1>12. Sound(q, R \cup D)
  <2>1. ASSUME NEW e \in D
        PROVE  IsFiniteSet(Children(q, e)) /\ e \notin Live(q)
    <3>1. e \in Entries /\ q[e] = 0
      BY <1>3, <1>5, <1>8
    <3>2. Children(q, e) = {} /\ e \notin Live(q)
      BY <1>5, <3>1, NoOrphans DEF Sound, Live
    <3> QED BY <3>2, FS_EmptySet
  <2> QED BY <1>5, <2>1 DEF Sound
<1> QED BY <1>3, <1>5, <1>7, <1>9, <1>10, <1>11, <1>12 DEF Match, D, u, q, R

-----------------------------------------------------------------------------
(* Routes *)

\* Setting a source changes the destination's route only.
LEMMA SetSourceFacts ==
    ASSUME NEW src \in [ResPaths -> ResPaths \cup {NoSource}],
           NEW dest \in ResPaths, NEW s \in ResPaths
    PROVE  /\ SetSource(src, dest, s) \in [ResPaths -> ResPaths \cup {NoSource}]
           /\ SetSource(src, dest, s)[dest] \in {s, NoSource}
           /\ \A d \in ResPaths : d # dest => SetSource(src, dest, s)[d] = src[d]
BY DEF SetSource, RemoveSource

\* A resource that is dropped is at neither end of a route.
LEMMA DropRoutesFacts ==
    ASSUME NEW src \in [ResPaths -> ResPaths \cup {NoSource}], NEW r \in ResPaths
    PROVE  /\ DropRoutes(src, r) \in [ResPaths -> ResPaths \cup {NoSource}]
           /\ DropRoutes(src, r)[r] = NoSource
           /\ \A d \in ResPaths :
                 /\ DropRoutes(src, r)[d] # r
                 /\ DropRoutes(src, r)[d] # NoSource => DropRoutes(src, r)[d] = src[d]
BY RouteAssumption DEF DropRoutes

-----------------------------------------------------------------------------
(* The invariant of any tree *)

\* Settings are held by a resource object, so they need one.
SettingsLive ==
    \A p \in ResPaths : settings[p] # {} => type[p] \in ResourceTypes

\* What is announced of a resource.
Told == IoTypes \cup {"observation"}

\* Sessions have cached entries that are there.
CachedLive == \A ns \in sessions : refs[ns] > 0

\* The entries whose counts balance.
Exact == Entries \ short

TreeInv ==
    /\ TypeOK
    /\ Sound(refs, Exact)
    /\ Match(refs, type)
    /\ RoutesLive
    /\ SettingsLive
    /\ CachedLive
    /\ AnnouncedExactly
    /\ AssertionsHold

\* An I/O resource's path goes through its client's namespace.
LEMMA ClientNamespace ==
    ASSUME NEW p \in IoPaths
    PROVE  /\ p \in ResPaths /\ p \in Entries
           /\ Namespace(p) \in Namespaces /\ Namespace(p) \in Entries
           /\ Namespace(p) \in PathTo(p)
BY EntryFacts DEF Namespaces, ResPaths

\* The tree that resTree_Init() leaves: the root alone.
LEMMA EmptyTree ==
    /\ Sound(EmptyRefs, Entries)
    /\ Match(EmptyRefs, EmptyTypes)
    /\ \A p \in ResPaths : EmptyTypes[p] \in {"none", "namespace"}
<1>1. Root \in Entries
  BY EntryFacts
<1>2. Sound(EmptyRefs, Entries)
  <2>1. EmptyRefs \in [Entries -> Nat] /\ Live(EmptyRefs) = {Root}
    BY <1>1 DEF EmptyRefs, Live
  <2>2. \A e \in Entries : Children(EmptyRefs, e) = {}
    BY <2>1 DEF Children
  <2>3. EmptyRefs[Root] = 1
    BY <1>1 DEF EmptyRefs
  <2>4. IsFiniteSet({}) /\ Cardinality({}) = 0
    BY FS_EmptySet
  <2>5. ParentsLive(EmptyRefs)
    BY <2>1, <2>3 DEF ParentsLive
  <2>6. \A e \in Live(EmptyRefs) : EmptyRefs[e] = 1 + Cardinality(Children(EmptyRefs, e))
    BY <1>1, <2>1, <2>2, <2>3, <2>4
  <2>7. \A e \in Entries : IsFiniteSet(Children(EmptyRefs, e))
    BY <2>2, <2>4
  <2> QED BY <2>1, <2>5, <2>6, <2>7 DEF Sound
<1>3. Match(EmptyRefs, EmptyTypes)
  BY <1>1 DEF EmptyRefs, EmptyTypes, Match, EntryTypes
<1>4. \A p \in ResPaths : EmptyTypes[p] \in {"none", "namespace"}
  BY EntryFacts DEF EmptyTypes
<1> QED BY <1>2, <1>3, <1>4

LEMMA TreeInit == Init => TreeInv
<1> SUFFICES ASSUME Init PROVE TreeInv
  OBVIOUS
<1>1. /\ Sound(refs, Exact) /\ Match(refs, type)
      /\ \A p \in ResPaths : type[p] \in {"none", "namespace"}
  BY EmptyTree DEF Init, Exact
<1>2. TypeOK
  BY <1>1 DEF Init, TypeOK, Sound, Match, Faults
<1>3. RoutesLive /\ SettingsLive /\ CachedLive /\ AssertionsHold
  BY DEF Init, RoutesLive, SettingsLive, CachedLive, AssertionsHold
<1>4. AnnouncedExactly
  BY <1>1 DEF Init, AnnouncedExactly, IoTypes
<1> QED BY <1>1, <1>2, <1>3, <1>4 DEF TreeInv

\* The namespace of an I/O resource that is there is there.
LEMMA PathLive ==
    ASSUME NEW S, NEW r, Sound(r, S), NEW t, Match(r, t),
           NEW p \in IoPaths, t[p] # "none"
    PROVE  r[Namespace(p)] > 0
<1>1. /\ p \in Entries /\ r \in [Entries -> Nat] /\ ParentsLive(r)
      /\ Namespace(p) \in PathTo(p) /\ Namespace(p) \in Entries
  BY ClientNamespace DEF Sound
<1>2. p \in Live(r)
  BY <1>1 DEF Match, Live
<1> QED BY <1>1, <1>2, AncestorsLive DEF Live

\* What is left to show once the references and the types are known to be good.
LEMMA TreeKept ==
    ASSUME Sound(refs', Exact'), Match(refs', type'), fault' \in Faults,
           fault' = "assertion" => short' # {},
           settings' \in [ResPaths -> SUBSET Settings],
           source' \in [ResPaths -> ResPaths \cup {NoSource}],
           sessions' \subseteq Namespaces, stale' \subseteq Namespaces, short' \subseteq Owned,
           \A d \in ResPaths :
              source'[d] # NoSource =>
                  type'[d] \in ResourceTypes /\ type'[source'[d]] \in ResourceTypes,
           \A p \in ResPaths : settings'[p] # {} => type'[p] \in ResourceTypes,
           \A ns \in sessions' : refs'[ns] > 0,
           announced' = {p \in ResPaths : type'[p] \in Told}
    PROVE  TreeInv'
<1>1. TypeOK'
  BY DEF TypeOK, Sound, Match, Owned
<1> QED BY <1>1 DEF TreeInv, RoutesLive, SettingsLive, CachedLive, AnnouncedExactly,
                    AssertionsHold, Told

\* Every step keeps the invariant, one step of the proof per action.
LEMMA TreeStep == TreeInv /\ [Next]_vars => TreeInv'
<1> SUFFICES ASSUME TreeInv, [Next]_vars PROVE TreeInv'
  OBVIOUS
<1>1. /\ Sound(refs, Exact) /\ Match(refs, type) /\ fault \in Faults
      /\ fault = "assertion" => short # {}
      /\ refs \in [Entries -> Nat] /\ type \in [Entries -> EntryTypes]
      /\ settings \in [ResPaths -> SUBSET Settings]
      /\ source \in [ResPaths -> ResPaths \cup {NoSource}]
      /\ sessions \subseteq Namespaces /\ announced \subseteq ResPaths
      /\ stale \subseteq Namespaces /\ short \subseteq Owned
      /\ \A d \in ResPaths :
            source[d] # NoSource =>
                type[d] \in ResourceTypes /\ type[source[d]] \in ResourceTypes
      /\ \A p \in ResPaths : settings[p] # {} => type[p] \in ResourceTypes
      /\ \A ns \in sessions : refs[ns] > 0
      /\ announced = {p \in ResPaths : type[p] \in Told}
  BY DEF TreeInv, TypeOK, RoutesLive, SettingsLive, CachedLive, AnnouncedExactly,
         AssertionsHold, Told, Owned
<1>2. /\ ResPaths \subseteq Entries /\ Namespaces \subseteq Entries
      /\ Exact \subseteq Entries /\ Root \in Exact
      /\ Owned \subseteq ResPaths /\ Root \notin Owned
  BY <1>1, OwnedFacts, EntryFacts DEF Exact
<1>3. /\ "none" \notin ResourceTypes /\ "namespace" \notin ResourceTypes
      /\ Told \subseteq ResourceTypes /\ IoTypes \subseteq Told /\ "observation" \in Told
      /\ "placeholder" \in ResourceTypes /\ "placeholder" \notin Told
  BY TypeFacts DEF Told
<1>4. \A d \in ResPaths : source[d] # NoSource => source[d] \in ResPaths
  BY <1>1
<1>5. CASE UNCHANGED vars
  BY <1>5 DEF vars, TreeInv, TypeOK, RoutesLive, SettingsLive, CachedLive, AnnouncedExactly,
              AssertionsHold, Exact
\* An action that walks to e.
<1>6. ASSUME NEW e \in Entries,
             refs' = AddRefs(refs, e), type' = AddTypes(refs, type, e)
      PROVE  /\ Sound(refs', Exact) /\ Match(refs', type')
             /\ \A x \in Entries :
                   type'[x] = IF type[x] = "none" /\ x \in PathTo(e) THEN "namespace" ELSE type[x]
             /\ \A p \in ResPaths : type[p] \in ResourceTypes => type'[p] = type[p]
             /\ \A p \in ResPaths : type'[p] \in Told <=> type[p] \in Told
             /\ \A x \in Entries : refs[x] > 0 \/ x \in PathTo(e) => refs'[x] > 0
  <2>1. /\ Sound(AddRefs(refs, e), Exact)
        /\ \A x \in Entries : AddRefs(refs, e)[x] > 0 <=> refs[x] > 0 \/ x \in PathTo(e)
    BY <1>1, <1>2, AddRefsSound
  <2>2. AddRefs(refs, e) \in [Entries -> Nat]
    BY <2>1 DEF Sound
  <2>3. /\ Match(AddRefs(refs, e), AddTypes(refs, type, e))
        /\ \A x \in Entries :
              AddTypes(refs, type, e)[x]
                 = IF type[x] = "none" /\ x \in PathTo(e) THEN "namespace" ELSE type[x]
    BY <1>1, <2>1, <2>2, Walked
  <2>4. \A x \in Entries :
           type'[x] = IF type[x] = "none" /\ x \in PathTo(e) THEN "namespace" ELSE type[x]
    BY <1>6, <2>3
  <2> QED BY <1>2, <1>3, <1>6, <2>1, <2>3, <2>4
<1>7. ASSUME NEW ns \in Namespaces, io_Call(ns)
      PROVE  TreeInv'
  <2>1. ns \in Entries /\ ns \in PathTo(ns)
    BY <1>2, EntryFacts, PathFacts
  <2>2. /\ refs' = AddRefs(refs, ns) /\ type' = AddTypes(refs, type, ns)
        /\ sessions' = sessions \cup {ns} /\ Exact' = Exact
        /\ UNCHANGED <<settings, source, stale, announced, fault, short>>
    BY <1>7 DEF io_Call, Exact
  <2>3. \A x \in sessions' : refs'[x] > 0
    BY <1>1, <1>2, <1>6, <2>1, <2>2
  <2> QED BY <1>1, <1>4, <1>6, <2>1, <2>2, <2>3, TreeKept
<1>8. ASSUME NEW ns \in Namespaces, CloseSession(ns) \/ StaleCall(ns)
      PROVE  TreeInv'
  <2>1. /\ sessions' \subseteq sessions /\ stale' \subseteq stale /\ Exact' = Exact
        /\ fault' \in Faults /\ fault' # "assertion"
        /\ UNCHANGED <<refs, type, settings, source, announced, short>>
    BY <1>8 DEF CloseSession, StaleCall, Exact, Faults
  <2> QED BY <1>1, <2>1, TreeKept
<1>9. ASSUME NEW p \in ResPaths, NEW n \in 0 .. Len(p) - 1, BadPath(Prefix(p, n))
      PROVE  TreeInv'
  <2> DEFINE e == Prefix(p, n)
  <2>1. e \in Entries
    <3>1. p \in Seq(STRING) /\ Len(p) \in Nat /\ n \in 0 .. Len(p)
      BY <1>2, EntryFacts, LenProperties
    <3>2. e \in PathTo(p)
      BY <3>1 DEF PathTo
    <3> QED BY <1>2, <3>2, EntryFacts
  <2>2. /\ refs' = AddRefs(refs, e) /\ type' = AddTypes(refs, type, e)
        /\ UNCHANGED <<settings, source, sessions, stale, announced, fault, short>>
        /\ Exact' = Exact
    BY <1>9 DEF BadPath, Exact
  <2> HIDE DEF e
  <2>3. \A x \in sessions' : refs'[x] > 0
    BY <1>1, <1>2, <1>6, <2>1, <2>2
  <2> QED BY <1>1, <1>4, <1>6, <2>1, <2>2, <2>3, TreeKept
\* An action that puts a resource of type k at p.
<1>10. ASSUME NEW p \in ResPaths, NEW k \in ResourceTypes,
              refs' = AddRefs(refs, p), type' = Place(refs, type, p, k)
       PROVE  /\ Sound(refs', Exact) /\ Match(refs', type')
              /\ type'[p] = k
              /\ \A q \in ResPaths : type[q] \in ResourceTypes => type'[q] \in ResourceTypes
              /\ \A q \in ResPaths : q # p => (type'[q] \in Told <=> type[q] \in Told)
              /\ \A x \in Entries : refs[x] > 0 \/ x \in PathTo(p) => refs'[x] > 0
  <2>1. /\ Sound(AddRefs(refs, p), Exact)
        /\ Match(AddRefs(refs, p), Place(refs, type, p, k))
        /\ \A e \in Entries :
              Place(refs, type, p, k)[e] =
                  IF e = p THEN k
                  ELSE IF type[e] = "none" /\ e \in PathTo(p) THEN "namespace" ELSE type[e]
    BY ONLY <1>1, <1>2, <1>10, Placed
  <2>2. \A e \in Entries :
           type'[e] = IF e = p THEN k
                      ELSE IF type[e] = "none" /\ e \in PathTo(p) THEN "namespace" ELSE type[e]
    BY <1>10, <2>1
  <2>3. \A x \in Entries : refs[x] > 0 \/ x \in PathTo(p) => refs'[x] > 0
    BY <1>1, <1>2, <1>10, AddRefsSound
  <2> QED BY <1>2, <1>3, <1>10, <2>1, <2>2, <2>3
<1>11. ASSUME NEW p \in IoPaths, NEW ioType \in IoTypes, io_Create(p, ioType)
       PROVE  TreeInv'
  <2>1. /\ p \in ResPaths /\ ioType \in ResourceTypes /\ ioType \in Told
        /\ Namespace(p) \in Namespaces /\ Namespace(p) \in PathTo(p) /\ Namespace(p) \in Entries
    BY <1>3, ClientNamespace
  <2>2. /\ refs' = AddRefs(refs, p) /\ type' = Place(refs, type, p, ioType)
        /\ sessions' = sessions \cup {Namespace(p)} /\ announced' = announced \cup {p}
        /\ UNCHANGED <<settings, source, stale, fault, short>> /\ Exact' = Exact
    BY <1>11 DEF io_Create, Exact
  <2>3. announced' = {q \in ResPaths : type'[q] \in Told}
    BY <1>1, <1>10, <2>1, <2>2
  <2>4. \A x \in sessions' : refs'[x] > 0
    BY <1>1, <1>2, <1>10, <2>1, <2>2
  <2> QED BY <1>1, <1>4, <1>10, <2>1, <2>2, <2>3, <2>4, TreeKept
<1>12. ASSUME NEW p \in ObsPaths, admin_CreateObs(p)
       PROVE  TreeInv'
  <2>1. p \in ResPaths /\ "observation" \in ResourceTypes
    BY <1>3 DEF ResPaths
  <2>2. /\ refs' = AddRefs(refs, p) /\ type' = Place(refs, type, p, "observation")
        /\ announced' = announced \cup {p}
        /\ UNCHANGED <<settings, source, sessions, stale, fault, short>> /\ Exact' = Exact
    BY <1>12 DEF admin_CreateObs, Exact
  <2>3. announced' = {q \in ResPaths : type'[q] \in Told}
    BY <1>1, <1>3, <1>10, <2>1, <2>2
  <2>4. \A x \in sessions' : refs'[x] > 0
    BY <1>1, <1>2, <1>10, <2>1, <2>2
  <2> QED BY <1>1, <1>4, <1>10, <2>1, <2>2, <2>3, <2>4, TreeKept
<1>13. ASSUME NEW p \in ResPaths, NEW kind \in Settings, admin_Set(p, kind)
       PROVE  TreeInv'
  <2>1. PICK k \in ResourceTypes :
            /\ refs' = AddRefs(refs, p) /\ type' = Place(refs, type, p, k)
            /\ k \in Told <=> type[p] \in Told
    BY <1>3, <1>13 DEF admin_Set, PlaceAny
  <2>2. /\ settings' = [settings EXCEPT ![p] = @ \cup {kind}]
        /\ UNCHANGED <<source, sessions, stale, announced, fault, short>> /\ Exact' = Exact
    BY <1>13 DEF admin_Set, Exact
  <2>3. announced' = {q \in ResPaths : type'[q] \in Told}
    BY <1>1, <1>10, <2>1, <2>2
  <2>4. /\ settings' \in [ResPaths -> SUBSET Settings]
        /\ \A q \in ResPaths : settings'[q] # {} => type'[q] \in ResourceTypes
    BY <1>1, <1>10, <2>1, <2>2
  <2>5. \A x \in sessions' : refs'[x] > 0
    BY <1>1, <1>2, <1>10, <2>1, <2>2
  <2> QED BY <1>1, <1>4, <1>10, <2>1, <2>2, <2>3, <2>4, <2>5, TreeKept
<1>14. ASSUME NEW p \in ResPaths, NEW kind \in Settings, admin_Remove(p, kind)
       PROVE  TreeInv'
  <2>1. /\ settings' \in [ResPaths -> SUBSET Settings]
        /\ \A q \in ResPaths : settings'[q] # {} => settings[q] # {}
        /\ UNCHANGED <<refs, type, source, sessions, stale, announced, fault, short>>
        /\ Exact' = Exact
    BY <1>1, <1>14 DEF admin_Remove, Exact
  <2> QED BY <1>1, <2>1, TreeKept
<1>15. ASSUME NEW dest \in ResPaths, NEW src \in ResPaths, admin_SetSource(dest, src)
       PROVE  TreeInv'
  <2> DEFINE r1 == AddRefs(refs, dest)
             t1 == PlaceAny(refs, type, dest)
  <2>1. PICK k1 \in ResourceTypes :
            t1 = Place(refs, type, dest, k1) /\ (k1 \in Told <=> type[dest] \in Told)
    BY <1>3 DEF PlaceAny
  <2>2. /\ Sound(r1, Exact) /\ Match(r1, t1)
        /\ \A e \in Entries :
              t1[e] = IF e = dest THEN k1
                      ELSE IF type[e] = "none" /\ e \in PathTo(dest) THEN "namespace" ELSE type[e]
    BY ONLY <1>1, <1>2, <1>15, <2>1, Placed DEF r1
  <2> HIDE DEF r1, t1
  <2>3. refs' = AddRefs(r1, src) /\ type' = PlaceAny(r1, t1, src)
    BY <1>15 DEF admin_SetSource, r1, t1
  <2>4. PICK k2 \in ResourceTypes :
            type' = Place(r1, t1, src, k2) /\ (k2 \in Told <=> t1[src] \in Told)
    BY <1>3, <2>3 DEF PlaceAny
  <2>5. /\ Sound(AddRefs(r1, src), Exact) /\ Match(AddRefs(r1, src), Place(r1, t1, src, k2))
        /\ \A e \in Entries :
              Place(r1, t1, src, k2)[e] =
                  IF e = src THEN k2
                  ELSE IF t1[e] = "none" /\ e \in PathTo(src) THEN "namespace" ELSE t1[e]
    BY ONLY <1>1, <1>2, <1>15, <2>2, <2>4, Placed
  <2>6. /\ Sound(refs', Exact) /\ Match(refs', type')
        /\ \A e \in Entries :
              type'[e] = IF e = src THEN k2
                         ELSE IF t1[e] = "none" /\ e \in PathTo(src) THEN "namespace" ELSE t1[e]
    BY <2>3, <2>4, <2>5
  <2>7. /\ \A q \in ResPaths : type[q] \in ResourceTypes => type'[q] \in ResourceTypes
        /\ type'[dest] \in ResourceTypes /\ type'[src] \in ResourceTypes
    BY <1>2, <1>3, <2>2, <2>6
  <2>8. \A q \in ResPaths : type'[q] \in Told <=> type[q] \in Told
    <3>1. \A q \in ResPaths : t1[q] \in Told <=> type[q] \in Told
      BY <1>2, <1>3, <2>1, <2>2
    <3>2. \A q \in ResPaths : type'[q] \in Told <=> t1[q] \in Told
      BY <1>2, <1>3, <2>4, <2>6
    <3> QED BY <3>1, <3>2
  <2>9. \A ns \in sessions : refs'[ns] > 0
    <3>1. \A x \in Entries : refs[x] > 0 => r1[x] > 0
      BY <1>1, <1>2, <1>15, AddRefsSound DEF r1
    <3>2. \A x \in Entries : r1[x] > 0 => refs'[x] > 0
      BY <1>2, <1>15, <2>2, <2>3, AddRefsSound
    <3> QED BY <1>1, <1>2, <3>1, <3>2
  <2>10. /\ source' = SetSource(source, dest, src) /\ Exact' = Exact
         /\ UNCHANGED <<settings, sessions, stale, announced, fault, short>>
    BY <1>15 DEF admin_SetSource, Exact
  <2>11. /\ source' \in [ResPaths -> ResPaths \cup {NoSource}]
         /\ source'[dest] \in {src, NoSource}
         /\ \A d \in ResPaths : d # dest => source'[d] = source[d]
    BY <1>1, <2>10, SetSourceFacts
  <2>12. \A d \in ResPaths :
            source'[d] # NoSource =>
                type'[d] \in ResourceTypes /\ type'[source'[d]] \in ResourceTypes
    BY <1>1, <1>4, <2>7, <2>11
  <2>13. announced' = {q \in ResPaths : type'[q] \in Told}
    BY <1>1, <2>8, <2>10
  <2> QED BY <1>1, <2>6, <2>7, <2>9, <2>10, <2>11, <2>12, <2>13, TreeKept
<1>16. ASSUME NEW dest \in ResPaths, admin_RemoveSource(dest)
       PROVE  TreeInv'
  <2>1. /\ source' \in [ResPaths -> ResPaths \cup {NoSource}]
        /\ \A d \in ResPaths : source'[d] # NoSource => source'[d] = source[d]
        /\ UNCHANGED <<refs, type, settings, sessions, stale, announced, fault, short>>
        /\ Exact' = Exact
    BY <1>1, <1>16 DEF admin_RemoveSource, RemoveSource, Exact
  <2> QED BY <1>1, <2>1, TreeKept
<1>17. ASSUME NEW p \in IoPaths, io_DeleteKeepingSettings(p)
       PROVE  TreeInv'
  <2>1. p \in ResPaths /\ p \in Entries /\ Namespace(p) \in Namespaces
    BY ClientNamespace
  <2>2. /\ type' = [type EXCEPT ![p] = "placeholder"] /\ type[p] \in ResourceTypes
        /\ sessions' = sessions \cup {Namespace(p)} /\ announced' = announced \ {p}
        /\ UNCHANGED <<refs, settings, source, stale, fault, short>> /\ Exact' = Exact
    BY <1>3, <1>17 DEF io_DeleteKeepingSettings, Exact
  <2>3. type'[p] = "placeholder" /\ \A e \in Entries : e # p => type'[e] = type[e]
    BY <1>1, <2>1, <2>2
  <2>4. Match(refs', type')
    <3>1. type' \in [Entries -> EntryTypes]
      BY <1>1, <2>2, TypeFacts
    <3> QED BY <1>1, <1>2, <1>3, <2>1, <2>2, <2>3, <3>1, TypeFacts DEF Match
  <2>5. refs[Namespace(p)] > 0
    BY <1>1, <1>3, <2>2, PathLive
  <2>6. \A ns \in sessions' : refs'[ns] > 0
    BY <1>1, <2>2, <2>5
  <2>7. announced' = {q \in ResPaths : type'[q] \in Told}
    BY <1>1, <1>2, <1>3, <2>1, <2>2, <2>3
  <2>8. \A q \in ResPaths : type[q] \in ResourceTypes => type'[q] \in ResourceTypes
    BY <1>2, <1>3, <2>3
  <2> QED BY <1>1, <1>4, <2>1, <2>2, <2>4, <2>6, <2>7, <2>8, TreeKept
\* An action that discards the resource at p, whatever it does to the routes.
<1>18. ASSUME NEW p \in Owned, type[p] \in ResourceTypes, NEW cached \in SUBSET Namespaces,
              \A ns \in cached : refs[ns] > 0, Discard(p, cached)
       PROVE  /\ Sound(refs', Exact') /\ Match(refs', type')
              /\ \A q \in ResPaths : q # p /\ type[q] \in ResourceTypes => type'[q] \in ResourceTypes
              /\ settings' \in [ResPaths -> SUBSET Settings]
              /\ \A q \in ResPaths : settings'[q] # {} => type'[q] \in ResourceTypes
              /\ announced' = {q \in ResPaths : type'[q] \in Told}
              /\ sessions' \subseteq Namespaces /\ stale' \subseteq Namespaces
              /\ short' \subseteq Owned /\ \A ns \in sessions' : refs'[ns] > 0
  <2> DEFINE d == Deleted(p)
             D == Destroyed(refs, p)
  <2>1. /\ refs' = ReleaseRefs(refs, p) /\ type' = ReleaseTypes(refs, d, p)
        /\ ~ReleaseFails(refs, d, p)
        /\ settings' = [settings EXCEPT ![p] = {}] /\ announced' = announced \ {p}
        /\ sessions' = cached \ D /\ stale' = stale \cup (cached \cap D)
        /\ short' = (short \cup {p}) \ D
    BY <1>18 DEF Discard
  <2>2. /\ d \in [Entries -> EntryTypes] /\ d[p] = "namespace"
        /\ \A e \in Entries : e # p => d[e] = type[e]
        /\ p \in ResPaths /\ p # Root
    BY <1>1, <1>2, <1>18, TypeFacts DEF Deleted
  <2> HIDE DEF d, D
  <2>3. /\ Sound(refs', (Exact \ {p}) \cup D) /\ Match(refs', type')
        /\ \A e \in Entries : refs'[e] > 0 <=> refs[e] > 0 /\ e \notin D
        /\ D \subseteq Entries
        /\ type'[p] \in {"none", "namespace"}
        /\ \A e \in Entries : e # p =>
              type'[e] = type[e] \/ (type'[e] = "none" /\ type[e] \notin ResourceTypes)
    <3>1. Exact \subseteq Entries /\ Root \in Exact /\ Sound(refs, Exact) /\ Match(refs, type)
      BY <1>1, <1>2
    <3>2. /\ Sound(ReleaseRefs(refs, p), (Exact \ {p}) \cup Destroyed(refs, p))
          /\ Match(ReleaseRefs(refs, p), ReleaseTypes(refs, d, p))
          /\ \A e \in Entries :
                ReleaseRefs(refs, p)[e] > 0 <=> refs[e] > 0 /\ e \notin Destroyed(refs, p)
          /\ Destroyed(refs, p) \subseteq Entries /\ Destroyed(refs, p) \cap Exact \subseteq {p}
          /\ Root \notin Destroyed(refs, p)
          /\ ReleaseTypes(refs, d, p)[p] \in {"none", "namespace"}
          /\ \A e \in Entries : e # p =>
                \/ ReleaseTypes(refs, d, p)[e] = type[e]
                \/ ReleaseTypes(refs, d, p)[e] = "none" /\ type[e] \notin ResourceTypes
      BY ONLY <3>1, <1>18, <2>1, <2>2, Released
    <3> QED BY <2>1, <3>2 DEF D
  <2>4. \A q \in ResPaths : q # p /\ type[q] \in ResourceTypes => type'[q] \in ResourceTypes
    BY <1>2, <2>3
  <2>5. Exact' = (Exact \ {p}) \cup D
    BY <2>1, <2>3 DEF Exact
  <2>6. /\ settings' \in [ResPaths -> SUBSET Settings]
        /\ \A q \in ResPaths : settings'[q] # {} => type'[q] \in ResourceTypes
    BY <1>1, <2>1, <2>2, <2>4
  <2>7. \A q \in ResPaths : q # p => (type'[q] \in Told <=> type[q] \in Told)
    BY <1>2, <1>3, <2>3
  <2>8. type'[p] \notin Told
    BY <1>3, <2>3
  <2>9. announced' = {q \in ResPaths : type'[q] \in Told}
    BY <1>1, <2>1, <2>7, <2>8
  <2>10. /\ sessions' \subseteq Namespaces /\ stale' \subseteq Namespaces
         /\ short' \subseteq Owned /\ \A ns \in sessions' : refs'[ns] > 0
    BY <1>1, <1>2, <1>18, <2>1, <2>3
  <2> QED BY <2>3, <2>4, <2>5, <2>6, <2>9, <2>10
<1>19. ASSUME NEW p \in IoPaths, io_Delete(p)
       PROVE  TreeInv'
  <2>1. /\ p \in ResPaths /\ p \in Owned /\ Namespace(p) \in Namespaces
        /\ type[p] \in ResourceTypes /\ Discard(p, sessions \cup {Namespace(p)})
        /\ ~HasAdminSettings(p) /\ UNCHANGED <<source, fault>> /\ fault = "none"
    BY <1>3, <1>19, ClientNamespace, OwnedFacts DEF io_Delete
  <2>2. refs[Namespace(p)] > 0
    BY <1>1, <1>3, <2>1, PathLive
  <2> DEFINE cached == sessions \cup {Namespace(p)}
  <2>3. source[p] = NoSource /\ \A d \in ResPaths : source[d] # p
    BY <1>1, <2>1, RouteAssumption DEF HasAdminSettings, DestsOf
  <2>4. cached \in SUBSET Namespaces /\ \A ns \in cached : refs[ns] > 0
    BY <1>1, <2>1, <2>2
  <2>5. Discard(p, cached)
    BY <2>1
  <2> HIDE DEF cached
  <2>6. \A d \in ResPaths :
            source'[d] # NoSource =>
                type'[d] \in ResourceTypes /\ type'[source'[d]] \in ResourceTypes
    BY <1>1, <1>4, <1>18, <2>1, <2>3, <2>4, <2>5
  <2> QED BY <1>1, <1>18, <2>1, <2>4, <2>5, <2>6, TreeKept
<1>20. ASSUME NEW p \in ObsPaths, admin_DeleteObs(p)
       PROVE  TreeInv'
  <2>1. /\ p \in ResPaths /\ p \in Owned /\ type[p] \in ResourceTypes
        /\ Discard(p, sessions)
        /\ source' = DropRoutes(source, p) /\ UNCHANGED fault /\ fault = "none"
    BY <1>20, OwnedFacts DEF admin_DeleteObs
  <2>2. /\ source' \in [ResPaths -> ResPaths \cup {NoSource}]
        /\ source'[p] = NoSource
        /\ \A d \in ResPaths :
              source'[d] # p /\ (source'[d] # NoSource => source'[d] = source[d])
    BY <1>1, <2>1, DropRoutesFacts
  <2>3. \A d \in ResPaths :
            source'[d] # NoSource =>
                type'[d] \in ResourceTypes /\ type'[source'[d]] \in ResourceTypes
    BY <1>1, <1>4, <1>18, <2>1, <2>2
  <2> QED BY <1>1, <1>18, <2>1, <2>2, <2>3, TreeKept
\* Where every count balances a release destroys at most the entry itself, and that
\* only if it has no child.
<1>21. ASSUME NEW p \in ResPaths, DestructorAsserts(p)
       PROVE  TreeInv'
  <2>1. /\ p \in Owned /\ p \in ResPaths /\ type[p] \in ResourceTypes /\ ReleaseFails(refs, Deleted(p), p)
        /\ fault' = "assertion" /\ Exact' = Exact
        /\ UNCHANGED <<refs, type, settings, source, sessions, stale, announced, short>>
    BY <1>3, <1>21, OwnedFacts DEF DestructorAsserts, Exact
  <2>2. short # {}
    <3> SUFFICES ASSUME short = {} PROVE FALSE
      OBVIOUS
    <3>1. /\ Sound(refs, Entries) /\ Root \in Entries /\ p \in Entries /\ p # Root /\ refs[p] > 0
      BY <1>1, <1>2, <1>3, <2>1 DEF Exact, Match
    <3>2. /\ Destroyed(refs, p) \subseteq {p}
          /\ p \in Destroyed(refs, p) <=> refs[p] = 1
      <4>1. /\ \A e \in Destroyed(refs, p) : e \in Entries
            /\ Destroyed(refs, p) \cap Entries \subseteq {p}
            /\ p \in Destroyed(refs, p) <=> refs[p] = 1
        BY <3>1, DestroyedFacts
      <4> QED BY <4>1
    <3>3. refs[p] = 1 => Children(refs, p) = {}
      <4>1. IsFiniteSet(Children(refs, p)) /\ refs[p] = 1 + Cardinality(Children(refs, p))
        BY <3>1 DEF Sound, Live
      <4>2. Cardinality(Children(refs, p)) \in Nat
        BY <4>1, FS_CardinalityType
      <4>3. refs[p] = 1 => Cardinality(Children(refs, p)) = 0
        BY <4>1, <4>2
      <4> QED BY <4>1, <4>3, FS_EmptySet
    <3>4. Deleted(p)[p] = "namespace"
      BY <1>1, <3>1 DEF Deleted
    <3> QED BY <1>3, <2>1, <3>1, <3>2, <3>3, <3>4 DEF ReleaseFails
  <2> QED BY <1>1, <2>1, <2>2, TreeKept DEF Faults
<1>22. ASSUME NEW e \in Entries, admin_DeleteNamespace(e)
       PROVE  TreeInv'
  BY <1>1, <1>22, TreeKept DEF admin_DeleteNamespace, Exact, Faults
<1>23. CASE Restart
  <2>1. Init'
    BY <1>23 DEF Restart, Init
  <2> QED BY <2>1, TreeInit, PTL
<1>24. \A pair \in RoutePairs : pair[1] \in ResPaths /\ pair[2] \in ResPaths
  BY RouteAssumption
<1>25. IoPaths \subseteq ResPaths /\ ObsPaths \subseteq ResPaths
  BY DEF ResPaths
<1> QED BY <1>5, <1>7, <1>8, <1>9, <1>11, <1>12, <1>13, <1>14, <1>15, <1>16, <1>17,
           <1>19, <1>20, <1>21, <1>22, <1>23, <1>24, <1>25 DEF Next

LEMMA TreeInvariant == Spec => []TreeInv
<1>1. Init => TreeInv
  BY TreeInit
<1>2. TreeInv /\ [Next]_vars => TreeInv'
  BY TreeStep
<1> QED BY <1>1, <1>2, PTL DEF Spec

\* Every variable keeps its type (resTree.c, resource.c).
THEOREM TypeCorrect == Spec => []TypeOK
<1>1. TreeInv => TypeOK
  BY DEF TreeInv
<1> QED BY <1>1, TreeInvariant, PTL

\* AddChild(), le_mem_Release() and EntryDestructor() together leave the entries a
\* tree in which no parentPtr dangles, even where a resource is above another and
\* the count of its entry is too small.
THEOREM TreeStays == Spec => []TreeShape
<1>1. TreeInv => TreeShape
  BY DEF TreeInv, TreeShape, Sound, Match, CachedLive
<1> QED BY <1>1, TreeInvariant, PTL

\* Both ends of every route are resources, through every deletion, replacement
\* by a placeholder and new creation (res_Destruct(), res_MoveAdminSettings()).
THEOREM RoutesStayLive == Spec => []RoutesLive
<1>1. TreeInv => RoutesLive
  BY DEF TreeInv
<1> QED BY <1>1, TreeInvariant, PTL

\* An entry has one reference of its own and one per child, in any tree: GoToEntry(),
\* resTree_DeleteIO() and resTree_DeleteObservation() neither lose nor leak one,
\* but for the own reference of an entry that outlives a resource deleted from it.
THEOREM BooksBalance == Spec => []RefsBalance
<1>1. TreeInv => RefsBalance
  BY DEF TreeInv, Sound, RefsBalance, Exact, Live
<1> QED BY <1>1, TreeInvariant, PTL

\* No call of a client or the administrator makes EntryDestructor() assert, unless an
\* entry has outlived a resource deleted from it.
THEOREM DestructorsPass == Spec => []AssertionsHold
<1>1. TreeInv => AssertionsHold
  BY DEF TreeInv
<1> QED BY <1>1, TreeInvariant, PTL

\* A discarded resource takes a namespace along only if it is in its place, or one was.
LEMMA SessionsStep ==
    TreeInv /\ [Next]_vars =>
        [\A ns \in stale' \ stale : type[ns] \in IoTypes \/ ns \in short]_vars
<1> SUFFICES ASSUME TreeInv, Next, NEW ns \in stale' \ stale
             PROVE  type[ns] \in IoTypes \/ ns \in short
  OBVIOUS
<1>1. /\ Sound(refs, Exact) /\ Match(refs, type) /\ type \in [Entries -> EntryTypes]
      /\ Exact \subseteq Entries /\ Root \in Exact /\ Owned \subseteq ResPaths
      /\ Owned \subseteq Entries /\ Root \notin Owned /\ ns \notin ObsPaths
      /\ sessions \subseteq Namespaces /\ Namespaces \subseteq Entries
      /\ \A p \in IoPaths : Namespace(p) \in Namespaces
  <2>1. TypeOK'
    BY TreeStep DEF TreeInv
  <2>2. PICK p \in IoPaths : ns = Namespace(p)
    BY <2>1 DEF TypeOK, Namespaces
  <2>3. p \in Seq(STRING) /\ Len(p) \in Nat /\ Len(p) >= 2 /\ p[1] = "app"
    BY PathAssumption, LenProperties
  <2>4. 2 \in 0 .. Len(p) /\ 1 \in 1 .. 2
    BY <2>3
  <2>5. ns[1] = "app"
    BY <2>2, <2>3, <2>4, PrefixFacts DEF Namespace
  <2>6. ns \notin ObsPaths
    <3>1. "app" # "obs"
      OBVIOUS
    <3> QED BY <2>5, <3>1, PathAssumption
  <2> QED BY <2>6, OwnedFacts, ClientNamespace DEF TreeInv, TypeOK, Exact, Owned
<1>2. ASSUME NEW p \in Owned, type[p] \in ResourceTypes, NEW cached \in SUBSET Namespaces,
             Discard(p, cached)
      PROVE  ns = p \/ ns \in short
  <2>1. ns \in Destroyed(refs, p) /\ ns \in Entries
    BY <1>1, <1>2 DEF Discard
  <2>2. refs[p] > 0 /\ p # Root /\ p \in Entries
    BY <1>1, <1>2, TypeFacts DEF Match, Sound
  <2>3. Destroyed(refs, p) \cap Exact \subseteq {p}
    BY ONLY <1>1, <2>2, DestroyedFacts
  <2> QED BY <2>1, <2>3 DEF Exact
<1>3. CASE \E p \in IoPaths : io_Delete(p)
  <2>1. PICK p \in IoPaths : io_Delete(p)
    BY <1>3
  <2>2. /\ type[p] \in IoTypes /\ p \in Owned /\ sessions \cup {Namespace(p)} \in SUBSET Namespaces
        /\ Discard(p, sessions \cup {Namespace(p)})
    BY <1>1, <2>1, OwnedFacts DEF io_Delete
  <2>3. ns = p \/ ns \in short
    BY <1>2, <2>2, TypeFacts
  <2> QED BY <2>2, <2>3
<1>4. CASE \E p \in ObsPaths : admin_DeleteObs(p)
  <2>1. PICK p \in ObsPaths : admin_DeleteObs(p)
    BY <1>4
  <2>2. /\ type[p] \in ResourceTypes /\ p \in Owned /\ sessions \in SUBSET Namespaces
        /\ Discard(p, sessions)
    BY <1>1, <2>1, OwnedFacts DEF admin_DeleteObs
  <2>3. ns = p \/ ns \in short
    BY <1>2, <2>2
  <2> QED BY <1>1, <2>3
<1>5. CASE stale' \subseteq stale
  BY <1>5
<1> QED BY <1>3, <1>4, <1>5 DEF Next, io_Call, CloseSession, StaleCall, io_Create,
           io_DeleteKeepingSettings, admin_Set, admin_Remove, admin_SetSource, BadPath,
           admin_RemoveSource, DestructorAsserts, admin_CreateObs, admin_DeleteNamespace, Restart

\* The namespace that hub_GetClientNamespace() caches without a reference is freed
\* only with or after an I/O resource that was created in its place; no deletion of
\* what is in it does.
THEOREM SessionsStayLive == Spec => SessionsLive
BY TreeInvariant, SessionsStep, PTL DEF Spec, SessionsLive

\* The notifications of CallResourceTreeChangeHandlers() tell a client that
\* applies them which Inputs, Outputs and Observations there are.
THEOREM NotificationsExact == Spec => []AnnouncedExactly
<1>1. TreeInv => AnnouncedExactly
  BY DEF TreeInv
<1> QED BY <1>1, TreeInvariant, PTL

-----------------------------------------------------------------------------
(* What a client's deletion leaves alone *)

\* Walking to a path and putting a resource there turns no I/O resource into
\* something else, unless it is the one at that path.
LEMMA IoKept ==
    ASSUME TreeInv, NEW e \in Entries,
           NEW q \in IoPaths, type[q] \in IoTypes
    PROVE  /\ AddTypes(refs, type, e)[q] \in IoTypes
           /\ e \in ResPaths => PlaceAny(refs, type, e)[q] \in IoTypes
           /\ \A k \in ResourceTypes :
                 e \in ResPaths /\ q # e => Place(refs, type, e, k)[q] \in IoTypes
<1>1. /\ Sound(refs, Exact) /\ Match(refs, type) /\ Exact \subseteq Entries
      /\ q \in Entries /\ "none" \notin ResourceTypes /\ IoTypes \subseteq ResourceTypes
      /\ refs \in [Entries -> Nat]
  BY OwnedFacts, TypeFacts DEF TreeInv, TypeOK, Exact
<1>2. AddTypes(refs, type, e)[q] \in IoTypes
  <2>1. /\ Sound(AddRefs(refs, e), Exact)
        /\ \A x \in Entries : AddRefs(refs, e)[x] > 0 <=> refs[x] > 0 \/ x \in PathTo(e)
    BY <1>1, AddRefsSound
  <2>2. AddRefs(refs, e) \in [Entries -> Nat]
    BY <2>1 DEF Sound
  <2>3. \A x \in Entries :
           AddTypes(refs, type, e)[x]
              = IF type[x] = "none" /\ x \in PathTo(e) THEN "namespace" ELSE type[x]
    BY <1>1, <2>1, <2>2, Walked
  <2> QED BY <1>1, <2>3
<1>3. ASSUME e \in ResPaths, NEW k \in ResourceTypes
      PROVE  Place(refs, type, e, k)[q] = IF q = e THEN k ELSE type[q]
  <2>1. /\ Sound(AddRefs(refs, e), Exact)
        /\ Match(AddRefs(refs, e), Place(refs, type, e, k))
        /\ \A x \in Entries :
              Place(refs, type, e, k)[x] =
                  IF x = e THEN k
                  ELSE IF type[x] = "none" /\ x \in PathTo(e) THEN "namespace" ELSE type[x]
    BY <1>1, <1>3, Placed
  <2> QED BY <1>1, <2>1
<1>4. ASSUME e \in ResPaths
      PROVE  PlaceAny(refs, type, e)[q] \in IoTypes
  <2> DEFINE k == IF type[e] \in ResourceTypes THEN type[e] ELSE "placeholder"
  <2>1. k \in ResourceTypes /\ PlaceAny(refs, type, e) = Place(refs, type, e, k)
    BY TypeFacts DEF PlaceAny
  <2>2. q = e => k = type[q]
    BY <1>1
  <2> HIDE DEF k
  <2> QED BY <1>3, <1>4, <2>1, <2>2
<1> QED BY <1>2, <1>3, <1>4

\* Every step keeps the settings and the routes of an I/O resource's owner, or
\* keeps every I/O resource.
LEMMA SettingsStep ==
    TreeInv /\ [Next]_vars =>
        [\A p \in IoPaths :
            /\ fault = "none"
            /\ type[p] \in IoTypes
            /\ type'[p] \notin IoTypes
            => settings' = settings /\ source' = source]_vars
<1> SUFFICES ASSUME TreeInv, Next, fault = "none",
                    NEW p \in IoPaths, type[p] \in IoTypes, type'[p] \notin IoTypes
             PROVE  settings' = settings /\ source' = source
  OBVIOUS
<1>1. /\ Sound(refs, Exact) /\ Match(refs, type)
      /\ type \in [Entries -> EntryTypes] /\ settings \in [ResPaths -> SUBSET Settings]
      /\ p \in ResPaths /\ p \in Entries /\ ResPaths \subseteq Entries
      /\ IoTypes \subseteq ResourceTypes /\ IoPaths \cap ObsPaths = {}
      /\ Namespaces \subseteq Entries /\ Exact \subseteq Entries /\ Root \in Exact
      /\ Owned \subseteq ResPaths /\ Root \notin Owned
  BY OwnedFacts, EntryFacts, TypeFacts DEF TreeInv, TypeOK, Exact, Owned
<1>2. ~ \E e \in Entries : type' = AddTypes(refs, type, e)
  BY IoKept
<1>3. ~ \E e \in ResPaths : type' = PlaceAny(refs, type, e)
  BY <1>1, IoKept
<1>4. ~ \E e \in ResPaths \ {p} : \E k \in ResourceTypes : type' = Place(refs, type, e, k)
  BY <1>1, IoKept
<1>5. type' # type
  OBVIOUS
<1>6. ASSUME NEW q \in Owned, NEW cached, Discard(q, cached), type[q] \in ResourceTypes
      PROVE  q = p
  <2> DEFINE d == Deleted(q)
  <2>1. type' = ReleaseTypes(refs, d, q) /\ ~ReleaseFails(refs, d, q)
    BY <1>6 DEF Discard
  <2>2. /\ d \in [Entries -> EntryTypes] /\ d[q] = "namespace"
        /\ \A e \in Entries : e # q => d[e] = type[e]
    BY <1>1, TypeFacts DEF Deleted
  <2> HIDE DEF d
  <2>3. \A e \in Entries : e # q =>
              type'[e] = type[e] \/ (type'[e] = "none" /\ type[e] \notin ResourceTypes)
    <3>1. q \in ResPaths /\ q # Root
      BY <1>1, <1>6
    <3>2. /\ Sound(ReleaseRefs(refs, q), (Exact \ {q}) \cup Destroyed(refs, q))
          /\ Match(ReleaseRefs(refs, q), ReleaseTypes(refs, d, q))
          /\ \A e \in Entries :
                ReleaseRefs(refs, q)[e] > 0 <=> refs[e] > 0 /\ e \notin Destroyed(refs, q)
          /\ Destroyed(refs, q) \subseteq Entries /\ Destroyed(refs, q) \cap Exact \subseteq {q}
          /\ Root \notin Destroyed(refs, q)
          /\ ReleaseTypes(refs, d, q)[q] \in {"none", "namespace"}
          /\ \A e \in Entries : e # q =>
                \/ ReleaseTypes(refs, d, q)[e] = type[e]
                \/ ReleaseTypes(refs, d, q)[e] = "none" /\ type[e] \notin ResourceTypes
      BY ONLY <1>1, <1>6, <2>1, <2>2, <3>1, Released
    <3> QED BY <2>1, <3>2
  <2> QED BY <1>1, <2>3
<1>7. CASE \E ns \in Namespaces : io_Call(ns) \/ CloseSession(ns) \/ StaleCall(ns)
  BY <1>1, <1>2, <1>5, <1>7 DEF io_Call, CloseSession, StaleCall
<1>8. CASE \E q \in IoPaths : \E ioType \in IoTypes : io_Create(q, ioType)
  <2>1. PICK q \in IoPaths, ioType \in IoTypes : io_Create(q, ioType)
    BY <1>8
  <2>2. q # p
    BY <2>1, TypeFacts DEF io_Create, IoTypes
  <2> QED BY <1>1, <1>4, <2>1, <2>2 DEF io_Create, ResPaths
<1>9. CASE \E q \in IoPaths : io_DeleteKeepingSettings(q)
  BY <1>9 DEF io_DeleteKeepingSettings
<1>10. CASE \E q \in IoPaths : io_Delete(q)
  <2>1. PICK q \in IoPaths : io_Delete(q)
    BY <1>10
  <2>2. /\ settings' = [settings EXCEPT ![q] = {}] /\ source' = source
        /\ settings[q] = {} /\ q \in ResPaths
    BY <2>1 DEF io_Delete, Discard, HasAdminSettings, ResPaths
  <2> QED BY <1>1, <2>2
<1>11. CASE \E q \in ResPaths : \E kind \in Settings : admin_Set(q, kind) \/ admin_Remove(q, kind)
  BY <1>3, <1>5, <1>11 DEF admin_Set, admin_Remove
<1>12. CASE \E pair \in RoutePairs : admin_SetSource(pair[1], pair[2])
  <2>1. PICK pair \in RoutePairs : admin_SetSource(pair[1], pair[2])
    BY <1>12
  <2> DEFINE dest == pair[1]
             src == pair[2]
             r1 == AddRefs(refs, dest)
             t1 == PlaceAny(refs, type, dest)
  <2>2. dest \in ResPaths /\ src \in ResPaths
    BY <2>1, RouteAssumption
  <2>3. type' = PlaceAny(r1, t1, src)
    BY <2>1 DEF admin_SetSource
  <2> HIDE DEF dest, src
  <2>4. PICK k1 \in ResourceTypes : t1 = Place(refs, type, dest, k1)
    BY TypeFacts DEF PlaceAny
  <2>5. Sound(r1, Exact) /\ Match(r1, t1)
    BY <1>1, <2>2, <2>4, Placed
  <2>6. t1[p] \in IoTypes
    BY <1>1, <2>2, IoKept
  <2> HIDE DEF r1, t1
  <2> DEFINE k2 == IF t1[src] \in ResourceTypes THEN t1[src] ELSE "placeholder"
  <2>7. k2 \in ResourceTypes /\ type' = Place(r1, t1, src, k2)
    BY <2>3, TypeFacts DEF PlaceAny
  <2>8. src = p => k2 = t1[p]
    BY <1>1, <2>6
  <2> HIDE DEF k2
  <2>9. /\ Sound(AddRefs(r1, src), Exact)
        /\ Match(AddRefs(r1, src), Place(r1, t1, src, k2))
        /\ \A x \in Entries :
              Place(r1, t1, src, k2)[x] =
                  IF x = src THEN k2
                  ELSE IF t1[x] = "none" /\ x \in PathTo(src) THEN "namespace" ELSE t1[x]
    BY <1>1, <2>2, <2>5, <2>7, Placed
  <2>10. type'[p] \in IoTypes
    BY <1>1, <2>6, <2>7, <2>8, <2>9, TypeFacts
  <2> QED BY <2>10
<1>13. CASE \E q \in ResPaths : \E n \in 0 .. Len(q) - 1 : BadPath(Prefix(q, n))
  <2>1. PICK q \in ResPaths : \E n \in 0 .. Len(q) - 1 : BadPath(Prefix(q, n))
    BY <1>13
  <2>2. PICK n \in 0 .. Len(q) - 1 : BadPath(Prefix(q, n))
    BY <2>1
  <2>3. q \in Seq(STRING) /\ Len(q) \in Nat /\ n \in 0 .. Len(q)
    BY <1>1, EntryFacts, LenProperties
  <2>4. Prefix(q, n) \in PathTo(q)
    BY <2>3 DEF PathTo
  <2>5. Prefix(q, n) \in Entries
    BY <1>1, <2>4, EntryFacts
  <2> QED BY <1>2, <2>2, <2>5 DEF BadPath
<1>14. CASE \E q \in ResPaths : admin_RemoveSource(q) \/ DestructorAsserts(q)
  BY <1>5, <1>14 DEF admin_RemoveSource, DestructorAsserts
<1>15. CASE \E q \in ObsPaths : admin_CreateObs(q) \/ admin_DeleteObs(q)
  <2>1. PICK q \in ObsPaths : admin_CreateObs(q) \/ admin_DeleteObs(q)
    BY <1>15
  <2>2. q \in ResPaths /\ q # p
    BY <1>1 DEF ResPaths
  <2>3. ~admin_CreateObs(q)
    BY <1>4, <2>2, TypeFacts DEF admin_CreateObs
  <2>4. ~admin_DeleteObs(q)
    BY <1>6, <2>1, <2>2, OwnedFacts DEF admin_DeleteObs
  <2> QED BY <2>1, <2>3, <2>4
<1>16. CASE \E e \in Entries : admin_DeleteNamespace(e)
  BY <1>5, <1>16 DEF admin_DeleteNamespace
<1>17. CASE Restart
  BY <1>17 DEF Restart
<1> QED BY <1>7, <1>8, <1>9, <1>10, <1>11, <1>12, <1>13, <1>14, <1>15, <1>16, <1>17 DEF Next

\* A client that deletes its resource takes no setting and no route of the
\* administrator's with it (io_DeleteResource(), res_HasAdminSettings()).
THEOREM SettingsKept == Spec => DeleteKeepsSettings
BY TreeInvariant, SettingsStep, PTL DEF Spec, DeleteKeepsSettings

-----------------------------------------------------------------------------
(* Trees whose resources are leaves *)

\* Deleting a resource that is a leaf destroys its entry.
LEMMA FlatStep ==
    ASSUME Flat, TreeInv, short = {}, [Next]_vars
    PROVE  short' = {}
<1>1. ASSUME NEW p \in Owned, NEW cached, type[p] \in ResourceTypes, Discard(p, cached)
      PROVE  short' = {}
  <2>1. Sound(refs, Entries) /\ refs[p] > 0 /\ p # Root /\ p \in ResPaths
    BY <1>1, OwnedFacts, TypeFacts DEF TreeInv, Exact, Match, Sound
  <2>2. Destroyed(refs, p) = {p}
    BY <2>1, LeafRelease
  <2> QED BY <1>1, <2>2 DEF Discard
<1>2. CASE \E p \in IoPaths : io_Delete(p)
  BY <1>1, <1>2, OwnedFacts, TypeFacts DEF io_Delete
<1>3. CASE \E p \in ObsPaths : admin_DeleteObs(p)
  BY <1>1, <1>3, OwnedFacts DEF admin_DeleteObs
<1>4. CASE short' = short \/ short' = {}
  BY <1>4
<1> QED BY <1>2, <1>3, <1>4 DEF Next, vars, io_Call, CloseSession, StaleCall, io_Create,
           io_DeleteKeepingSettings, admin_Set, admin_Remove, admin_SetSource, BadPath,
           admin_RemoveSource, DestructorAsserts, admin_CreateObs, admin_DeleteNamespace, Restart

\* Where resources are leaves, as admin.api has it, no entry outlives a resource deleted
\* from it: there RefsBalance, AssertionsHold and SessionsLive have no exception but
\* that of a client that creates a resource in the place of its namespace.
THEOREM FlatNeverShort == ASSUME Flat PROVE Spec => [](short = {})
<1>1. Init => short = {}
  BY DEF Init
<1>2. TreeInv /\ short = {} /\ [Next]_vars => (short = {})'
  BY FlatStep
<1> QED BY <1>1, <1>2, TreeInvariant, PTL DEF Spec

-----------------------------------------------------------------------------
(* Routes, in any tree *)

RoutesInv ==
    /\ source \in [ResPaths -> ResPaths \cup {NoSource}]
    /\ Ranked(source)

LEMMA RoutesInvariant == ASSUME NoSelfRoutes PROVE Spec => []RoutesInv
<1>1. Init => RoutesInv
  <2> SUFFICES ASSUME Init PROVE RoutesInv
    OBVIOUS
  <2>1. source \in [ResPaths -> ResPaths \cup {NoSource}]
    BY DEF Init
  <2>2. RankedBy(source, [p \in ResPaths |-> 0])
    BY DEF Init, RankedBy
  <2> QED BY <2>1, <2>2 DEF RoutesInv, Ranked
<1>2. RoutesInv /\ [Next]_vars => RoutesInv'
  <2> SUFFICES ASSUME RoutesInv, [Next]_vars PROVE RoutesInv'
    OBVIOUS
  <2>1. source \in [ResPaths -> ResPaths \cup {NoSource}] /\ Ranked(source)
    BY DEF RoutesInv
  <2>2. NoSource \notin ResPaths
    BY RouteAssumption
  <2>3. CASE source' = source
    BY <2>1, <2>3 DEF RoutesInv
  <2>4. ASSUME NEW dest \in ResPaths, NEW src \in ResPaths, dest # src,
               source' = SetSource(source, dest, src)
        PROVE  RoutesInv'
    BY <2>1, <2>2, <2>4, RankedSet, SetSourceFacts DEF RoutesInv
  <2>5. ASSUME source' \in [ResPaths -> ResPaths \cup {NoSource}],
               \A d \in ResPaths : source'[d] = source[d] \/ source'[d] = NoSource
        PROVE  RoutesInv'
    BY <2>1, <2>5, RankedRemove DEF RoutesInv
  <2>6. ASSUME NEW dest \in ResPaths, admin_RemoveSource(dest)
        PROVE  RoutesInv'
    BY <2>1, <2>5, <2>6 DEF admin_RemoveSource, RemoveSource
  <2>7. ASSUME NEW p \in ObsPaths, admin_DeleteObs(p)
        PROVE  RoutesInv'
    BY <2>1, <2>5, <2>7, DropRoutesFacts DEF admin_DeleteObs, ResPaths
  <2>8. CASE Restart
    BY <2>5, <2>8 DEF Restart
  <2>9. \A pair \in RoutePairs :
            pair[1] \in ResPaths /\ pair[2] \in ResPaths /\ pair[1] # pair[2]
    BY RouteAssumption DEF NoSelfRoutes
  <2>10. CASE UNCHANGED vars
    BY <2>3, <2>10 DEF vars
  <2>11. CASE Next
    <3>1. ASSUME NEW ns \in Namespaces, io_Call(ns) \/ CloseSession(ns) \/ StaleCall(ns) PROVE RoutesInv'
      BY <2>3, <3>1 DEF io_Call, CloseSession, StaleCall
    <3>2. ASSUME NEW p \in IoPaths,
                 \/ \E ioType \in IoTypes : io_Create(p, ioType)
                 \/ io_DeleteKeepingSettings(p)
                 \/ io_Delete(p)
          PROVE  RoutesInv'
      BY <2>3, <3>2 DEF io_Create, io_DeleteKeepingSettings, io_Delete
    <3>3. ASSUME NEW p \in ResPaths, NEW kind \in Settings,
                 admin_Set(p, kind) \/ admin_Remove(p, kind)
          PROVE  RoutesInv'
      BY <2>3, <3>3 DEF admin_Set, admin_Remove
    <3>4. ASSUME NEW pair \in RoutePairs, admin_SetSource(pair[1], pair[2]) PROVE RoutesInv'
      BY <2>4, <2>9, <3>4 DEF admin_SetSource
    <3>5. ASSUME NEW p \in ResPaths,
                 DestructorAsserts(p) \/ \E n \in 0 .. Len(p) - 1 : BadPath(Prefix(p, n))
          PROVE  RoutesInv'
      BY <2>3, <3>5 DEF DestructorAsserts, BadPath
    <3>6. ASSUME NEW p \in ObsPaths, admin_CreateObs(p)
          PROVE  RoutesInv'
      BY <2>3, <3>6 DEF admin_CreateObs
    <3>7. ASSUME NEW e \in Entries, admin_DeleteNamespace(e)
          PROVE  RoutesInv'
      BY <2>3, <3>7 DEF admin_DeleteNamespace
    <3> QED BY <2>6, <2>7, <2>8, <2>11, <3>1, <3>2, <3>3, <3>4, <3>5, <3>6, <3>7 DEF Next
  <2> QED BY <2>10, <2>11
<1> QED BY <1>1, <1>2, PTL DEF Spec

\* No history of routing calls ends in a loop that a push would run around for
\* ever, nested resources or not: CanGetThereFromHere() is asked of the routes
\* as they are without the one that is replaced.
THEOREM RoutesFormNoLoop == ASSUME NoSelfRoutes PROVE Spec => []RoutesAcyclic
<1>1. RoutesInv => RoutesAcyclic
  BY RankedNoLoop, RouteAssumption DEF RoutesInv, RoutesAcyclic
<1> QED BY <1>1, RoutesInvariant, PTL

-----------------------------------------------------------------------------
(* Push handlers (Handlers) *)

\* f gives what Kept collects of the first elements of s, up to the n-th.
Keeps(f, s, hs, n) ==
    f = [i \in 0 .. n |->
            IF i = 0 THEN <<>>
            ELSE IF s[i] \in hs THEN Append(f[i - 1], s[i]) ELSE f[i - 1]]

\* There is such a function: one up to n - 1 extends to one up to n.
LEMMA KeepsExists ==
    ASSUME NEW s, NEW hs, NEW m \in Nat
    PROVE  Keeps(CHOOSE f : Keeps(f, s, hs, m), s, hs, m)
<1> DEFINE Fails(n) == ~\E f : Keeps(f, s, hs, n)
           T == {n \in Nat : Fails(n)}
           Next1(f, n) == IF s[n] \in hs THEN Append(f[n - 1], s[n]) ELSE f[n - 1]
           G(f, n) == [i \in 0 .. n |-> IF i = n THEN Next1(f, n) ELSE f[i]]
<1>1. ~Fails(0)
  <2> DEFINE f == [i \in 0 .. 0 |-> <<>>]
  <2>1. f = [i \in 0 .. 0 |->
               IF i = 0 THEN <<>>
               ELSE IF s[i] \in hs THEN Append(f[i - 1], s[i]) ELSE f[i - 1]]
    OBVIOUS
  <2> HIDE DEF f
  <2> QED BY <2>1 DEF Keeps
<1>2. \A n \in Nat : n # 0 /\ ~Fails(n - 1) => ~Fails(n)
  <2> SUFFICES ASSUME NEW n \in Nat, n # 0, NEW f, Keeps(f, s, hs, n - 1)
               PROVE  \E g : Keeps(g, s, hs, n)
    OBVIOUS
  <2>1. \A i \in 0 .. n : i # n => i \in 0 .. n - 1 /\ (i # 0 => i - 1 \in 0 .. n - 1)
    OBVIOUS
  <2>2. \A i \in 0 .. n - 1 :
           f[i] = IF i = 0 THEN <<>>
                  ELSE IF s[i] \in hs THEN Append(f[i - 1], s[i]) ELSE f[i - 1]
    BY DEF Keeps
  <2>3. \A i \in 0 .. n - 1 : i \in 0 .. n /\ i # n
    OBVIOUS
  <2>4. \A i \in 0 .. n - 1 : G(f, n)[i] = f[i]
    BY <2>3
  <2>5. G(f, n)[n] = Next1(f, n)
    OBVIOUS
  <2>6. n - 1 \in 0 .. n - 1
    OBVIOUS
  <2> DEFINE g == G(f, n)
  <2>7. /\ g = [i \in 0 .. n |-> g[i]]
        /\ \A i \in 0 .. n - 1 : g[i] = f[i]
        /\ g[n] = IF s[n] \in hs THEN Append(g[n - 1], s[n]) ELSE g[n - 1]
    BY <2>4, <2>5, <2>6
  <2> HIDE DEF g
  <2>8. \A i \in 0 .. n :
           g[i] = IF i = 0 THEN <<>>
                  ELSE IF s[i] \in hs THEN Append(g[i - 1], s[i]) ELSE g[i - 1]
    <3> SUFFICES ASSUME NEW i \in 0 .. n
                 PROVE  g[i] = IF i = 0 THEN <<>>
                               ELSE IF s[i] \in hs THEN Append(g[i - 1], s[i]) ELSE g[i - 1]
      OBVIOUS
    <3>1. CASE i = n
      BY <2>7, <3>1
    <3>2. CASE i # n
      <4>1. i \in 0 .. n - 1 /\ (i # 0 => i - 1 \in 0 .. n - 1)
        BY <2>1, <3>2
      <4> QED BY <2>2, <2>7, <4>1
    <3> QED BY <3>1, <3>2
  <2>9. Keeps(g, s, hs, n)
    BY <2>7, <2>8 DEF Keeps
  <2> QED BY <2>9
<1>3. T = {}
  <2> SUFFICES ASSUME T # {}
               PROVE  FALSE
    OBVIOUS
  <2> HIDE DEF Fails
  <2>1. PICK n \in T : \A k \in T : n <= k
    <3>1. T \subseteq Nat
      OBVIOUS
    <3> HIDE DEF T
    <3> QED BY <3>1, FirstNatural
  <2>2. n \in Nat /\ Fails(n) /\ n # 0
    BY <1>1, <2>1
  <2>3. n - 1 \in Nat /\ ~Fails(n - 1)
    BY <2>1, <2>2
  <2> QED BY <1>2, <2>2, <2>3
<1>4. \E f : Keeps(f, s, hs, m)
  BY <1>3
<1> QED BY <1>4

\* What Kept returns: the elements that are in hs, each pair in the order of s.
LEMMA KeptFacts ==
    ASSUME NEW s \in Seq(Handlers), NEW hs
    PROVE  /\ Kept(s, hs) \in Seq(Handlers)
           /\ ToSet(Kept(s, hs)) = ToSet(s) \cap hs
           /\ \A i, j \in 1 .. Len(Kept(s, hs)) : i < j =>
                 \E a, b \in 1 .. Len(s) :
                    a < b /\ s[a] = Kept(s, hs)[i] /\ s[b] = Kept(s, hs)[j]
<1> DEFINE f == CHOOSE f : Keeps(f, s, hs, Len(s))
           Good(n) == /\ f[n] \in Seq(Handlers)
                      /\ \A i \in 1 .. Len(f[n]) :
                            f[n][i] \in hs /\ \E a \in 1 .. n : s[a] = f[n][i]
                      /\ \A a \in 1 .. n : s[a] \in hs =>
                            \E i \in 1 .. Len(f[n]) : f[n][i] = s[a]
                      /\ \A i, j \in 1 .. Len(f[n]) : i < j =>
                            \E a, b \in 1 .. n : a < b /\ s[a] = f[n][i] /\ s[b] = f[n][j]
           T == {n \in 0 .. Len(s) : ~Good(n)}
<1>1. Len(s) \in Nat /\ DOMAIN s = 1 .. Len(s) /\ \A i \in 1 .. Len(s) : s[i] \in Handlers
  BY LenProperties, ElementOfSeq
<1>2. Kept(s, hs) = f[Len(s)]
  BY Zenon DEF Kept, Keeps
<1>3. Keeps(f, s, hs, Len(s))
  BY <1>1, KeepsExists
<1> HIDE DEF f
<1>4. \A n \in 0 .. Len(s) :
         f[n] = IF n = 0 THEN <<>>
                ELSE IF s[n] \in hs THEN Append(f[n - 1], s[n]) ELSE f[n - 1]
  BY <1>3 DEF Keeps
<1>5. Good(0)
  <2>1. f[0] = <<>>
    BY <1>1, <1>4
  <2>2. f[0] \in Seq(Handlers) /\ Len(f[0]) = 0
    BY <2>1, EmptySeq
  <2> QED BY <2>2
<1>6. ASSUME NEW n \in 1 .. Len(s), Good(n - 1)
      PROVE  Good(n)
  <2> DEFINE r == f[n - 1]
  <2>1. n - 1 \in 0 .. Len(s) /\ n \in 0 .. Len(s) /\ n # 0 /\ s[n] \in Handlers
    BY <1>1
  <2>2. \A a \in 1 .. n - 1 : a \in 1 .. n /\ a < n
    BY <1>1
  <2>3. CASE s[n] \notin hs
    <3>1. f[n] = r
      BY <1>4, <2>1, <2>3
    <3>2. \A a \in 1 .. n : s[a] \in hs => a \in 1 .. n - 1
      BY <1>1, <2>3
    <3> HIDE DEF r
    <3>3. /\ r \in Seq(Handlers)
          /\ \A i \in 1 .. Len(r) : r[i] \in hs /\ \E a \in 1 .. n - 1 : s[a] = r[i]
          /\ \A a \in 1 .. n - 1 : s[a] \in hs => \E i \in 1 .. Len(r) : r[i] = s[a]
          /\ \A i, j \in 1 .. Len(r) : i < j =>
                \E a, b \in 1 .. n - 1 : a < b /\ s[a] = r[i] /\ s[b] = r[j]
      BY <1>6 DEF r
    <3> QED BY <2>2, <3>1, <3>2, <3>3
  <2>4. CASE s[n] \in hs
    <3>1. f[n] = Append(r, s[n])
      BY <1>4, <2>1, <2>4
    <3> HIDE DEF r
    <3>2. /\ r \in Seq(Handlers)
          /\ \A i \in 1 .. Len(r) : r[i] \in hs /\ \E a \in 1 .. n - 1 : s[a] = r[i]
          /\ \A a \in 1 .. n - 1 : s[a] \in hs => \E i \in 1 .. Len(r) : r[i] = s[a]
          /\ \A i, j \in 1 .. Len(r) : i < j =>
                \E a, b \in 1 .. n - 1 : a < b /\ s[a] = r[i] /\ s[b] = r[j]
      BY <1>6 DEF r
    <3> DEFINE q == f[n]
    <3>3. /\ q \in Seq(Handlers) /\ Len(q) = Len(r) + 1 /\ Len(r) \in Nat
          /\ \A i \in 1 .. Len(r) : q[i] = r[i]
          /\ q[Len(r) + 1] = s[n]
      BY <2>1, <3>1, <3>2, AppendProperties, LenProperties
    <3> HIDE DEF q
    <3>4. \A i \in 1 .. Len(q) : i \in 1 .. Len(r) \/ i = Len(r) + 1
      BY <3>3
    <3>5. ASSUME NEW i \in 1 .. Len(q)
          PROVE  q[i] \in hs /\ \E a \in 1 .. n : s[a] = q[i]
      <4>1. CASE i \in 1 .. Len(r)
        <5>1. q[i] = r[i] /\ r[i] \in hs
          BY <3>2, <3>3, <4>1
        <5>2. PICK a \in 1 .. n - 1 : s[a] = r[i]
          BY <3>2, <4>1
        <5> QED BY <2>2, <5>1, <5>2
      <4>2. CASE i = Len(r) + 1
        <5>1. n \in 1 .. n
          BY <1>1
        <5> QED BY <2>4, <3>3, <4>2, <5>1
      <4> QED BY <3>4, <4>1, <4>2
    <3>6. \A a \in 1 .. n : s[a] \in hs => \E i \in 1 .. Len(q) : q[i] = s[a]
      <4> SUFFICES ASSUME NEW a \in 1 .. n, s[a] \in hs
                   PROVE  \E i \in 1 .. Len(q) : q[i] = s[a]
        OBVIOUS
      <4>1. CASE a = n
        <5>1. Len(r) + 1 \in 1 .. Len(q)
          BY <3>3
        <5> QED BY <3>3, <4>1, <5>1
      <4>2. CASE a # n
        <5>1. a \in 1 .. n - 1
          BY <1>1, <4>2
        <5>2. PICK i \in 1 .. Len(r) : r[i] = s[a]
          BY <3>2, <5>1
        <5>3. i \in 1 .. Len(q) /\ q[i] = r[i]
          BY <3>3
        <5> QED BY <5>2, <5>3
      <4> QED BY <4>1, <4>2
    <3>7. ASSUME NEW i \in 1 .. Len(q), NEW j \in 1 .. Len(q), i < j
          PROVE  \E a, b \in 1 .. n : a < b /\ s[a] = q[i] /\ s[b] = q[j]
      <4>1. i \in 1 .. Len(r)
        BY <3>3, <3>7
      <4>2. CASE j \in 1 .. Len(r)
        <5>1. PICK a \in 1 .. n - 1, b \in 1 .. n - 1 : a < b /\ s[a] = r[i] /\ s[b] = r[j]
          BY <3>2, <3>7, <4>1, <4>2
        <5> QED BY <2>2, <3>3, <4>1, <4>2, <5>1
      <4>3. CASE j = Len(r) + 1
        <5>1. PICK a \in 1 .. n - 1 : s[a] = r[i]
          BY <3>2, <4>1
        <5>2. a \in 1 .. n /\ a < n /\ n \in 1 .. n
          BY <1>1, <2>2
        <5> QED BY <3>3, <4>1, <4>3, <5>1, <5>2
      <4> QED BY <3>4, <4>2, <4>3
    <3> QED BY <3>3, <3>5, <3>6, <3>7 DEF q
  <2> QED BY <2>3, <2>4
<1>7. T = {}
  <2> SUFFICES ASSUME T # {}
               PROVE  FALSE
    OBVIOUS
  <2> HIDE DEF Good
  <2>1. PICK n \in T : \A k \in T : n <= k
    <3>1. T \subseteq Nat
      BY <1>1
    <3> HIDE DEF T
    <3> QED BY <3>1, FirstNatural
  <2>2. n \in 1 .. Len(s) /\ ~Good(n)
    BY <1>1, <1>5, <2>1
  <2>3. n - 1 \in 0 .. Len(s) /\ ~(n <= n - 1)
    BY <1>1, <2>2
  <2>4. Good(n - 1)
    BY <2>1, <2>3
  <2> QED BY <1>6, <2>2, <2>4
<1>8. Good(Len(s))
  <2> HIDE DEF Good
  <2>1. Len(s) \in 0 .. Len(s)
    BY <1>1
  <2> QED BY <1>7, <2>1
<1> DEFINE k == Kept(s, hs)
<1>9. /\ k \in Seq(Handlers)
      /\ \A i \in 1 .. Len(k) : k[i] \in hs /\ \E a \in 1 .. Len(s) : s[a] = k[i]
      /\ \A a \in 1 .. Len(s) : s[a] \in hs => \E i \in 1 .. Len(k) : k[i] = s[a]
      /\ \A i, j \in 1 .. Len(k) : i < j =>
            \E a, b \in 1 .. Len(s) : a < b /\ s[a] = k[i] /\ s[b] = k[j]
  BY <1>2, <1>8
<1> HIDE DEF k
<1>10. DOMAIN k = 1 .. Len(k)
  BY <1>9, LenProperties
<1>11. ToSet(k) = ToSet(s) \cap hs
  <2>1. ASSUME NEW x \in ToSet(k)
        PROVE  x \in ToSet(s) /\ x \in hs
    <3>1. PICK i \in 1 .. Len(k) : x = k[i]
      BY <1>10 DEF ToSet
    <3>2. PICK a \in 1 .. Len(s) : s[a] = k[i]
      BY <1>9
    <3> QED BY <1>1, <1>9, <3>1, <3>2 DEF ToSet
  <2>2. ASSUME NEW x \in ToSet(s), x \in hs
        PROVE  x \in ToSet(k)
    <3>1. PICK a \in 1 .. Len(s) : x = s[a]
      BY <1>1 DEF ToSet
    <3>2. PICK i \in 1 .. Len(k) : k[i] = s[a]
      BY <1>9, <2>2, <3>1
    <3> QED BY <1>10, <3>1, <3>2 DEF ToSet
  <2> QED BY <2>1, <2>2
<1> QED BY <1>9, <1>11 DEF k

\* The handlers on the list of an object, and the inductive invariant: an object serves
\* one resource, a handler that some list leads to is registered on a resource that has
\* an object, and the lists are exact, those that begin with a released handler (which lead
\* to nobody else) included.
Listed == Registered \ Adrift
On(o) == {h \in Listed : object[path[h]] = o}
OneResource == \A p, q \in Paths : object[p] # None /\ object[p] = object[q] => p = q
HaveResource ==
    /\ \A h \in Listed : object[path[h]] # None
    /\ \A h \in Registered : listPtr[h] \in Objects
NeverMoved ==
    ~moved => /\ dangling = {} /\ cycles = {} /\ ~lost
              /\ \A h \in Registered : listPtr[h] = object[path[h]]
HandlersInv ==
    /\ HandlersTypeOK
    /\ OneResource
    /\ HaveResource
    /\ Adrift \subseteq Registered
    /\ NeverMoved
    /\ \A o \in Objects : InOrder(list[o], On(o))
    /\ EveryoneCalled

\* Two descriptions of a list that is empty.
LEMMA NobodyThere ==
    ASSUME NEW s \in Seq(Handlers)
    PROVE  /\ InOrder(s, {}) <=> s = <<>>
           /\ ToSet(s) = {} => s = <<>>
<1>1. Len(s) \in Nat /\ DOMAIN s = 1 .. Len(s)
  BY LenProperties
<1>2. ASSUME ToSet(s) = {}
      PROVE  s = <<>>
  <2>1. 1 .. Len(s) = {}
    BY <1>1, <1>2 DEF ToSet
  <2>2. Len(s) # 0 => 1 \in 1 .. Len(s)
    BY <1>1
  <2>3. Len(s) = 0
    BY <2>1, <2>2
  <2> QED BY <2>3, EmptySeq
<1>3. ASSUME s = <<>>
      PROVE  InOrder(s, {})
  <2>1. Len(s) = 0
    BY <1>3, EmptySeq
  <2> QED BY <1>1, <2>1 DEF InOrder, ToSet
<1> QED BY <1>2, <1>3 DEF InOrder

\* A path in use is not None, and neither is an object of the pool.
LEMMA RegisteredFacts ==
    ASSUME HandlersTypeOK
    PROVE  /\ None \notin Paths /\ None \notin Objects
           /\ \A h \in Handlers : h \in Registered <=> path[h] \in Paths
           /\ \A h \in Registered : h \in Handlers /\ path[h] \in Paths
           /\ Listed \subseteq Registered
           /\ \A p \in Paths : object[p] # None => object[p] \in Objects
           /\ \A o \in Free : o \in Objects /\ o # None /\ \A p \in Paths : object[p] # o
BY HandlersAssumption DEF HandlersTypeOK, Registered, Listed, Free, InUse

\* The list of an object of the pool that serves no resource is empty.
LEMMA FreeIsEmpty ==
    ASSUME HandlersInv, NEW o \in Free
    PROVE  On(o) = {} /\ list[o] = <<>>
<1>1. o \in Objects /\ \A p \in Paths : object[p] # o
  BY RegisteredFacts DEF HandlersInv
<1>2. On(o) = {}
  BY <1>1, RegisteredFacts DEF HandlersInv, On
<1>3. list[o] \in Seq(Handlers)
  BY <1>1 DEF HandlersInv, HandlersTypeOK
<1>4. InOrder(list[o], On(o))
  BY <1>1 DEF HandlersInv
<1> QED BY <1>2, <1>3, <1>4, NobodyThere

\* The handlers of an object are those registered on its resource.
LEMMA OnResource ==
    ASSUME HandlersInv, NEW p \in Paths, object[p] # None
    PROVE  /\ On(object[p]) = {h \in Handlers \ Adrift : path[h] = p}
           /\ object[p] \in Objects
           /\ list[object[p]] \in Seq(Handlers)
           /\ InOrder(list[object[p]], {h \in Handlers \ Adrift : path[h] = p})
<1>1. object[p] \in Objects
  BY RegisteredFacts DEF HandlersInv
<1>2. ASSUME NEW h \in On(object[p])
      PROVE  h \in Handlers \ Adrift /\ path[h] = p
  BY <1>2, RegisteredFacts DEF HandlersInv, On, Listed, OneResource
<1>3. ASSUME NEW h \in Handlers \ Adrift, path[h] = p
      PROVE  h \in On(object[p])
  BY <1>3, RegisteredFacts DEF HandlersInv, On, Listed
<1>4. On(object[p]) = {h \in Handlers \ Adrift : path[h] = p}
  BY <1>2, <1>3
<1> QED BY <1>1, <1>4 DEF HandlersInv, HandlersTypeOK

\* Without a push there is nobody to be called.
LEMMA NoPushCalls ==
    last' = NoPush => EveryoneCalled'
BY DEF EveryoneCalled, NoPush

\* The lists of an empty hub.
LEMMA HandlersInvInit == HandlersInit => HandlersInv
<1> SUFFICES ASSUME HandlersInit
             PROVE  HandlersInv
  OBVIOUS
<1>1. HandlersTypeOK
  <2>1. \A S : <<>> \in Seq(S)
    BY EmptySeq
  <2> QED BY <2>1 DEF HandlersInit, HandlersTypeOK, NoPush, Types
<1>2. Registered = {} /\ Adrift = {} /\ Listed = {}
  BY DEF HandlersInit, Registered, Adrift, Listed
<1>3. \A o \in Objects : On(o) = {} /\ list[o] = <<>>
  BY <1>2 DEF On, HandlersInit
<1>4. \A o \in Objects : InOrder(list[o], On(o))
  <2> SUFFICES ASSUME NEW o \in Objects
               PROVE  InOrder(list[o], On(o))
    OBVIOUS
  <2>1. list[o] \in Seq(Handlers)
    BY <1>1 DEF HandlersTypeOK
  <2> QED BY <1>3, <2>1, NobodyThere
<1>5. EveryoneCalled /\ OneResource /\ HaveResource /\ NeverMoved
  BY <1>2 DEF HandlersInit, EveryoneCalled, OneResource, HaveResource, NeverMoved
<1> QED BY <1>1, <1>2, <1>4, <1>5 DEF HandlersInv

\* What keeps a list as it must be: nobody has come or gone, and the pairs are still there.
LEMMA StaysInOrder ==
    ASSUME NEW s \in Seq(Handlers), NEW hs, InOrder(s, hs),
           \A e \in earlier : e[1] \in hs /\ e[2] \in hs => e \in earlier'
    PROVE  /\ ToSet(s) = hs
           /\ \A i, j \in 1 .. Len(s) : i < j => s[i] # s[j] /\ <<s[i], s[j]>> \in earlier'
<1>1. DOMAIN s = 1 .. Len(s)
  BY LenProperties
<1>2. \A i \in 1 .. Len(s) : s[i] \in hs
  BY <1>1 DEF InOrder, ToSet
<1>3. ASSUME NEW i \in 1 .. Len(s), NEW j \in 1 .. Len(s), i < j
      PROVE  s[i] # s[j] /\ <<s[i], s[j]>> \in earlier'
  <2>1. s[i] # s[j] /\ <<s[i], s[j]>> \in earlier
    BY <1>3 DEF InOrder
  <2> DEFINE e == <<s[i], s[j]>>
  <2>2. e[1] = s[i] /\ e[2] = s[j]
    OBVIOUS
  <2>3. e \in earlier /\ e[1] \in hs /\ e[2] \in hs
    BY <1>2, <2>1, <2>2
  <2> HIDE DEF e
  <2>4. e \in earlier'
    BY <2>3
  <2> QED BY <2>1, <2>4 DEF e
<1>4. ToSet(s) = hs
  BY DEF InOrder
<1> QED BY <1>3, <1>4

\* Nothing that the model follows is changed through the links of a released handler.
LEMMA ThroughReleasedStep ==
    ASSUME HandlersInv, NEW o, ThroughReleased(o), last' = NoPush
    PROVE  HandlersInv'
<1> USE DEF HandlersInv
<1>1. /\ o \in dangling /\ lost' = TRUE
      /\ UNCHANGED <<object, list, listPtr, path, earlier, dangling, cycles, moved>>
  BY DEF ThroughReleased
<1>2. HandlersTypeOK'
  <2>1. NoPush \in [path: Paths \cup {None}, type: Types, called: Seq(Handlers)]
    BY EmptySeq DEF NoPush, Types
  <2> QED BY <1>1, <2>1 DEF HandlersTypeOK
<1>3. Registered' = Registered /\ Adrift' = Adrift /\ Listed' = Listed
  BY <1>1 DEF Registered, Adrift, Listed
<1>4. NeverMoved'
  BY <1>1 DEF NeverMoved
<1>5. OneResource' /\ HaveResource' /\ \A x \in Objects : InOrder(list[x], On(x))'
  BY <1>1, <1>3 DEF OneResource, HaveResource, InOrder, On
<1> QED BY <1>2, <1>3, <1>4, <1>5, NoPushCalls

\* A resource is created.
LEMMA CreateStep ==
    ASSUME HandlersInv, NEW p \in Paths, CreateResource(p)
    PROVE  HandlersInv'
<1> USE DEF HandlersInv
<1>1. PICK o \in Free : object' = [object EXCEPT ![p] = o]
  BY DEF CreateResource
<1>2. object[p] = None /\ last' = NoPush
      /\ UNCHANGED <<list, listPtr, path, earlier, dangling, cycles, lost, moved>>
  BY DEF CreateResource, hooks
<1>3. /\ object \in [Paths -> Objects \cup {None}]
      /\ object' \in [Paths -> Objects \cup {None}]
      /\ object'[p] = o
      /\ \A q \in Paths \ {p} : object'[q] = object[q]
  BY <1>1, RegisteredFacts DEF HandlersTypeOK
<1>4. HandlersTypeOK'
  <2>1. NoPush \in [path: Paths \cup {None}, type: Types, called: Seq(Handlers)]
    BY EmptySeq DEF NoPush, Types
  <2> QED BY <1>2, <1>3, <2>1 DEF HandlersTypeOK
<1>5. OneResource'
  BY <1>1, <1>3, RegisteredFacts DEF OneResource
<1>6. /\ Registered' = Registered /\ Adrift' = Adrift /\ Listed' = Listed
      /\ \A h \in Listed : path[h] # p
  BY <1>2 DEF Registered, Adrift, Listed, HaveResource
<1>7. \A h \in Listed : path'[h] = path[h] /\ object'[path[h]] = object[path[h]]
  BY <1>2, <1>3, <1>6, RegisteredFacts
<1>8. HaveResource' /\ NeverMoved'
  <2>1. ~moved => Listed = Registered
    BY DEF NeverMoved, Listed, Adrift
  <2> QED BY <1>2, <1>6, <1>7, <2>1 DEF HaveResource, NeverMoved
<1>9. \A x \in Objects : On(x)' = On(x)
  BY <1>6, <1>7 DEF On
<1>10. \A x \in Objects : InOrder(list[x], On(x))'
  BY <1>2, <1>9 DEF InOrder
<1> QED BY <1>2, <1>4, <1>5, <1>6, <1>8, <1>10, NoPushCalls

\* A resource gets another object, and the handlers go with it.
LEMMA ReplaceStep ==
    ASSUME HandlersInv, NEW p \in Paths, ReplaceResource(p)
    PROVE  HandlersInv'
<1> USE DEF HandlersInv
<1>0. CASE ThroughReleased(object[p])
  BY <1>0, ThroughReleasedStep DEF ReplaceResource
<1> SUFFICES ASSUME ~ThroughReleased(object[p])
             PROVE  HandlersInv'
  BY <1>0
<1>1. PICK n \in Free :
         /\ object' = [object EXCEPT ![p] = n]
         /\ list' = IF list[object[p]] = <<>> THEN list ELSE MoveAll(object[p], n)
  BY DEF ReplaceResource
<1>a. PICK o \in Objects : o = object[p]
  BY OnResource DEF ReplaceResource
<1>2. /\ o # None /\ last' = NoPush
      /\ moved' = (moved \/ list[o] # <<>>)
      /\ UNCHANGED <<listPtr, path, earlier, dangling, cycles, lost>>
  BY <1>a DEF ReplaceResource, hooks
<1>3. /\ object \in [Paths -> Objects \cup {None}]
      /\ object' \in [Paths -> Objects \cup {None}]
      /\ object'[p] = n
      /\ \A q \in Paths \ {p} : object'[q] = object[q]
  BY <1>1, RegisteredFacts DEF HandlersTypeOK
<1>4. n \in Objects /\ n # None /\ \A q \in Paths : object[q] # n
  BY <1>1, RegisteredFacts
<1>5. /\ o \in Objects /\ n # o
      /\ list[o] \in Seq(Handlers) /\ list[n] = <<>>
  BY <1>1, <1>2, <1>4, <1>a, OnResource, FreeIsEmpty
<1>6. /\ list' \in [Objects -> Seq(Handlers)]
      /\ list'[n] = list[o] /\ list'[o] = <<>>
      /\ \A x \in Objects \ {n, o} : list'[x] = list[x]
  <2>1. list[n] \o list[o] = list[o] /\ <<>> \in Seq(Handlers)
    BY <1>5, ConcatEmptySeq, EmptySeq
  <2>2. list \in [Objects -> Seq(Handlers)]
    BY DEF HandlersTypeOK
  <2>3. CASE list[o] = <<>>
    <3>1. list' = list
      BY <1>1, <1>a, <2>3
    <3> QED BY <1>5, <2>2, <2>3, <3>1
  <2>4. CASE list[o] # <<>>
    <3>1. list' = [list EXCEPT ![n] = list[n] \o list[o], ![o] = <<>>]
      BY <1>1, <1>a, <2>4 DEF MoveAll
    <3>2. list' = [list EXCEPT ![n] = list[o], ![o] = <<>>]
      BY <2>1, <3>1
    <3> QED BY <1>4, <1>5, <2>1, <2>2, <3>2
  <2> QED BY <2>3, <2>4
<1>7. HandlersTypeOK'
  <2>1. NoPush \in [path: Paths \cup {None}, type: Types, called: Seq(Handlers)]
    BY EmptySeq DEF NoPush, Types
  <2> QED BY <1>2, <1>3, <1>6, <2>1 DEF HandlersTypeOK
<1>8. OneResource'
  BY <1>3, <1>4 DEF OneResource
<1>9. /\ Registered' = Registered /\ Adrift' = Adrift /\ Listed' = Listed
      /\ \A h \in Registered : path'[h] = path[h] /\ path[h] \in Paths
      /\ Listed \subseteq Registered
  BY <1>2, RegisteredFacts DEF Registered, Adrift, Listed
<1>10. HaveResource' /\ NeverMoved'
  <2>1. HaveResource'
    BY <1>2, <1>3, <1>4, <1>9 DEF HaveResource
  <2>2. ASSUME ~moved'
        PROVE  \A h \in Registered : listPtr[h] = object[path[h]] /\ path[h] # p
    <3>1. ~moved /\ list[o] = <<>> /\ Listed = Registered
      BY <1>2, <2>2 DEF NeverMoved, Listed, Adrift
    <3>2. On(o) = {}
      <4>1. InOrder(list[o], On(o))
        BY <1>5
      <4>2. ToSet(<<>>) = {}
        BY EmptySeq DEF ToSet
      <4> QED BY <3>1, <4>1, <4>2 DEF InOrder
    <3> QED BY <1>a, <3>1, <3>2 DEF On, NeverMoved
  <2>3. NeverMoved'
    BY <1>2, <1>3, <1>9, <2>2 DEF NeverMoved
  <2> QED BY <2>1, <2>3
<1>11. On(n)' = On(o) /\ On(o)' = {} /\ \A x \in Objects \ {n, o} : On(x)' = On(x)
  <2>1. \A h \in Listed : object[path[h]] = o <=> path[h] = p
    BY <1>2, <1>9, <1>a DEF OneResource
  <2>2. \A h \in Listed : object'[path[h]] = IF path[h] = p THEN n ELSE object[path[h]]
    BY <1>3, <1>9
  <2>3. \A h \in Listed : object[path[h]] # n
    BY <1>4, <1>9
  <2>4. \A x : On(x)' = {h \in Listed : object'[path[h]] = x}
    BY <1>9 DEF On
  <2>5. On(n)' = On(o)
    BY <2>1, <2>2, <2>3, <2>4 DEF On
  <2>6. On(o)' = {}
    BY <1>5, <2>1, <2>2, <2>4
  <2>7. \A x \in Objects \ {n, o} : On(x)' = On(x)
    BY <2>1, <2>2, <2>4 DEF On
  <2> QED BY <2>5, <2>6, <2>7
<1>12. \A x \in Objects : InOrder(list[x], On(x))'
  <2> SUFFICES ASSUME NEW x \in Objects
               PROVE  InOrder(list[x], On(x))'
    OBVIOUS
  <2>1. InOrder(list[x], On(x)) /\ InOrder(list[o], On(o))
    BY <1>5
  <2>2. CASE x = n
    BY <1>2, <1>6, <1>11, <2>1, <2>2 DEF InOrder
  <2>3. CASE x = o
    <3>1. InOrder(<<>>, {})
      BY NobodyThere, EmptySeq
    <3>2. list'[x] = <<>> /\ On(x)' = {}
      BY <1>6, <1>11, <2>3
    <3>3. ToSet(<<>>) = {} /\ \A i, j \in 1 .. Len(<<>>) : ~(i < j)
      BY EmptySeq DEF ToSet
    <3> QED BY <3>2, <3>3, Zenon DEF InOrder
  <2>4. CASE x # n /\ x # o
    BY <1>2, <1>6, <1>11, <2>1, <2>4 DEF InOrder
  <2> QED BY <2>2, <2>3, <2>4
<1> QED BY <1>2, <1>7, <1>8, <1>9, <1>10, <1>12, NoPushCalls

\* A resource goes, and its handlers with it.
LEMMA DeleteStep ==
    ASSUME HandlersInv, NEW p \in Paths, DeleteResource(p)
    PROVE  HandlersInv'
<1> USE DEF HandlersInv
<1>0. CASE ThroughReleased(object[p])
  BY <1>0, ThroughReleasedStep DEF DeleteResource
<1> SUFFICES ASSUME ~ThroughReleased(object[p])
             PROVE  HandlersInv'
  BY <1>0
<1>1. PICK o \in Objects : o = object[p]
  BY OnResource DEF DeleteResource
<1> DEFINE gone == ToSet(list[o])
<1>2. /\ o # None /\ last' = NoPush /\ UNCHANGED <<dangling, cycles, lost, moved>>
      /\ object' = [object EXCEPT ![p] = None]
      /\ list' = [list EXCEPT ![o] = <<>>]
      /\ listPtr' = [h \in Handlers |-> IF h \in gone THEN None ELSE listPtr[h]]
      /\ path' = [h \in Handlers |-> IF h \in gone THEN None ELSE path[h]]
      /\ earlier' = Without(gone)
  BY <1>1 DEF DeleteResource, hooks
<1>3. gone = On(o) /\ gone = {h \in Handlers \ Adrift : path[h] = p}
  BY <1>1, <1>2, OnResource DEF InOrder
<1> HIDE DEF gone
<1>4. /\ object' \in [Paths -> Objects \cup {None}]
      /\ object'[p] = None
      /\ \A q \in Paths \ {p} : object'[q] = object[q]
  BY <1>2 DEF HandlersTypeOK
<1>5. /\ list' \in [Objects -> Seq(Handlers)]
      /\ list'[o] = <<>>
      /\ \A x \in Objects \ {o} : list'[x] = list[x]
  <2>1. <<>> \in Seq(Handlers)
    BY EmptySeq
  <2> QED BY <1>2, <2>1 DEF HandlersTypeOK
<1>6. HandlersTypeOK'
  <2>1. NoPush \in [path: Paths \cup {None}, type: Types, called: Seq(Handlers)]
    BY EmptySeq DEF NoPush, Types
  <2> QED BY <1>2, <1>4, <1>5, <2>1 DEF HandlersTypeOK, Without
<1>7. OneResource'
  BY <1>4 DEF OneResource
<1>8. /\ Registered' = Registered \ gone /\ Adrift' = Adrift /\ Listed' = Listed \ gone
      /\ Adrift \cap gone = {}
      /\ \A h \in Registered' : path'[h] = path[h] /\ path[h] \in Paths /\ listPtr'[h] = listPtr[h]
      /\ \A h \in Listed' : path[h] # p
  BY <1>2, <1>3, RegisteredFacts DEF Registered, Listed, Adrift
<1>9. HaveResource' /\ NeverMoved' /\ (Adrift \subseteq Registered)'
  <2>1. HaveResource'
    <3>1. \A h \in Listed' : h \in Listed /\ path'[h] = path[h] /\ path[h] \in Paths \ {p}
      BY <1>3, <1>8 DEF Listed
    <3> QED BY <1>4, <1>8, <3>1 DEF HaveResource
  <2>2. ~moved => Listed' = Registered'
    BY <1>2, <1>8 DEF NeverMoved, Listed, Adrift
  <2>3. NeverMoved'
    BY <1>2, <1>4, <1>8, <2>2 DEF NeverMoved
  <2> QED BY <1>8, <2>1, <2>3
<1>10. \A x \in Objects : On(x)' = On(x) \ gone
  BY <1>4, <1>8 DEF On, Listed
<1>11. On(o)' = {} /\ \A x \in Objects \ {o} : On(x)' = On(x) /\ On(x) \cap gone = {}
  BY <1>3, <1>10 DEF On
<1>12. ASSUME NEW x \in Objects
       PROVE  InOrder(list[x], On(x))'
  <2>1. CASE x = o
    <3>1. list'[x] = <<>> /\ On(x)' = {}
      BY <1>5, <1>11, <2>1
    <3>2. ToSet(<<>>) = {} /\ \A i, j \in 1 .. Len(<<>>) : ~(i < j)
      BY EmptySeq DEF ToSet
    <3> QED BY <3>1, <3>2, Zenon DEF InOrder
  <2>2. CASE x # o
    <3>1. list[x] \in Seq(Handlers) /\ InOrder(list[x], On(x))
      BY DEF HandlersTypeOK
    <3>2. \A e \in earlier : e[1] \in On(x) /\ e[2] \in On(x) => e \in earlier'
      BY <1>2, <1>11, <2>2 DEF Without
    <3>3. list'[x] = list[x] /\ On(x)' = On(x)
      BY <1>5, <1>11, <2>2
    <3>4. /\ ToSet(list[x]) = On(x)
          /\ \A i, j \in 1 .. Len(list[x]) :
                i < j => list[x][i] # list[x][j] /\ <<list[x][i], list[x][j]>> \in earlier'
      BY <3>1, <3>2, StaysInOrder
    <3> QED BY <3>3, <3>4, Zenon DEF InOrder
  <2> QED BY <2>1, <2>2
<1> QED BY <1>2, <1>6, <1>7, <1>9, <1>12, NoPushCalls

\* A push: those who asked for its type, in the order of the list.
LEMMA PushStep ==
    ASSUME HandlersInv, NEW p \in Paths, NEW t \in Types, Push(p, t)
    PROVE  HandlersInv'
<1> USE DEF HandlersInv
<1> DEFINE s == list[object[p]]
           N == {h \in Handlers : Notifies(h, t)}
<1>1. /\ object[p] # None
      /\ UNCHANGED <<object, list, listPtr, path, earlier, dangling, cycles, lost, moved>>
  BY DEF Push, hooks
<1>2. PICK c \in IF ~lost /\ Intact(object[p]) THEN {Kept(s, N)} ELSE Stray :
         last' = [path |-> p, type |-> t, called |-> c]
  BY DEF Push, CallAll
<1>a. s \in Seq(Handlers) /\ InOrder(s, {h \in Handlers \ Adrift : path[h] = p})
  BY <1>1, OnResource
<1>b. Stray \subseteq Seq(Handlers)
  <2>1. \A h \in Handlers : <<h>> \in Seq(Handlers)
    OBVIOUS
  <2>2. <<>> \in Seq(Handlers) /\ \A o \in Objects : list[o] \in Seq(Handlers)
    BY EmptySeq DEF HandlersTypeOK
  <2> QED BY <2>1, <2>2 DEF Stray
<1> HIDE DEF s
<1> DEFINE k == Kept(s, N)
<1>3. /\ k \in Seq(Handlers) /\ ToSet(k) = ToSet(s) \cap N
      /\ \A i, j \in 1 .. Len(k) : i < j =>
            \E a, b \in 1 .. Len(s) : a < b /\ s[a] = k[i] /\ s[b] = k[j]
  <2> HIDE DEF N
  <2> QED BY <1>a, KeptFacts
<1>4. InOrder(k, {h \in Handlers \ Adrift : path[h] = p /\ Notifies(h, t)})
  <2>1. ToSet(k) = {h \in Handlers \ Adrift : path[h] = p /\ Notifies(h, t)}
    <3>1. ToSet(s) = {h \in Handlers \ Adrift : path[h] = p}
      BY <1>a DEF InOrder
    <3> HIDE DEF k
    <3> QED BY <1>3, <3>1
  <2> HIDE DEF k
  <2>2. ASSUME NEW i \in 1 .. Len(k), NEW j \in 1 .. Len(k), i < j
        PROVE  k[i] # k[j] /\ <<k[i], k[j]>> \in earlier
    <3>1. PICK a \in 1 .. Len(s), b \in 1 .. Len(s) : a < b /\ s[a] = k[i] /\ s[b] = k[j]
      BY <1>3, <2>2
    <3>2. s[a] # s[b] /\ <<s[a], s[b]>> \in earlier
      BY <1>a, <3>1 DEF InOrder
    <3> QED BY <3>1, <3>2
  <2> QED BY <2>1, <2>2 DEF InOrder
<1>5. /\ last'.path = p /\ last'.type = t /\ last'.called = c
      /\ ~lost /\ Intact(object[p]) => c = k
  BY <1>2
<1> HIDE DEF k
<1>6. Registered' = Registered /\ Adrift' = Adrift /\ Listed' = Listed
  BY <1>1 DEF Registered, Adrift, Listed
<1>7. EveryoneCalled'
  <2>1. (~lost /\ Intact(object[last.path]))' <=> ~lost /\ Intact(object[p])
    BY <1>1, <1>5 DEF Intact
  <2>2. {h \in Handlers \ Adrift' : path'[h] = last'.path /\ Notifies(h, last.type)'}
           = {h \in Handlers \ Adrift : path[h] = p /\ Notifies(h, t)}
    BY <1>1, <1>5, <1>6 DEF Notifies
  <2>3. ASSUME ~lost, Intact(object[p])
        PROVE  InOrder(last.called,
                       {h \in Handlers \ Adrift : path[h] = last.path /\ Notifies(h, last.type)})'
    <3>1. ToSet(last'.called)
             = {h \in Handlers \ Adrift' : path'[h] = last'.path /\ Notifies(h, last.type)'}
      BY <1>4, <1>5, <2>2, <2>3, Zenon DEF InOrder
    <3>2. \A i, j \in 1 .. Len(last'.called) : i < j =>
             last'.called[i] # last'.called[j] /\ <<last'.called[i], last'.called[j]>> \in earlier'
      <4>1. earlier' = earlier
        BY <1>1
      <4> QED BY <1>4, <1>5, <2>3, <4>1, Zenon DEF InOrder
    <3> QED BY <3>1, <3>2, Zenon DEF InOrder
  <2> QED BY <2>1, <2>3, Zenon DEF EveryoneCalled
<1>8. HandlersTypeOK'
  <2>1. c \in Seq(Handlers)
    BY <1>2, <1>3, <1>b DEF k
  <2>2. last' \in [path: Paths \cup {None}, type: Types, called: Seq(Handlers)]
    BY <1>2, <2>1
  <2> QED BY <1>1, <2>2 DEF HandlersTypeOK
<1>9. OneResource' /\ HaveResource' /\ NeverMoved' /\ \A o \in Objects : InOrder(list[o], On(o))'
  <2>1. OneResource' /\ HaveResource' /\ NeverMoved'
    BY <1>1, <1>6 DEF OneResource, HaveResource, NeverMoved
  <2> QED BY <1>1, <1>6, <2>1 DEF InOrder, On
<1> QED BY <1>6, <1>7, <1>8, <1>9

\* A handler is added, behind those that are there.
LEMMA AddStep ==
    ASSUME HandlersInv, NEW h \in Handlers, NEW p \in Paths, AddPushHandler(h, p)
    PROVE  HandlersInv'
<1> USE DEF HandlersInv
<1>0. CASE \E o : ThroughReleased(o)
  BY <1>0, ThroughReleasedStep DEF AddPushHandler
<1> SUFFICES ASSUME ~\E o : ThroughReleased(o)
             PROVE  HandlersInv'
  BY <1>0
<1>1. PICK o \in IF object[p] = None THEN Free ELSE {object[p]} :
         /\ object' = [object EXCEPT ![p] = o]
         /\ list' = [list EXCEPT ![o] = Append(@, h)]
         /\ listPtr' = [listPtr EXCEPT ![h] = o]
         /\ path' = [path EXCEPT ![h] = p]
         /\ earlier' = earlier \cup {<<g, h>> : g \in Registered}
         /\ UNCHANGED <<dangling, cycles, lost, moved>>
  BY DEF AddPushHandler, handler_Add, hooks
<1>2. /\ path[h] = None /\ last' = NoPush /\ UNCHANGED <<dangling, cycles, lost, moved>>
      /\ path' = [path EXCEPT ![h] = p]
      /\ earlier' = earlier \cup {<<g, h>> : g \in Registered}
  BY <1>1 DEF AddPushHandler
<1>3. o \in Objects /\ o # None /\ (object[p] = None => o \in Free) /\ (object[p] # None => o = object[p])
  BY <1>1, RegisteredFacts, OnResource
<1>4. /\ object' \in [Paths -> Objects \cup {None}]
      /\ object'[p] = o
      /\ \A q \in Paths \ {p} : object'[q] = object[q] /\ object[q] # o
  BY <1>1, <1>3, RegisteredFacts DEF HandlersTypeOK, OneResource
<1>5. /\ On(o) = {g \in Handlers \ Adrift : path[g] = p}
      /\ list[o] \in Seq(Handlers) /\ InOrder(list[o], On(o))
  <2>1. CASE object[p] = None
    <3>1. On(o) = {} /\ list[o] = <<>>
      BY <1>3, <2>1, FreeIsEmpty
    <3>2. \A g \in Handlers \ Adrift : path[g] # p
      BY <2>1, RegisteredFacts DEF HaveResource, Listed
    <3> QED BY <1>3, <3>1, <3>2 DEF HandlersTypeOK
  <2>2. CASE object[p] # None
    BY <1>3, <2>2, OnResource
  <2> QED BY <2>1, <2>2
<1> DEFINE s == list[o]
           k == Append(s, h)
<1>6. /\ list' \in [Objects -> Seq(Handlers)]
      /\ list'[o] = k
      /\ \A x \in Objects \ {o} : list'[x] = list[x]
  <2>1. k \in Seq(Handlers)
    BY <1>5, AppendProperties
  <2> QED BY <1>1, <1>3, <2>1 DEF HandlersTypeOK
<1>7. /\ Registered' = Registered \cup {h} /\ h \notin Registered /\ Registered \subseteq Handlers
      /\ Adrift' = Adrift /\ Listed' = Listed \cup {h} /\ h \notin Listed /\ Listed \subseteq Registered
      /\ path'[h] = p /\ \A g \in Registered : path'[g] = path[g] /\ path[g] \in Paths
  <2>1. /\ Registered' = Registered \cup {h} /\ h \notin Registered /\ Registered \subseteq Handlers
        /\ path'[h] = p /\ \A g \in Registered : path'[g] = path[g] /\ path[g] \in Paths
    BY <1>2, RegisteredFacts DEF Registered, HandlersTypeOK
  <2>2. Adrift' = Adrift
    BY <1>2 DEF Adrift
  <2> QED BY <2>1, <2>2 DEF Listed
<1>8. HandlersTypeOK'
  <2>1. NoPush \in [path: Paths \cup {None}, type: Types, called: Seq(Handlers)]
    BY EmptySeq DEF NoPush, Types
  <2>2. listPtr' \in [Handlers -> Objects \cup {None}] /\ path' \in [Handlers -> Paths \cup {None}]
    BY <1>1, <1>2, <1>3 DEF HandlersTypeOK
  <2>3. earlier' \subseteq Handlers \X Handlers
    BY <1>2, <1>7 DEF HandlersTypeOK
  <2> QED BY <1>2, <1>4, <1>6, <2>1, <2>2, <2>3 DEF HandlersTypeOK
<1>9. OneResource'
  BY <1>4 DEF OneResource
<1>10. HaveResource' /\ NeverMoved' /\ (Adrift \subseteq Registered)'
  <2>1. HaveResource'
    <3>1. listPtr'[h] = o /\ \A g \in Registered : listPtr'[g] = listPtr[g]
      BY <1>1, <1>7 DEF HandlersTypeOK
    <3> QED BY <1>3, <1>4, <1>7, <3>1 DEF HaveResource
  <2>2. ASSUME ~moved, NEW g \in Registered
        PROVE  object'[path'[g]] = object[path[g]] /\ listPtr'[g] = listPtr[g]
    <3>1. g \in Listed /\ g # h
      BY <1>7, <2>2 DEF NeverMoved, Listed, Adrift
    <3>2. path[g] = p => object[p] # None
      BY <3>1 DEF HaveResource
    <3> QED BY <1>1, <1>3, <1>4, <1>7, <3>1, <3>2 DEF HandlersTypeOK
  <2>3. listPtr'[h] = o /\ object'[path'[h]] = o
    BY <1>1, <1>4, <1>7 DEF HandlersTypeOK
  <2>4. NeverMoved'
    BY <1>2, <1>7, <2>2, <2>3 DEF NeverMoved
  <2> QED BY <1>7, <2>1, <2>4
<1>11. On(o)' = On(o) \cup {h} /\ \A x \in Objects \ {o} : On(x)' = On(x)
  <2>1. \A x \in Objects : On(x)' = {g \in Listed \cup {h} : object'[path'[g]] = x}
    BY <1>7 DEF On
  <2>2. object'[path'[h]] = o
    BY <1>4, <1>7
  <2>3. \A g \in Listed : object'[path'[g]] = IF path[g] = p THEN o ELSE object[path[g]]
    BY <1>4, <1>7
  <2>4. \A g \in Listed : path[g] = p <=> object[path[g]] = o
    BY <1>5, <1>7 DEF On, Listed
  <2>5. \A g \in Listed : object'[path'[g]] = object[path[g]]
    BY <2>3, <2>4
  <2>6. \A x \in Objects : On(x)' = IF x = o THEN On(x) \cup {h} ELSE On(x)
    BY <2>1, <2>2, <2>5 DEF On
  <2> QED BY <1>3, <2>6
<1>12. ASSUME NEW x \in Objects
       PROVE  InOrder(list[x], On(x))'
  <2>1. CASE x = o
    <3> DEFINE hs == On(o)
    <3>1. /\ s \in Seq(Handlers) /\ ToSet(s) = hs
          /\ \A i, j \in 1 .. Len(s) : i < j => s[i] # s[j] /\ <<s[i], s[j]>> \in earlier
          /\ hs \subseteq Registered
      BY <1>5, <1>7 DEF InOrder, On
    <3>2. list'[x] = k /\ On(x)' = hs \cup {h}
      BY <1>6, <1>11, <2>1
    <3> HIDE DEF s, hs
    <3>3. /\ k \in Seq(Handlers) /\ Len(k) = Len(s) + 1 /\ Len(s) \in Nat
          /\ \A i \in 1 .. Len(s) : k[i] = s[i]
          /\ k[Len(s) + 1] = h
      BY <3>1, AppendProperties, LenProperties
    <3> HIDE DEF k
    <3>4. DOMAIN k = 1 .. Len(k) /\ DOMAIN s = 1 .. Len(s)
      BY <3>1, <3>3, LenProperties
    <3>5. /\ \A i \in 1 .. Len(k) : i \in 1 .. Len(s) \/ i = Len(s) + 1
          /\ \A i \in 1 .. Len(s) : i \in 1 .. Len(k)
          /\ Len(s) + 1 \in 1 .. Len(k)
      BY <3>3
    <3>6. ToSet(s) = {s[i] : i \in 1 .. Len(s)} /\ ToSet(k) = {k[i] : i \in 1 .. Len(k)}
      BY <3>4 DEF ToSet
    <3>7. ToSet(k) = hs \cup {h}
      BY <3>1, <3>3, <3>5, <3>6
    <3>8. ASSUME NEW i \in 1 .. Len(k), NEW j \in 1 .. Len(k), i < j
          PROVE  k[i] # k[j] /\ <<k[i], k[j]>> \in earlier'
      <4>1. i \in 1 .. Len(s) /\ k[i] = s[i]
        BY <3>3, <3>8
      <4>2. s[i] \in Registered
        BY <3>1, <3>6, <4>1
      <4>3. CASE j \in 1 .. Len(s)
        BY <1>2, <3>1, <3>3, <3>8, <4>1, <4>3
      <4>4. CASE j = Len(s) + 1
        BY <1>2, <1>7, <3>3, <4>1, <4>2, <4>4
      <4> QED BY <3>5, <4>3, <4>4
    <3> QED BY <3>2, <3>7, <3>8, Zenon DEF InOrder
  <2>2. CASE x # o
    <3>1. InOrder(list[x], On(x)) /\ list'[x] = list[x] /\ On(x)' = On(x)
      BY <1>6, <1>11, <2>2
    <3>2. earlier \subseteq earlier'
      BY <1>2
    <3> QED BY <3>1, <3>2 DEF InOrder
  <2> QED BY <2>1, <2>2
<1> QED BY <1>2, <1>8, <1>9, <1>10, <1>12, NoPushCalls

\* What is at the head of a list, and behind it.
LEMMA HeadAndTail ==
    ASSUME NEW s \in Seq(Handlers), s # <<>>
    PROVE  /\ Head(s) \in Handlers /\ Tail(s) \in Seq(Handlers)
           /\ ToSet(s) = {Head(s)} \cup ToSet(Tail(s))
           /\ \A hs : InOrder(s, hs) => Head(s) \notin ToSet(Tail(s))
<1> DEFINE t == Tail(s)
<1>1. /\ Len(s) \in Nat \ {0} /\ DOMAIN s = 1 .. Len(s)
      /\ t \in Seq(Handlers) /\ Len(t) = Len(s) - 1 /\ DOMAIN t = 1 .. Len(t)
      /\ Head(s) = s[1] /\ s[1] \in Handlers
      /\ \A i \in 1 .. Len(t) : t[i] = s[i + 1]
  <2>1. Len(s) \in Nat \ {0} /\ DOMAIN s = 1 .. Len(s)
    BY LenProperties, EmptySeq
  <2>2. t \in Seq(Handlers) /\ Len(t) = Len(s) - 1
    BY HeadTailProperties
  <2>3. DOMAIN t = 1 .. Len(t)
    BY <2>2, LenProperties
  <2>4. \A i \in 1 .. Len(t) : t[i] = s[i + 1]
    BY <2>1, <2>2, HeadTailProperties
  <2>5. Head(s) = s[1] /\ s[1] \in Handlers
    BY <2>1, HeadTailProperties, ElementOfSeq
  <2> QED BY <2>1, <2>2, <2>3, <2>4, <2>5
<1> HIDE DEF t
<1>2. \A i \in 1 .. Len(s) : i = 1 \/ (i - 1 \in 1 .. Len(t) /\ s[i] = t[i - 1])
  <2> SUFFICES ASSUME NEW i \in 1 .. Len(s), i # 1
               PROVE  i - 1 \in 1 .. Len(t) /\ s[i] = t[i - 1]
    OBVIOUS
  <2>1. i - 1 \in 1 .. Len(t) /\ (i - 1) + 1 = i
    BY <1>1
  <2> QED BY <1>1, <2>1
<1>3. \A i \in 1 .. Len(t) : i + 1 \in 1 .. Len(s) /\ 1 < i + 1 /\ 1 \in 1 .. Len(s)
  BY <1>1
<1>4. ToSet(s) = {s[i] : i \in 1 .. Len(s)} /\ ToSet(t) = {t[i] : i \in 1 .. Len(t)}
  BY <1>1 DEF ToSet
<1>5. ToSet(s) = {s[1]} \cup ToSet(t)
  <2>1. 1 \in 1 .. Len(s)
    BY <1>1
  <2> QED BY <1>1, <1>2, <1>3, <1>4, <2>1
<1>6. ASSUME NEW hs, InOrder(s, hs), s[1] \in ToSet(t)
      PROVE  FALSE
  <2>1. PICK i \in 1 .. Len(t) : t[i] = s[1]
    BY <1>4, <1>6
  <2>2. s[i + 1] = s[1] /\ i + 1 \in 1 .. Len(s) /\ 1 < i + 1 /\ 1 \in 1 .. Len(s)
    BY <1>1, <1>3, <2>1
  <2>3. s[1] # s[i + 1]
    BY <1>6, <2>2 DEF InOrder
  <2> QED BY <2>2, <2>3
<1> QED BY <1>1, <1>5, <1>6 DEF t

\* What every removal does besides the lists.
Gone(h) ==
    /\ h \in Registered /\ path[h] \in Paths /\ listPtr[h] \in Objects
    /\ listPtr' = [listPtr EXCEPT ![h] = None]
    /\ path' = [path EXCEPT ![h] = None]
    /\ earlier' = Without({h})
    /\ last' = NoPush
    /\ UNCHANGED <<object, lost, moved>>

\* What a removal keeps, whatever it does to the lists.
LEMMA GoneFacts ==
    ASSUME HandlersInv, NEW h \in Handlers, Gone(h)
    PROVE  /\ Registered' = Registered \ {h}
           /\ \A g \in Registered' : path'[g] = path[g] /\ listPtr'[g] = listPtr[g]
           /\ list' \in [Objects -> Seq(Handlers)] /\ dangling' \subseteq Objects
                 /\ cycles' \in SUBSET (SUBSET Handlers)
                 => HandlersTypeOK'
           /\ OneResource'
<1> USE DEF HandlersInv, Gone
<1>1. NoPush \in [path: Paths \cup {None}, type: Types, called: Seq(Handlers)]
  BY EmptySeq DEF NoPush, Types
<1>2. listPtr' \in [Handlers -> Objects \cup {None}] /\ path' \in [Handlers -> Paths \cup {None}]
  BY DEF HandlersTypeOK
<1>3. earlier' \subseteq Handlers \X Handlers
  BY DEF HandlersTypeOK, Without
<1>4. /\ Registered' = Registered \ {h}
      /\ \A g \in Registered' : path'[g] = path[g] /\ listPtr'[g] = listPtr[g]
  BY DEF Registered, HandlersTypeOK
<1>5. OneResource'
  BY DEF OneResource
<1> QED BY <1>1, <1>2, <1>3, <1>4, <1>5 DEF HandlersTypeOK

\* The lists of E are lost: their handlers are adrift, but for the one that is removed.
LEMMA EmptiedStep ==
    ASSUME HandlersInv, NEW h \in Handlers, Gone(h), moved,
           NEW E, E \subseteq Objects,
           list' = [x \in Objects |-> IF x \in E THEN <<>> ELSE list[x]],
           Adrift' = (Adrift \cup UNION {ToSet(list[x]) : x \in E}) \ {h},
           h \in Adrift \cup UNION {ToSet(list[x]) : x \in E},
           dangling' \subseteq Objects,
           cycles' \in SUBSET (SUBSET Handlers)
    PROVE  HandlersInv'
<1> USE DEF HandlersInv
<1>1. /\ object' = object /\ moved' = moved /\ lost' = lost
      /\ earlier' = Without({h}) /\ last' = NoPush
  BY DEF Gone
<1>2. /\ Registered' = Registered \ {h}
      /\ \A g \in Registered' : path'[g] = path[g] /\ listPtr'[g] = listPtr[g]
      /\ OneResource'
  BY GoneFacts
<1>3. HandlersTypeOK'
  <2>1. list' \in [Objects -> Seq(Handlers)]
    BY EmptySeq DEF HandlersTypeOK
  <2> QED BY <2>1, GoneFacts
<1>4. \A x \in Objects : ToSet(list[x]) = On(x)
  BY DEF InOrder
<1>5. Adrift' = (Adrift \cup UNION {On(x) : x \in E}) \ {h} /\ h \in Adrift \cup UNION {On(x) : x \in E}
  BY <1>4
<1>6. (Adrift \subseteq Registered)'
  BY <1>2, <1>5 DEF On, Listed
<1>7. Listed' \subseteq Listed \ {h}
  BY <1>2, <1>5 DEF Listed
<1>8. HaveResource' /\ NeverMoved'
  BY <1>1, <1>2, <1>7 DEF HaveResource, NeverMoved, Listed
<1>9. \A x \in Objects : On(x)' = {g \in Listed' : object[path[g]] = x}
  BY <1>1, <1>2 DEF On, Listed
<1>10. \A x \in E : On(x)' = {}
  BY <1>5, <1>7, <1>9 DEF On, Listed
<1>11. \A x \in Objects \ E : On(x)' = On(x) /\ h \notin On(x)
  <2> SUFFICES ASSUME NEW x \in Objects \ E
               PROVE  On(x)' = On(x) /\ h \notin On(x)
    OBVIOUS
  <2>1. \A y \in E : On(x) \cap On(y) = {}
    BY DEF On
  <2>2. On(x) \cap Adrift = {}
    BY DEF On, Listed
  <2>3. h \notin On(x) /\ On(x) \cap Adrift' = {}
    BY <1>5, <2>1, <2>2
  <2>4. On(x) \subseteq Listed'
    BY <1>2, <2>3 DEF On, Listed
  <2> QED BY <1>7, <1>9, <2>3, <2>4 DEF On
<1>12. ASSUME NEW x \in Objects
       PROVE  InOrder(list[x], On(x))'
  <2>1. CASE x \in E
    <3>1. list'[x] = <<>> /\ On(x)' = {}
      BY <1>10, <2>1
    <3>2. ToSet(<<>>) = {} /\ \A i, j \in 1 .. Len(<<>>) : ~(i < j)
      BY EmptySeq DEF ToSet
    <3> QED BY <3>1, <3>2, Zenon DEF InOrder
  <2>2. CASE x \notin E
    <3>1. list[x] \in Seq(Handlers) /\ InOrder(list[x], On(x))
      BY DEF HandlersTypeOK
    <3>2. \A e \in earlier : e[1] \in On(x) /\ e[2] \in On(x) => e \in earlier'
      BY <1>1, <1>11, <2>2 DEF Without
    <3>3. list'[x] = list[x] /\ On(x)' = On(x)
      BY <1>11, <2>2
    <3>4. /\ ToSet(list[x]) = On(x)
          /\ \A i, j \in 1 .. Len(list[x]) :
                i < j => list[x][i] # list[x][j] /\ <<list[x][i], list[x][j]>> \in earlier'
      BY <3>1, <3>2, StaysInOrder
    <3> QED BY ONLY <3>3, <3>4, Zenon DEF InOrder
  <2> QED BY <2>1, <2>2
<1> QED BY <1>1, <1>2, <1>3, <1>6, <1>8, <1>12, NoPushCalls

\* The handler is unlinked, and its list is still exact.
LEMMA InsideStep ==
    ASSUME HandlersInv, NEW h \in Handlers, Gone(h), h \notin Adrift,
           RemoveInside(h, object[path[h]], listPtr[h])
    PROVE  HandlersInv'
<1> USE DEF HandlersInv
<1>0. h \in Registered /\ h \in Listed /\ path[h] \in Paths /\ object[path[h]] # None
  BY DEF Gone, Listed, HaveResource
<1>2. PICK o \in Objects : o = object[path[h]]
  BY <1>0, RegisteredFacts
<1>3. /\ list' = [list EXCEPT ![o] = Kept(@, Handlers \ {h})]
      /\ earlier' = Without({h})
      /\ last' = NoPush
      /\ UNCHANGED <<object, lost, moved, dangling, cycles>>
  BY <1>2 DEF RemoveInside, Unlinked, Gone
<1> DEFINE s == list[o]
           k == Kept(s, Handlers \ {h})
<1>4. s \in Seq(Handlers) /\ InOrder(s, On(o))
  BY DEF HandlersTypeOK
<1>5. /\ k \in Seq(Handlers) /\ ToSet(k) = ToSet(s) \cap (Handlers \ {h})
      /\ \A i, j \in 1 .. Len(k) : i < j =>
            \E a, b \in 1 .. Len(s) : a < b /\ s[a] = k[i] /\ s[b] = k[j]
  <2> DEFINE hs == Handlers \ {h}
  <2> HIDE DEF s, hs
  <2>1. /\ Kept(s, hs) \in Seq(Handlers) /\ ToSet(Kept(s, hs)) = ToSet(s) \cap hs
        /\ \A i, j \in 1 .. Len(Kept(s, hs)) : i < j =>
              \E a, b \in 1 .. Len(s) : a < b /\ s[a] = Kept(s, hs)[i] /\ s[b] = Kept(s, hs)[j]
    BY <1>4, KeptFacts
  <2> QED BY <2>1 DEF hs
<1>6. /\ list' \in [Objects -> Seq(Handlers)]
      /\ list'[o] = k
      /\ \A x \in Objects \ {o} : list'[x] = list[x]
  BY <1>3, <1>5 DEF HandlersTypeOK
<1> HIDE DEF k
<1>7. HandlersTypeOK'
  BY <1>3, <1>6, GoneFacts DEF HandlersTypeOK
<1>8. /\ Registered' = Registered \ {h} /\ Adrift' = Adrift /\ Listed' = Listed \ {h}
      /\ \A g \in Registered' : path'[g] = path[g] /\ listPtr'[g] = listPtr[g]
      /\ OneResource'
  <2>1. Adrift' = Adrift
    BY <1>3 DEF Adrift
  <2> QED BY <2>1, GoneFacts DEF Listed
<1>9. HaveResource' /\ NeverMoved' /\ (Adrift \subseteq Registered)'
  BY <1>3, <1>8 DEF HaveResource, NeverMoved, Listed
<1>10. On(o)' = On(o) \ {h} /\ \A x \in Objects \ {o} : On(x)' = On(x) /\ h \notin On(x)
  <2>1. \A x \in Objects : On(x)' = {g \in Listed \ {h} : object[path[g]] = x}
    BY <1>3, <1>8 DEF On, Listed
  <2> QED BY <1>2, <2>1 DEF On
<1>11. ASSUME NEW x \in Objects
       PROVE  InOrder(list[x], On(x))'
  <2>1. CASE x = o
    <3>1. list'[x] = k /\ On(x)' = On(o) \ {h}
      BY <1>6, <1>10, <2>1
    <3>2. /\ ToSet(s) = On(o) /\ On(o) \subseteq Handlers
          /\ \A i, j \in 1 .. Len(s) : i < j => s[i] # s[j] /\ <<s[i], s[j]>> \in earlier
      BY <1>4 DEF InOrder, On, Listed, Registered
    <3> HIDE DEF s
    <3>3. ToSet(k) = On(o) \ {h}
      BY <1>5, <3>2
    <3>4. \A i \in 1 .. Len(k) : k[i] # h
      <4>1. \A i \in 1 .. Len(k) : k[i] \in ToSet(k)
        BY <1>5, LenProperties DEF ToSet
      <4> QED BY <1>5, <4>1
    <3>5. ASSUME NEW i \in 1 .. Len(k), NEW j \in 1 .. Len(k), i < j
          PROVE  k[i] # k[j] /\ <<k[i], k[j]>> \in earlier'
      <4>1. PICK a \in 1 .. Len(s), b \in 1 .. Len(s) : a < b /\ s[a] = k[i] /\ s[b] = k[j]
        BY <1>5, <3>5
      <4>2. k[i] # k[j] /\ <<k[i], k[j]>> \in earlier
        BY <3>2, <4>1
      <4> DEFINE e == <<k[i], k[j]>>
      <4>3. e[1] \notin {h} /\ e[2] \notin {h}
        BY <3>4
      <4> HIDE DEF e
      <4>4. e \in earlier => e \in earlier'
        BY <1>3, <4>3 DEF Without
      <4> QED BY <4>2, <4>4 DEF e
    <3> QED BY <3>1, <3>3, <3>5, Zenon DEF InOrder
  <2>2. CASE x # o
    <3>1. list[x] \in Seq(Handlers) /\ InOrder(list[x], On(x))
      BY DEF HandlersTypeOK
    <3>2. \A e \in earlier : e[1] \in On(x) /\ e[2] \in On(x) => e \in earlier'
      BY <1>3, <1>10, <2>2 DEF Without
    <3>3. list'[x] = list[x] /\ On(x)' = On(x)
      BY <1>6, <1>10, <2>2
    <3>4. /\ ToSet(list[x]) = On(x)
          /\ \A i, j \in 1 .. Len(list[x]) :
                i < j => list[x][i] # list[x][j] /\ <<list[x][i], list[x][j]>> \in earlier'
      BY <3>1, <3>2, StaysInOrder
    <3> QED BY <3>3, <3>4, Zenon DEF InOrder
  <2> QED BY <2>1, <2>2
<1> QED BY <1>3, <1>7, <1>8, <1>9, <1>11, NoPushCalls

\* A handler is removed.
LEMMA RemoveStep ==
    ASSUME HandlersInv, NEW h \in Handlers, RemovePushHandler(h)
    PROVE  HandlersInv'
<1> USE DEF HandlersInv
<1>1. Gone(h)
  <2>1. h \in Registered /\ path[h] \in Paths
    BY RegisteredFacts DEF RemovePushHandler, Registered
  <2> QED BY <2>1 DEF RemovePushHandler, handler_Remove, Gone, HaveResource
<1> DEFINE o == object[path[h]]
           given == listPtr[h]
<1>2. h \in Registered /\ given \in Objects /\ path[h] \in Paths
  BY <1>1 DEF Gone
<1>3. /\ list \in [Objects -> Seq(Handlers)] /\ dangling \subseteq Objects
      /\ cycles \in SUBSET (SUBSET Handlers)
      /\ \A x \in Objects : list[x] \in Seq(Handlers) /\ ToSet(list[x]) \subseteq Handlers
  BY DEF HandlersTypeOK, InOrder, On, Listed, Registered
<1>4. \A s : UNION Rings(s) = ToSet(s) /\ (s = <<>> \/ Rings(s) = {ToSet(s)})
  <2>1. ToSet(<<>>) = {}
    BY EmptySeq DEF ToSet
  <2> QED BY <2>1 DEF Rings
<1>5. \A s \in Seq(Handlers) : ToSet(s) \subseteq Handlers => Rings(s) \in SUBSET (SUBSET Handlers)
  BY DEF Rings
<1>6. ASSUME h \notin Adrift
      PROVE  /\ o \in Objects /\ h \in On(o) /\ h \in ToSet(list[o])
             /\ given # o => moved
  <2>1. h \in Listed /\ o # None
    BY <1>2, <1>6 DEF Listed, HaveResource
  <2>2. o \in Objects /\ h \in On(o)
    BY <1>2, <2>1, RegisteredFacts DEF On
  <2>3. ToSet(list[o]) = On(o)
    BY <2>2 DEF InOrder
  <2>4. given # o => moved
    BY <1>2 DEF NeverMoved, HandlersTypeOK
  <2> QED BY <2>2, <2>3, <2>4
<1>7. CASE h \notin Adrift /\ RemoveInside(h, o, given)
  BY <1>1, <1>7, InsideStep
<1>8. CASE h \notin Adrift /\ RemoveHead(h, o, given)
  <2>1. /\ given # o /\ Head(list[o]) = h /\ list[o] # <<>>
        /\ list' = [list EXCEPT ![o] = <<>>]
        /\ dangling' = dangling \cup {o}
        /\ cycles' = cycles \cup Rings(Tail(list[o]))
    BY <1>8, EmptySeq DEF RemoveHead
  <2>2. o \in Objects /\ moved
    BY <1>6, <1>8, <2>1
  <2> DEFINE s == list[o]
  <2>3. /\ s \in Seq(Handlers) /\ s # <<>> /\ InOrder(s, On(o)) /\ Head(s) = h
    BY <1>3, <2>1, <2>2
  <2>4. Tail(s) \in Seq(Handlers) /\ ToSet(s) = {h} \cup ToSet(Tail(s)) /\ h \notin ToSet(Tail(s))
    <3> HIDE DEF s
    <3> QED BY <2>3, HeadAndTail
  <2>5. Adrift' = Adrift \cup ToSet(Tail(s))
    BY <1>4, <2>1 DEF Adrift
  <2> DEFINE E == {o}
  <2>6. list' = [x \in Objects |-> IF x \in E THEN <<>> ELSE list[x]]
    BY <1>3, <2>1
  <2>7. UNION {ToSet(list[x]) : x \in E} = ToSet(s)
    OBVIOUS
  <2>8. cycles' \in SUBSET (SUBSET Handlers)
    <3>1. ToSet(Tail(s)) \subseteq Handlers
      BY <1>3, <2>2, <2>4
    <3> QED BY <1>3, <1>5, <2>1, <2>4, <3>1
  <2>9. E \subseteq Objects /\ dangling' \subseteq Objects
    BY <1>3, <2>1, <2>2
  <2>10. Adrift' = (Adrift \cup UNION {ToSet(list[x]) : x \in E}) \ {h}
    BY <1>8, <2>4, <2>5, <2>7
  <2>11. h \in Adrift \cup UNION {ToSet(list[x]) : x \in E}
    BY <2>4, <2>7
  <2> HIDE DEF E
  <2> QED BY <1>1, <2>2, <2>6, <2>8, <2>9, <2>10, <2>11, EmptiedStep
<1>9. CASE h \notin Adrift /\ RemoveOnly(h, o, given)
  <2>1. /\ given # o /\ list[o] = <<h>>
        /\ list' = [list EXCEPT ![o] = <<>>, ![given] = <<>>]
        /\ dangling' = (dangling \cup {o}) \ {given}
        /\ cycles' = cycles \cup Rings(list[given])
    BY <1>9 DEF RemoveOnly
  <2>2. o \in Objects /\ moved
    BY <1>6, <1>9, <2>1
  <2>3. ToSet(list[o]) = {h}
    BY <2>1 DEF ToSet
  <2>4. h \notin ToSet(list[given])
    <3>1. ToSet(list[given]) = On(given) /\ h \in On(o)
      BY <1>2, <1>6, <1>9 DEF InOrder
    <3> QED BY <2>1, <3>1 DEF On
  <2>5. Adrift' = Adrift \cup ToSet(list[given])
    BY <1>4, <2>1 DEF Adrift
  <2> DEFINE E == {o, given}
  <2>6. list' = [x \in Objects |-> IF x \in E THEN <<>> ELSE list[x]]
    BY <1>2, <1>3, <2>1, <2>2
  <2>7. UNION {ToSet(list[x]) : x \in E} = {h} \cup ToSet(list[given])
    BY <2>3
  <2>8. cycles' \in SUBSET (SUBSET Handlers)
    BY <1>2, <1>3, <1>5, <2>1
  <2>9. E \subseteq Objects /\ dangling' \subseteq Objects
    BY <1>2, <1>3, <2>1, <2>2
  <2>10. Adrift' = (Adrift \cup UNION {ToSet(list[x]) : x \in E}) \ {h}
    BY <1>9, <2>4, <2>5, <2>7
  <2>11. h \in Adrift \cup UNION {ToSet(list[x]) : x \in E}
    BY <2>7
  <2> HIDE DEF E
  <2> QED BY <1>1, <2>2, <2>6, <2>8, <2>9, <2>10, <2>11, EmptiedStep
<1>10. CASE h \in Adrift /\ RemoveAdrift(h, given)
  <2> DEFINE rest == {c \ {h} : c \in cycles} \ {{}}
             alone == {h} \in cycles
             E == IF alone THEN {given} ELSE {}
  <2>1. /\ list' = IF alone THEN [list EXCEPT ![given] = <<>>] ELSE list
        /\ dangling' = IF alone THEN dangling \ {given} ELSE dangling
        /\ cycles' = IF alone THEN rest \cup Rings(list[given]) ELSE rest
    BY <1>10 DEF RemoveAdrift
  <2>2. moved
    BY <1>10 DEF NeverMoved, Adrift
  <2>3. UNION rest = Adrift \ {h} /\ rest \in SUBSET (SUBSET Handlers)
    <3>1. ASSUME NEW g \in Adrift \ {h}
          PROVE  g \in UNION rest
      <4>1. PICK c \in cycles : g \in c
        BY DEF Adrift
      <4>2. g \in c \ {h} /\ c \ {h} \in rest
        BY <4>1
      <4> QED BY <4>2
    <3>2. ASSUME NEW g \in UNION rest
          PROVE  g \in Adrift /\ g # h
      BY DEF Adrift
    <3> QED BY <1>3, <3>1, <3>2
  <2> HIDE DEF rest
  <2>4. list' = [x \in Objects |-> IF x \in E THEN <<>> ELSE list[x]]
    BY <1>2, <1>3, <2>1
  <2>5. h \notin ToSet(list[given])
    BY <1>2, <1>10 DEF InOrder, On, Listed
  <2>6. UNION {ToSet(list[x]) : x \in E} = IF alone THEN ToSet(list[given]) ELSE {}
    OBVIOUS
  <2>7. Adrift' = (Adrift \cup UNION {ToSet(list[x]) : x \in E}) \ {h}
    <3>1. CASE alone
      <4>1. Adrift' = (Adrift \ {h}) \cup ToSet(list[given])
        BY <1>4, <2>1, <2>3, <3>1 DEF Adrift
      <4> QED BY <2>5, <2>6, <3>1, <4>1
    <3>2. CASE ~alone
      BY <2>1, <2>3, <2>6, <3>2 DEF Adrift
    <3> QED BY <3>1, <3>2
  <2>8. cycles' \in SUBSET (SUBSET Handlers)
    <3>1. Rings(list[given]) \in SUBSET (SUBSET Handlers)
      BY <1>2, <1>3, <1>5
    <3> QED BY <2>1, <2>3, <3>1
  <2>9. E \subseteq Objects /\ dangling' \subseteq Objects
    BY <1>2, <1>3, <2>1
  <2>10. h \in Adrift \cup UNION {ToSet(list[x]) : x \in E}
    BY <1>10
  <2> HIDE DEF E
  <2> QED BY <1>1, <2>2, <2>4, <2>7, <2>8, <2>9, <2>10, EmptiedStep
<1> QED BY <1>7, <1>8, <1>9, <1>10 DEF RemovePushHandler, handler_Remove

LEMMA HandlersStep == HandlersInv /\ [HandlersNext]_handlersVars => HandlersInv'
<1> SUFFICES ASSUME HandlersInv, [HandlersNext]_handlersVars
             PROVE  HandlersInv'
  OBVIOUS
<1>1. ASSUME NEW p \in Paths, CreateResource(p)
      PROVE  HandlersInv'
  BY <1>1, CreateStep
<1>2. ASSUME NEW p \in Paths, ReplaceResource(p)
      PROVE  HandlersInv'
  BY <1>2, ReplaceStep
<1>3. ASSUME NEW p \in Paths, DeleteResource(p)
      PROVE  HandlersInv'
  BY <1>3, DeleteStep
<1>4. ASSUME NEW p \in Paths, NEW t \in Types, Push(p, t)
      PROVE  HandlersInv'
  BY <1>4, PushStep
<1>5. ASSUME NEW h \in Handlers, NEW p \in Paths, AddPushHandler(h, p)
      PROVE  HandlersInv'
  BY <1>5, AddStep
<1>6. ASSUME NEW h \in Handlers, RemovePushHandler(h)
      PROVE  HandlersInv'
  BY <1>6, RemoveStep
<1>7. CASE DaemonRestart
  <2>1. HandlersInit'
    BY <1>7 DEF DaemonRestart, HandlersInit
  <2> QED BY <2>1, HandlersInvInit, PTL
<1>8. CASE UNCHANGED handlersVars
  BY <1>8 DEF handlersVars, hooks, HandlersInv, HandlersTypeOK, OneResource, HaveResource,
              NeverMoved, Registered, Adrift, Listed, On, InOrder, EveryoneCalled, Intact, Notifies
<1> QED BY <1>1, <1>2, <1>3, <1>4, <1>5, <1>6, <1>7, <1>8 DEF HandlersNext

LEMMA HandlersInvariant == HandlersSpec => []HandlersInv
<1>1. HandlersInit => HandlersInv
  BY HandlersInvInit
<1> QED BY <1>1, HandlersStep, PTL DEF HandlersSpec

\* As long as handler_MoveAll() has moved nobody, a handler is on the list of the resource
\* it was registered for, once and in its turn, and on no other.  Afterwards the same is
\* true of every list that does not begin with a released handler and of the handlers that
\* some list leads to: removals through a stale listPtr lose no more than that.
THEOREM ListsStayExact == HandlersSpec => []ListsExact
<1>1. HandlersInv => ListsExact
  <2> SUFFICES ASSUME HandlersInv
               PROVE  ListsExact
    OBVIOUS
  <2>1. \A o \in Objects : InOrder(list[o], {h \in Registered \ Adrift : object[path[h]] = o})
    BY DEF HandlersInv, On, Listed
  <2> QED BY <2>1 DEF HandlersInv, NeverMoved, ListsExact
<1> QED BY <1>1, HandlersInvariant, PTL

\* handler_CallAll() reaches every handler of the resource that asked for the type of
\* the sample, once, in the order in which they were registered, but for handlers that no
\* list leads to and resources whose list begins with a released handler.
THEOREM PushReachesEveryone == HandlersSpec => []EveryoneCalled
<1>1. HandlersInv => EveryoneCalled
  BY DEF HandlersInv
<1> QED BY <1>1, HandlersInvariant, PTL
=============================================================================
