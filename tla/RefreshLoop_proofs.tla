-------------------------- MODULE RefreshLoop_proofs --------------------------
(***************************************************************************)
(* Proofs about RefreshLoop for any sources, entries, settings and bounds. *)
(***************************************************************************)
EXTENDS RefreshLoop, FiniteSetTheorems, SequenceTheorems, TLAPS

USE DEF store

-------------------------------------------------------------------------------
(* Orders.                                                                 *)

(* R puts the members of S in a strict total order.                        *)
Strict(R, S) ==
    /\ \A a \in S : <<a, a>> \notin R
    /\ \A a, b, c \in S : <<a, b>> \in R /\ <<b, c>> \in R => <<a, c>> \in R
    /\ \A a, b \in S : a = b \/ <<a, b>> \in R \/ <<b, a>> \in R

Below(R, S, e) == {x \in S : <<x, e>> \in R}

(* Who comes later has more before it.                                     *)
LEMMA LaterHasMore ==
    ASSUME NEW S, IsFiniteSet(S), NEW R, Strict(R, S), NEW a \in S, NEW b \in S,
           <<a, b>> \in R
    PROVE  Cardinality(Below(R, S, a)) < Cardinality(Below(R, S, b))
<1>1. IsFiniteSet(Below(R, S, b)) /\ Cardinality(Below(R, S, b)) \in Nat
  BY FS_Subset, FS_CardinalityType DEF Below
<1>2. Below(R, S, a) \subseteq Below(R, S, b)
  BY DEF Below, Strict
<1>3. a \in Below(R, S, b) /\ a \notin Below(R, S, a)
  BY DEF Below, Strict
<1>4. /\ Cardinality(Below(R, S, a)) <= Cardinality(Below(R, S, b))
      /\ Cardinality(Below(R, S, a)) # Cardinality(Below(R, S, b))
      /\ IsFiniteSet(Below(R, S, a))
  BY <1>1, <1>2, <1>3, FS_Subset
<1>5. Cardinality(Below(R, S, a)) \in Nat
  BY <1>4, FS_CardinalityType
<1> QED BY <1>1, <1>4, <1>5

(* Every place of an order is taken.                                       *)
LEMMA PlacesTaken ==
    ASSUME NEW S, IsFiniteSet(S), NEW R, Strict(R, S)
    PROVE  \A n \in 1 .. Cardinality(S) : \E e \in S : Cardinality(Below(R, S, e)) = n - 1
<1> DEFINE size == Cardinality(S)
           rank == [e \in S |-> Cardinality(Below(R, S, e))]
<1>1. size \in Nat
  BY FS_CardinalityType
<1>2. rank \in [S -> 0 .. size - 1]
  <2> SUFFICES ASSUME NEW e \in S PROVE Cardinality(Below(R, S, e)) \in 0 .. size - 1
    OBVIOUS
  <2>1. Below(R, S, e) \in SUBSET S /\ e \notin Below(R, S, e)
    BY DEF Below, Strict
  <2>2. /\ IsFiniteSet(Below(R, S, e)) /\ Cardinality(Below(R, S, e)) <= size
        /\ Cardinality(Below(R, S, e)) # size
    BY <2>1, FS_Subset
  <2>3. Cardinality(Below(R, S, e)) \in Nat
    BY <2>2, FS_CardinalityType
  <2> QED BY <1>1, <2>2, <2>3
<1>3. \A a, b \in S : rank[a] = rank[b] => a = b
  <2> SUFFICES ASSUME NEW a \in S, NEW b \in S, a # b PROVE rank[a] # rank[b]
    OBVIOUS
  <2>1. <<a, b>> \in R \/ <<b, a>> \in R
    BY DEF Strict
  <2>2. rank[a] \in Nat /\ rank[b] \in Nat
    BY <1>1, <1>2
  <2>3. rank[a] < rank[b] \/ rank[b] < rank[a]
    BY <2>1, LaterHasMore
  <2> QED BY <2>2, <2>3
<1>4. rank \in Injection(S, 0 .. size - 1)
  BY <1>2, <1>3 DEF Injection, IsInjective
<1>5. IsFiniteSet(0 .. size - 1) /\ Cardinality(0 .. size - 1) = size
  BY <1>1, FS_Interval
<1>6. rank \in Surjection(S, 0 .. size - 1)
  BY <1>4, <1>5, FS_Injection
<1>7. \A m \in 0 .. size - 1 : \E e \in S : rank[e] = m
  BY <1>6 DEF Surjection
<1> SUFFICES ASSUME NEW n \in 1 .. size
             PROVE  \E e \in S : Cardinality(Below(R, S, e)) = n - 1
  OBVIOUS
<1>8. n - 1 \in 0 .. size - 1
  BY <1>1
<1> QED BY <1>7, <1>8

(* f lists the members of S, each once.                                     *)
Listed(f, S) ==
    /\ f \in Seq(S) /\ Len(f) = Cardinality(S)
    /\ \A e \in S : \E n \in 1 .. Len(f) : f[n] = e
    /\ \A m, n \in 1 .. Len(f) : f[m] = f[n] => m = n

(* Who is put where as many are before it is in order.                      *)
LEMMA PlacedIsListed ==
    ASSUME NEW S, IsFiniteSet(S), NEW R, Strict(R, S),
           NEW f \in [1 .. Cardinality(S) -> S],
           \A n \in 1 .. Cardinality(S) : Cardinality(Below(R, S, f[n])) = n - 1
    PROVE  /\ Listed(f, S)
           /\ \A m, n \in 1 .. Len(f) : m < n => <<f[m], f[n]>> \in R
<1>1. Cardinality(S) \in Nat
  BY FS_CardinalityType
<1>2. f \in Seq(S) /\ Len(f) = Cardinality(S)
  <2>1. f \in UNION {[1 .. n -> S] : n \in Nat}
    BY <1>1
  <2>2. f \in Seq(S)
    BY <2>1, SeqDef
  <2>3. DOMAIN f = 1 .. Len(f) /\ Len(f) \in Nat
    BY <2>2, LenProperties
  <2>4. DOMAIN f = 1 .. Cardinality(S)
    OBVIOUS
  <2>5. Len(f) = Cardinality(S)
    BY <1>1, <2>3, <2>4
  <2> QED BY <2>2, <2>5
<1>3. ASSUME NEW a \in S, NEW b \in S, Cardinality(Below(R, S, a)) = Cardinality(Below(R, S, b))
      PROVE  a = b
  <2>1. /\ Below(R, S, a) \in SUBSET S /\ Below(R, S, b) \in SUBSET S
    BY DEF Below
  <2>2. Cardinality(Below(R, S, a)) \in Nat /\ Cardinality(Below(R, S, b)) \in Nat
    BY <2>1, FS_Subset, FS_CardinalityType
  <2>3. <<a, b>> \notin R /\ <<b, a>> \notin R
    BY <1>3, <2>2, LaterHasMore
  <2> QED BY <2>3 DEF Strict
<1>4. \A e \in S : \E n \in 1 .. Len(f) : f[n] = e
  <2> SUFFICES ASSUME NEW e \in S PROVE \E n \in 1 .. Cardinality(S) : f[n] = e
    BY <1>2
  <2>1. e \notin Below(R, S, e) /\ Below(R, S, e) \in SUBSET S
    BY DEF Below, Strict
  <2>2. Cardinality(Below(R, S, e)) \in 0 .. Cardinality(S) - 1
    <3>1. /\ IsFiniteSet(Below(R, S, e)) /\ Cardinality(Below(R, S, e)) <= Cardinality(S)
          /\ Cardinality(Below(R, S, e)) # Cardinality(S)
      BY <2>1, FS_Subset
    <3>2. Cardinality(Below(R, S, e)) \in Nat
      BY <3>1, FS_CardinalityType
    <3> QED BY <1>1, <3>1, <3>2
  <2>3. PICK n \in 1 .. Cardinality(S) : n - 1 = Cardinality(Below(R, S, e))
    <3>1. Cardinality(Below(R, S, e)) + 1 \in 1 .. Cardinality(S)
      BY <1>1, <2>2
    <3>2. (Cardinality(Below(R, S, e)) + 1) - 1 = Cardinality(Below(R, S, e))
      BY <1>1, <2>2
    <3> QED BY <3>1, <3>2
  <2>4. Cardinality(Below(R, S, f[n])) = Cardinality(Below(R, S, e)) /\ f[n] \in S
    BY <2>3
  <2> QED BY <1>3, <2>3, <2>4
<1>5. \A m, n \in 1 .. Len(f) : f[m] = f[n] => m = n
  BY <1>1, <1>2
<1>6. ASSUME NEW m \in 1 .. Len(f), NEW n \in 1 .. Len(f), m < n
      PROVE  <<f[m], f[n]>> \in R
  <2>1. f[m] \in S /\ f[n] \in S /\ f[m] # f[n]
    BY <1>2, <1>5, <1>6
  <2>2. Cardinality(Below(R, S, f[m])) = m - 1 /\ Cardinality(Below(R, S, f[n])) = n - 1
    BY <1>2
  <2>3. <<f[n], f[m]>> \notin R
    BY <1>1, <1>2, <1>6, <2>1, <2>2, LaterHasMore
  <2> QED BY <2>1, <2>3 DEF Strict
<1> QED BY <1>2, <1>4, <1>5, <1>6 DEF Listed

(* compare_ranked and its two relatives put entries of different keys in a   *)
(* strict order; so InOrder lists them.                                     *)
KeyedBy(S) == \A a, b \in S : a.key = b.key => a = b

LEMMA RankedOrder ==
    ASSUME NEW S \in SUBSET Entry, KeyedBy(S)
    PROVE  Strict({p \in S \X S : compare_ranked(p[1], p[2])}, S)
<1> DEFINE R == {p \in S \X S : compare_ranked(p[1], p[2])}
<1>1. \A a, b \in S : <<a, b>> \in R <=> compare_ranked(a, b)
  OBVIOUS
<1>2. \A a \in S : /\ a.key \in Nat /\ a.src \in Nat /\ a.up \in BOOLEAN /\ a.lat \in Nat
  BY RefreshAssumption DEF Entry
<1>3. \A a \in S : ~compare_ranked(a, a)
  BY <1>2 DEF compare_ranked, TieBreak, Faster, NoLat
<1>4. \A a, b, c \in S : compare_ranked(a, b) /\ compare_ranked(b, c) => compare_ranked(a, c)
  BY <1>2 DEF compare_ranked, TieBreak, Faster, NoLat
<1>5. \A a, b \in S : a = b \/ compare_ranked(a, b) \/ compare_ranked(b, a)
  BY <1>2 DEF compare_ranked, TieBreak, Faster, NoLat, KeyedBy
<1> HIDE DEF R
<1> QED BY <1>1, <1>3, <1>4, <1>5 DEF Strict

LEMMA StabilityOrder ==
    ASSUME NEW S \in SUBSET Entry, KeyedBy(S)
    PROVE  Strict({p \in S \X S : compare_stability_ranked(p[1], p[2])}, S)
<1> DEFINE R == {p \in S \X S : compare_stability_ranked(p[1], p[2])}
<1>1. \A a, b \in S : <<a, b>> \in R <=> compare_stability_ranked(a, b)
  OBVIOUS
<1>2. \A a \in S : /\ a.key \in Nat /\ a.src \in Nat /\ a.up \in BOOLEAN /\ a.lat \in Nat
                   /\ a.stab \in Nat
  BY RefreshAssumption DEF Entry
<1>3. \A a \in S : ~compare_stability_ranked(a, a)
  BY <1>2 DEF compare_stability_ranked, TieBreak, Faster, NoLat
<1>4. \A a, b, c \in S : compare_stability_ranked(a, b) /\ compare_stability_ranked(b, c) => compare_stability_ranked(a, c)
  BY <1>2 DEF compare_stability_ranked, TieBreak, Faster, NoLat
<1>5. \A a, b \in S : a = b \/ compare_stability_ranked(a, b) \/ compare_stability_ranked(b, a)
  BY <1>2 DEF compare_stability_ranked, TieBreak, Faster, NoLat, KeyedBy
<1> HIDE DEF R
<1> QED BY <1>1, <1>3, <1>4, <1>5 DEF Strict

LEMMA StoredOrder ==
    ASSUME NEW S \in SUBSET Entry, KeyedBy(S)
    PROVE  Strict({p \in S \X S : StoredBefore(p[1], p[2])}, S)
<1> DEFINE R == {p \in S \X S : StoredBefore(p[1], p[2])}
<1>1. \A a, b \in S : <<a, b>> \in R <=> StoredBefore(a, b)
  OBVIOUS
<1>2. \A a \in S : /\ a.key \in Nat /\ a.src \in Nat /\ a.up \in BOOLEAN /\ a.lat \in Nat
                   /\ a.stab \in Nat
  BY RefreshAssumption DEF Entry
<1>3. \A a \in S : ~StoredBefore(a, a)
  BY <1>2 DEF StoredBefore, TieBreak, Faster, NoLat
<1>4. \A a, b, c \in S : StoredBefore(a, b) /\ StoredBefore(b, c) => StoredBefore(a, c)
  BY <1>2 DEF StoredBefore, TieBreak, Faster, NoLat
<1>5. \A a, b \in S : a = b \/ StoredBefore(a, b) \/ StoredBefore(b, a)
  BY <1>2 DEF StoredBefore, TieBreak, Faster, NoLat, KeyedBy
<1> HIDE DEF R
<1> QED BY <1>1, <1>3, <1>4, <1>5 DEF Strict

LEMMA RankedLists ==
    ASSUME NEW S \in SUBSET Entry, IsFiniteSet(S), KeyedBy(S)
    PROVE  Listed(InOrder(S, compare_ranked), S)
<1> DEFINE R == {p \in S \X S : compare_ranked(p[1], p[2])}
           f == InOrder(S, compare_ranked)
<1>1. Strict(R, S)
  BY RankedOrder
<1>2. \A e \in S : Below(R, S, e) = {x \in S : compare_ranked(x, e)}
  BY DEF Below
<1> HIDE DEF R
<1>3. \A n \in 1 .. Cardinality(S) :
        \E e \in S : Cardinality({x \in S : compare_ranked(x, e)}) = n - 1
  <2>1. \A n \in 1 .. Cardinality(S) : \E e \in S : Cardinality(Below(R, S, e)) = n - 1
    BY <1>1, PlacesTaken
  <2> QED BY <1>2, <2>1
<1>4. /\ f \in [1 .. Cardinality(S) -> S]
      /\ \A n \in 1 .. Cardinality(S) : Cardinality({x \in S : compare_ranked(x, f[n])}) = n - 1
  BY <1>3 DEF InOrder
<1> HIDE DEF f
<1> QED BY <1>1, <1>2, <1>4, PlacedIsListed DEF f

LEMMA StabilityLists ==
    ASSUME NEW S \in SUBSET Entry, IsFiniteSet(S), KeyedBy(S)
    PROVE  Listed(InOrder(S, compare_stability_ranked), S)
<1> DEFINE R == {p \in S \X S : compare_stability_ranked(p[1], p[2])}
           f == InOrder(S, compare_stability_ranked)
<1>1. Strict(R, S)
  BY StabilityOrder
<1>2. \A e \in S : Below(R, S, e) = {x \in S : compare_stability_ranked(x, e)}
  BY DEF Below
<1> HIDE DEF R
<1>3. \A n \in 1 .. Cardinality(S) :
        \E e \in S : Cardinality({x \in S : compare_stability_ranked(x, e)}) = n - 1
  <2>1. \A n \in 1 .. Cardinality(S) : \E e \in S : Cardinality(Below(R, S, e)) = n - 1
    BY <1>1, PlacesTaken
  <2> QED BY <1>2, <2>1
<1>4. /\ f \in [1 .. Cardinality(S) -> S]
      /\ \A n \in 1 .. Cardinality(S) : Cardinality({x \in S : compare_stability_ranked(x, f[n])}) = n - 1
  BY <1>3 DEF InOrder
<1> HIDE DEF f
<1> QED BY <1>1, <1>2, <1>4, PlacedIsListed DEF f

LEMMA StoredLists ==
    ASSUME NEW S \in SUBSET Entry, IsFiniteSet(S), KeyedBy(S)
    PROVE  Listed(InOrder(S, StoredBefore), S)
<1> DEFINE R == {p \in S \X S : StoredBefore(p[1], p[2])}
           f == InOrder(S, StoredBefore)
<1>1. Strict(R, S)
  BY StoredOrder
<1>2. \A e \in S : Below(R, S, e) = {x \in S : StoredBefore(x, e)}
  BY DEF Below
<1> HIDE DEF R
<1>3. \A n \in 1 .. Cardinality(S) :
        \E e \in S : Cardinality({x \in S : StoredBefore(x, e)}) = n - 1
  <2>1. \A n \in 1 .. Cardinality(S) : \E e \in S : Cardinality(Below(R, S, e)) = n - 1
    BY <1>1, PlacesTaken
  <2> QED BY <1>2, <2>1
<1>4. /\ f \in [1 .. Cardinality(S) -> S]
      /\ \A n \in 1 .. Cardinality(S) : Cardinality({x \in S : StoredBefore(x, f[n])}) = n - 1
  BY <1>3 DEF InOrder
<1> HIDE DEF f
<1> QED BY <1>1, <1>2, <1>4, PlacedIsListed DEF f

(* Places of a list, and sources, are put in the order of their numbers.     *)
LEMMA NumbersList ==
    ASSUME NEW S \in SUBSET Nat, IsFiniteSet(S)
    PROVE  /\ Listed(InOrder(S, <), S)
           /\ \A m, n \in 1 .. Len(InOrder(S, <)) :
                m < n => InOrder(S, <)[m] < InOrder(S, <)[n]
<1> DEFINE R == {p \in S \X S : p[1] < p[2]}
           f == InOrder(S, <)
<1>1. \A a, b \in S : <<a, b>> \in R <=> a < b
  OBVIOUS
<1>2. \A e \in S : Below(R, S, e) = {x \in S : x < e}
  BY DEF Below
<1> HIDE DEF R
<1>3. Strict(R, S)
  BY <1>1 DEF Strict
<1>4. \A n \in 1 .. Cardinality(S) : \E e \in S : Cardinality({x \in S : x < e}) = n - 1
  <2>1. \A n \in 1 .. Cardinality(S) : \E e \in S : Cardinality(Below(R, S, e)) = n - 1
    BY <1>3, PlacesTaken
  <2> QED BY <1>2, <2>1
<1>5. /\ f \in [1 .. Cardinality(S) -> S]
      /\ \A n \in 1 .. Cardinality(S) : Cardinality({x \in S : x < f[n]}) = n - 1
  BY <1>4 DEF InOrder
<1> HIDE DEF f
<1>6. Listed(f, S) /\ \A m, n \in 1 .. Len(f) : m < n => <<f[m], f[n]>> \in R
  <2>1. \A n \in 1 .. Cardinality(S) : Cardinality(Below(R, S, f[n])) = n - 1
    BY <1>2, <1>5
  <2> QED BY <1>3, <1>5, <2>1, PlacedIsListed
<1>7. \A n \in 1 .. Len(f) : f[n] \in S
  BY <1>5, <1>6 DEF Listed
<1> QED BY <1>1, <1>6, <1>7 DEF f

-------------------------------------------------------------------------------
(* Lists.                                                                  *)

LEMMA FiniteImage ==
    ASSUME NEW S, IsFiniteSet(S), NEW T, NEW f \in [S -> T]
    PROVE  IsFiniteSet({f[x] : x \in S})
<1>1. f \in Surjection(S, {f[x] : x \in S})
  BY DEF Surjection
<1> QED BY <1>1, FS_Surjection

LEMMA LeastOf ==
    ASSUME NEW S \in SUBSET Nat, S # {}
    PROVE  \E x \in S : \A y \in S : x <= y
<1>1. PICK x \in S : \A y \in S : ~ (<<y, x>> \in OpToRel(<, Nat))
  BY NatLessThanWellFounded, WFMin
<1>2. \A y \in S : ~ (y < x)
  BY <1>1 DEF OpToRel
<1> QED BY <1>2

LEMMA SameEnd ==
    ASSUME NEW m \in Nat, NEW n \in Nat, 1 .. m = 1 .. n
    PROVE  m = n
<1>1. Cardinality(1 .. m) = m /\ Cardinality(1 .. n) = n
  BY FS_Interval
<1> QED BY <1>1

LEMMA ListFacts ==
    ASSUME NEW T, NEW list \in Seq(T)
    PROVE  /\ Len(list) \in Nat /\ DOMAIN list = 1 .. Len(list)
           /\ ToSet(list) = {list[i] : i \in 1 .. Len(list)}
           /\ ToSet(list) \subseteq T /\ IsFiniteSet(ToSet(list))
           /\ KeysOf(list) = {list[i].key : i \in 1 .. Len(list)}
           /\ list = <<>> <=> Len(list) = 0
<1>1. Len(list) \in Nat /\ DOMAIN list = 1 .. Len(list) /\ list \in [1 .. Len(list) -> T]
  BY LenProperties
<1>2. ToSet(list) = {list[i] : i \in 1 .. Len(list)} /\ ToSet(list) \subseteq T
  BY <1>1 DEF ToSet
<1>3. IsFiniteSet(ToSet(list))
  <2>1. IsFiniteSet(1 .. Len(list))
    BY <1>1, FS_Interval
  <2>2. IsFiniteSet({list[i] : i \in 1 .. Len(list)})
    BY <1>1, <2>1, FiniteImage
  <2> QED BY <1>2, <2>2
<1>4. KeysOf(list) = {list[i].key : i \in 1 .. Len(list)}
  BY <1>1 DEF KeysOf
<1>5. list = <<>> <=> Len(list) = 0
  BY EmptySeq
<1> QED BY <1>1, <1>2, <1>3, <1>4, <1>5

(* g tells where in list each entry of kept was: every place once.         *)
PickedBy(g, kept, list, places) ==
    /\ \A n \in 1 .. Len(kept) : g[n] \in places /\ kept[n] = list[g[n]]
    /\ \A i \in places : \E n \in 1 .. Len(kept) : g[n] = i
    /\ \A m, n \in 1 .. Len(kept) : g[m] = g[n] => m = n

(* What is kept of a list is what was at the places.                       *)
LEMMA FilteredIs ==
    ASSUME NEW T, NEW list \in Seq(T), NEW places \in SUBSET (1 .. Len(list))
    PROVE  /\ Filtered(list, places) \in Seq(T)
           /\ \E g : PickedBy(g, Filtered(list, places), list, places)
<1> DEFINE g == InOrder(places, <)
           kept == Filtered(list, places)
<1>1. Len(list) \in Nat /\ list \in [1 .. Len(list) -> T]
  BY LenProperties
<1>2. places \in SUBSET Nat /\ IsFiniteSet(places)
  <2>1. IsFiniteSet(1 .. Len(list))
    BY <1>1, FS_Interval
  <2>2. IsFiniteSet(places)
    BY <2>1, FS_Subset
  <2> QED BY <1>1, <2>2
<1>3. Listed(g, places)
  BY <1>2, NumbersList
<1>4. kept = [n \in DOMAIN g |-> list[g[n]]]
  BY DEF Filtered
<1> HIDE DEF g, kept
<1>5. /\ Len(g) \in Nat /\ g \in [1 .. Len(g) -> places]
  BY <1>3, LenProperties DEF Listed
<1>6. kept \in [1 .. Len(g) -> T] /\ \A n \in 1 .. Len(g) : kept[n] = list[g[n]]
  BY <1>1, <1>4, <1>5
<1>7. kept \in Seq(T)
  BY <1>5, <1>6, SeqDef
<1>8. Len(kept) = Len(g)
  <2>1. Len(kept) \in Nat /\ DOMAIN kept = 1 .. Len(kept)
    BY <1>7, LenProperties
  <2>2. DOMAIN kept = 1 .. Len(g)
    BY <1>6
  <2>3. 1 .. Len(kept) = 1 .. Len(g)
    BY <2>1, <2>2
  <2> QED BY <1>5, <2>1, <2>3, SameEnd
<1>9. PickedBy(g, kept, list, places)
  BY <1>3, <1>5, <1>6, <1>8 DEF PickedBy, Listed
<1> QED BY <1>7, <1>9 DEF kept

OneEach(list) == \A i, j \in 1 .. Len(list) : list[i].key = list[j].key => i = j

(* A list of entries that names no key twice.                               *)
Proper(list) == list \in Seq(Entry) /\ OneEach(list)

LEMMA ProperSize ==
    ASSUME NEW list, Proper(list)
    PROVE  ToSet(list) \subseteq Entry /\ Cardinality(KeysOf(list)) = Len(list)
<1>1. /\ Len(list) \in Nat /\ ToSet(list) \subseteq Entry
      /\ KeysOf(list) = {list[i].key : i \in 1 .. Len(list)}
  BY ListFacts DEF Proper
<1> DEFINE f == [i \in 1 .. Len(list) |-> list[i].key]
<1>2. f \in [1 .. Len(list) -> KeysOf(list)]
  BY <1>1
<1>3. \A k \in KeysOf(list) : \E i \in 1 .. Len(list) : f[i] = k
  BY <1>1
<1>4. \A i, j \in 1 .. Len(list) : f[i] = f[j] => i = j
  BY DEF Proper, OneEach
<1>5. f \in Bijection(1 .. Len(list), KeysOf(list))
  BY <1>2, <1>3, <1>4 DEF Bijection, Injection, Surjection, IsInjective
<1>6. ExistsBijection(1 .. Len(list), KeysOf(list))
  BY <1>5 DEF ExistsBijection
<1>7. Cardinality(KeysOf(list)) = Len(list)
  BY <1>1, <1>6, FS_CountingElements
<1> QED BY <1>1, <1>7

LEMMA TakeIs ==
    ASSUME NEW T, NEW list \in Seq(T), NEW n \in Nat
    PROVE  /\ Take(list, n) \in Seq(T)
           /\ Len(Take(list, n)) = IF n < Len(list) THEN n ELSE Len(list)
           /\ \A i \in 1 .. Len(Take(list, n)) : Take(list, n)[i] = list[i]
           /\ ToSet(Take(list, n)) \subseteq ToSet(list)
           /\ KeysOf(Take(list, n)) \subseteq KeysOf(list)
<1> DEFINE m == IF n < Len(list) THEN n ELSE Len(list)
<1>1. Len(list) \in Nat /\ m \in Nat /\ m <= Len(list)
  BY LenProperties
<1>2. \A i \in 1 .. m : list[i] \in T
  BY <1>1, ElementOfSeq
<1>3. Take(list, n) = SubSeq(list, 1, m)
  BY DEF Take
<1>4. /\ SubSeq(list, 1, m) \in Seq(T)
      /\ Len(SubSeq(list, 1, m)) = IF 1 <= m THEN m - 1 + 1 ELSE 0
      /\ \A i \in 1 .. m - 1 + 1 : SubSeq(list, 1, m)[i] = list[1 + i - 1]
  BY <1>1, <1>2, SubSeqProperties
<1>5. /\ Take(list, n) \in Seq(T) /\ Len(Take(list, n)) = m
      /\ \A i \in 1 .. m : Take(list, n)[i] = list[i]
  BY <1>1, <1>3, <1>4
<1> HIDE DEF m
<1>6. ToSet(Take(list, n)) \subseteq ToSet(list) /\ KeysOf(Take(list, n)) \subseteq KeysOf(list)
  BY <1>1, <1>5, ListFacts
<1> QED BY <1>5, <1>6 DEF m

LEMMA TakeProper ==
    ASSUME NEW list, Proper(list), NEW n \in Nat
    PROVE  Proper(Take(list, n))
<1>1. list \in Seq(Entry) /\ Len(list) \in Nat
  BY LenProperties DEF Proper
<1> QED BY <1>1, TakeIs DEF Proper, OneEach

(* What is kept of a proper list is proper, and nothing new is in it.       *)
LEMMA FilteredProper ==
    ASSUME NEW list, Proper(list), NEW places \in SUBSET (1 .. Len(list))
    PROVE  /\ Proper(Filtered(list, places))
           /\ ToSet(Filtered(list, places)) = {list[i] : i \in places}
<1> DEFINE kept == Filtered(list, places)
<1>1. list \in Seq(Entry)
  BY DEF Proper
<1>2. kept \in Seq(Entry) /\ \E g : PickedBy(g, kept, list, places)
  BY <1>1, FilteredIs
<1> HIDE DEF kept
<1>3. PICK g : PickedBy(g, kept, list, places)
  BY <1>2
<1>4. ASSUME NEW m \in 1 .. Len(kept), NEW n \in 1 .. Len(kept), kept[m].key = kept[n].key
      PROVE  m = n
  <2>1. g[m] \in 1 .. Len(list) /\ g[n] \in 1 .. Len(list)
        /\ kept[m] = list[g[m]] /\ kept[n] = list[g[n]]
    BY <1>3 DEF PickedBy
  <2>2. g[m] = g[n]
    BY <1>4, <2>1 DEF Proper, OneEach
  <2> QED BY <1>3, <2>2 DEF PickedBy
<1>5. ToSet(kept) = {kept[n] : n \in 1 .. Len(kept)}
  BY <1>2, ListFacts
<1>6. ToSet(kept) = {list[i] : i \in places}
  <2>1. \A n \in 1 .. Len(kept) : kept[n] \in {list[i] : i \in places}
    BY <1>3 DEF PickedBy
  <2>2. \A i \in places : \E n \in 1 .. Len(kept) : kept[n] = list[i]
    BY <1>3 DEF PickedBy
  <2> QED BY <1>5, <2>1, <2>2
<1>7. OneEach(kept)
  BY <1>4 DEF OneEach
<1> QED BY <1>2, <1>6, <1>7 DEF Proper, kept

LEMMA ReachableIs ==
    ASSUME NEW list \in Seq(Entry)
    PROVE  /\ Reachable(list) \in Seq(Entry)
           /\ ToSet(Reachable(list)) = {e \in ToSet(list) : e.up}
           /\ \A n \in 1 .. Len(Reachable(list)) : Reachable(list)[n].up
           /\ Reachable(list) # <<>> <=> \E i \in 1 .. Len(list) : list[i].up
           /\ OneEach(list) => OneEach(Reachable(list))
           /\ KeysOf(Reachable(list)) \subseteq KeysOf(list)
<1> DEFINE places == {i \in 1 .. Len(list) : list[i].up}
           kept == Reachable(list)
<1>1. kept = Filtered(list, places)
  BY ListFacts DEF Reachable
<1> HIDE DEF kept
<1>2. kept \in Seq(Entry) /\ \E g : PickedBy(g, kept, list, places)
  <2>1. places \in SUBSET (1 .. Len(list))
    OBVIOUS
  <2> HIDE DEF places
  <2> QED BY <1>1, <2>1, FilteredIs
<1>3. PICK g : PickedBy(g, kept, list, places)
  BY <1>2
<1>4. /\ ToSet(list) = {list[i] : i \in 1 .. Len(list)}
      /\ ToSet(kept) = {kept[n] : n \in 1 .. Len(kept)}
      /\ KeysOf(list) = {list[i].key : i \in 1 .. Len(list)}
      /\ KeysOf(kept) = {kept[n].key : n \in 1 .. Len(kept)}
      /\ Len(kept) \in Nat /\ (kept = <<>> <=> Len(kept) = 0)
  BY <1>2, ListFacts
<1>5. /\ \A n \in 1 .. Len(kept) : /\ g[n] \in 1 .. Len(list)
                                   /\ kept[n] = list[g[n]] /\ kept[n].up
      /\ \A i \in 1 .. Len(list) : list[i].up => \E n \in 1 .. Len(kept) : kept[n] = list[i]
      /\ \A m, n \in 1 .. Len(kept) : g[m] = g[n] => m = n
  BY <1>3 DEF PickedBy
<1> HIDE DEF places
<1>6. ToSet(kept) = {e \in ToSet(list) : e.up}
  BY <1>4, <1>5
<1>7. kept # <<>> <=> \E i \in 1 .. Len(list) : list[i].up
  <2>1. kept # <<>> => 1 \in 1 .. Len(kept)
    BY <1>4
  <2>2. (\E n \in 1 .. Len(kept) : TRUE) <=> kept # <<>>
    BY <1>4, <2>1
  <2> QED BY <1>4, <1>5, <2>2
<1>8. OneEach(list) => OneEach(kept)
  <2> SUFFICES ASSUME OneEach(list), NEW m \in 1 .. Len(kept), NEW n \in 1 .. Len(kept),
                      kept[m].key = kept[n].key
               PROVE  m = n
    BY DEF OneEach
  <2>1. /\ g[m] \in 1 .. Len(list) /\ kept[m] = list[g[m]]
        /\ g[n] \in 1 .. Len(list) /\ kept[n] = list[g[n]]
    BY <1>5
  <2>2. list[g[m]].key = list[g[n]].key
    BY <2>1
  <2>3. g[m] = g[n]
    BY <2>1, <2>2 DEF OneEach
  <2> QED BY <1>5, <2>3
<1>9. KeysOf(kept) \subseteq KeysOf(list)
  BY <1>4, <1>5
<1> QED BY <1>2, <1>5, <1>6, <1>7, <1>8, <1>9 DEF kept

(* The first entry of every key stays, and only that.                       *)
LEMMA DistinctIs ==
    ASSUME NEW list \in Seq(Entry)
    PROVE  /\ Proper(Distinct(list))
           /\ ToSet(Distinct(list)) \subseteq ToSet(list)
           /\ KeysOf(Distinct(list)) = KeysOf(list)
           /\ list # <<>> => Distinct(list) # <<>>
<1> DEFINE Fresh(i) == \A j \in 1 .. (i - 1) : list[j].key # list[i].key
           places == {i \in 1 .. Len(list) : Fresh(i)}
           kept == Distinct(list)
<1>1. kept = Filtered(list, places)
  BY ListFacts DEF Distinct
<1> HIDE DEF kept
<1>2. kept \in Seq(Entry) /\ \E g : PickedBy(g, kept, list, places)
  <2>1. places \in SUBSET (1 .. Len(list))
    OBVIOUS
  <2> HIDE DEF places
  <2> QED BY <1>1, <2>1, FilteredIs
<1>3. PICK g : PickedBy(g, kept, list, places)
  BY <1>2
<1>4. /\ ToSet(list) = {list[i] : i \in 1 .. Len(list)}
      /\ ToSet(kept) = {kept[n] : n \in 1 .. Len(kept)}
      /\ KeysOf(list) = {list[i].key : i \in 1 .. Len(list)}
      /\ KeysOf(kept) = {kept[n].key : n \in 1 .. Len(kept)}
      /\ Len(kept) \in Nat /\ (kept = <<>> <=> Len(kept) = 0)
      /\ Len(list) \in Nat /\ (list = <<>> <=> Len(list) = 0)
  BY <1>2, ListFacts
<1>5. ASSUME NEW i \in 1 .. Len(list), NEW j \in 1 .. Len(list), Fresh(i), Fresh(j),
             list[i].key = list[j].key
      PROVE  i = j
  <2>1. i \notin 1 .. (j - 1) /\ j \notin 1 .. (i - 1)
    BY <1>5
  <2> QED BY <1>4, <2>1
<1>6. /\ \A n \in 1 .. Len(kept) : /\ g[n] \in 1 .. Len(list) /\ Fresh(g[n])
                                   /\ kept[n] = list[g[n]]
      /\ \A i \in 1 .. Len(list) : Fresh(i) => \E n \in 1 .. Len(kept) : kept[n] = list[i]
      /\ \A m, n \in 1 .. Len(kept) : g[m] = g[n] => m = n
  <2> HIDE DEF Fresh
  <2> QED BY <1>3 DEF PickedBy
<1> HIDE DEF places, Fresh
<1>7. OneEach(kept)
  <2> SUFFICES ASSUME NEW m \in 1 .. Len(kept), NEW n \in 1 .. Len(kept),
                      kept[m].key = kept[n].key
               PROVE  m = n
    BY DEF OneEach
  <2>1. /\ g[m] \in 1 .. Len(list) /\ Fresh(g[m]) /\ kept[m] = list[g[m]]
        /\ g[n] \in 1 .. Len(list) /\ Fresh(g[n]) /\ kept[n] = list[g[n]]
    BY <1>6
  <2>2. list[g[m]].key = list[g[n]].key
    BY <2>1
  <2>3. g[m] = g[n]
    BY <1>5, <2>1, <2>2
  <2> QED BY <1>6, <2>3
<1>8. ToSet(kept) \subseteq ToSet(list) /\ KeysOf(kept) \subseteq KeysOf(list)
  BY <1>4, <1>6, SMTT(60)
<1>9. KeysOf(list) \subseteq KeysOf(kept)
  <2> SUFFICES ASSUME NEW i \in 1 .. Len(list) PROVE list[i].key \in KeysOf(kept)
    BY <1>4
  <2> DEFINE same == {j \in 1 .. Len(list) : list[j].key = list[i].key}
  <2>1. PICK j \in same : \A m \in same : j <= m
    <3>1. same \in SUBSET Nat /\ same # {}
      BY <1>4
    <3> HIDE DEF same
    <3> QED BY <3>1, LeastOf
  <2>2. Fresh(j)
    BY <1>4, <2>1 DEF Fresh
  <2>3. PICK n \in 1 .. Len(kept) : kept[n] = list[j]
    BY <1>6, <2>1, <2>2
  <2>4. kept[n].key = list[i].key
    BY <2>1, <2>3
  <2> QED BY <1>4, <2>4
<1>10. ASSUME list # <<>> PROVE kept # <<>>
  <2>1. 1 \in 1 .. Len(list)
    BY <1>4, <1>10
  <2>2. list[1].key \in KeysOf(kept)
    BY <1>4, <1>9, <2>1
  <2> QED BY <1>4, <2>2
<1> QED BY <1>2, <1>7, <1>8, <1>9, <1>10 DEF Proper, kept

LEMMA KeysAre ==
    ASSUME NEW list \in Seq(Entry)
    PROVE  KeysOf(list) = {e.key : e \in ToSet(list)} /\ KeysOf(list) \subseteq Keys
<1>1. /\ KeysOf(list) = {list[i].key : i \in 1 .. Len(list)}
      /\ ToSet(list) = {list[i] : i \in 1 .. Len(list)} /\ ToSet(list) \subseteq Entry
  BY ListFacts
<1>2. KeysOf(list) = {e.key : e \in ToSet(list)}
  BY <1>1
<1>3. \A e \in Entry : e.key \in Keys
  BY DEF Entry
<1> QED BY <1>1, <1>2, <1>3

LEMMA KeyedEntries ==
    ASSUME NEW list, Proper(list)
    PROVE  KeyedBy(ToSet(list)) /\ ToSet(list) \in SUBSET Entry /\ IsFiniteSet(ToSet(list))
<1>1. /\ ToSet(list) = {list[i] : i \in 1 .. Len(list)}
      /\ ToSet(list) \subseteq Entry /\ IsFiniteSet(ToSet(list))
  BY ListFacts DEF Proper
<1>2. \A i, j \in 1 .. Len(list) : list[i].key = list[j].key => list[i] = list[j]
  BY DEF Proper, OneEach
<1> QED BY <1>1, <1>2 DEF KeyedBy

(* Entries of different keys make a proper list in whatever order.          *)
LEMMA ListedProper ==
    ASSUME NEW S \in SUBSET Entry, KeyedBy(S), NEW f, Listed(f, S)
    PROVE  Proper(f) /\ ToSet(f) = S /\ KeysOf(f) = {e.key : e \in S}
<1>1. f \in Seq(S) /\ f \in Seq(Entry)
  <2>1. f \in Seq(S) /\ Len(f) \in Nat /\ \A n \in 1 .. Len(f) : f[n] \in S
    BY ElementOfSeq, LenProperties DEF Listed
  <2>2. f \in [1 .. Len(f) -> Entry]
    BY <2>1, LenProperties
  <2> QED BY <2>1, <2>2, SeqDef
<1>2. \A n \in 1 .. Len(f) : f[n] \in S
  BY <1>1, ElementOfSeq
<1>3. OneEach(f)
  BY <1>2 DEF OneEach, KeyedBy, Listed
<1>4. ToSet(f) = S
  <2>1. ToSet(f) = {f[n] : n \in 1 .. Len(f)}
    BY <1>1, ListFacts
  <2> QED BY <1>2, <2>1 DEF Listed
<1> QED BY <1>1, <1>3, <1>4, KeysAre DEF Proper

LEMMA SortedIs ==
    ASSUME NEW list, Proper(list)
    PROVE  /\ Proper(Sorted(list, compare_ranked))
           /\ ToSet(Sorted(list, compare_ranked)) = ToSet(list)
           /\ KeysOf(Sorted(list, compare_ranked)) = KeysOf(list)
           /\ Proper(Sorted(list, compare_stability_ranked))
           /\ ToSet(Sorted(list, compare_stability_ranked)) = ToSet(list)
           /\ KeysOf(Sorted(list, compare_stability_ranked)) = KeysOf(list)
<1> DEFINE S == ToSet(list)
<1>1. KeyedBy(S) /\ S \in SUBSET Entry /\ IsFiniteSet(S)
  BY KeyedEntries
<1>2. KeysOf(list) = {e.key : e \in S}
  BY KeysAre DEF Proper
<1> HIDE DEF S
<1>3. Listed(InOrder(S, compare_ranked), S)
  BY <1>1, RankedLists
<1>4. Listed(InOrder(S, compare_stability_ranked), S)
  BY <1>1, StabilityLists
<1>5. /\ Sorted(list, compare_ranked) = InOrder(S, compare_ranked)
      /\ Sorted(list, compare_stability_ranked) = InOrder(S, compare_stability_ranked)
  BY DEF Sorted, S
<1> DEFINE f == InOrder(S, compare_ranked)
           g == InOrder(S, compare_stability_ranked)
<1> HIDE DEF f, g
<1>6. Listed(f, S) /\ Listed(g, S)
  BY <1>3, <1>4 DEF f, g
<1>7. Proper(f) /\ ToSet(f) = S /\ KeysOf(f) = {e.key : e \in S}
  BY <1>1, <1>6, ListedProper
<1>8. Proper(g) /\ ToSet(g) = S /\ KeysOf(g) = {e.key : e \in S}
  BY <1>1, <1>6, ListedProper
<1> QED BY <1>2, <1>5, <1>7, <1>8 DEF f, g, S

LEMMA JoinedLists ==
    ASSUME NEW T, NEW a \in Seq(T), NEW b \in Seq(T)
    PROVE  /\ a \o b \in Seq(T)
           /\ ToSet(a \o b) = ToSet(a) \cup ToSet(b)
           /\ KeysOf(a \o b) = KeysOf(a) \cup KeysOf(b)
<1>1. /\ a \o b \in Seq(T) /\ Len(a \o b) = Len(a) + Len(b)
      /\ Len(a) \in Nat /\ Len(b) \in Nat
      /\ \A i \in 1 .. Len(a) + Len(b) :
            (a \o b)[i] = IF i <= Len(a) THEN a[i] ELSE b[i - Len(a)]
  BY ConcatProperties, LenProperties
<1>2. /\ \A i \in 1 .. Len(a) : i \in 1 .. Len(a \o b) /\ (a \o b)[i] = a[i]
      /\ \A i \in 1 .. Len(b) : i + Len(a) \in 1 .. Len(a \o b) /\ (a \o b)[i + Len(a)] = b[i]
      /\ \A i \in 1 .. Len(a \o b) :
            \/ i \in 1 .. Len(a) /\ (a \o b)[i] = a[i]
            \/ i - Len(a) \in 1 .. Len(b) /\ (a \o b)[i] = b[i - Len(a)]
  BY <1>1
<1>3. /\ ToSet(a) = {a[i] : i \in 1 .. Len(a)} /\ KeysOf(a) = {a[i].key : i \in 1 .. Len(a)}
      /\ ToSet(b) = {b[i] : i \in 1 .. Len(b)} /\ KeysOf(b) = {b[i].key : i \in 1 .. Len(b)}
  BY ListFacts
<1> DEFINE ab == a \o b
<1> HIDE DEF ab
<1>4. /\ ToSet(ab) = {ab[i] : i \in 1 .. Len(ab)} /\ KeysOf(ab) = {ab[i].key : i \in 1 .. Len(ab)}
  <2>1. ab \in Seq(T)
    BY <1>1 DEF ab
  <2> QED BY <2>1, ListFacts
<1>5. /\ \A i \in 1 .. Len(a) : i \in 1 .. Len(ab) /\ ab[i] = a[i]
      /\ \A i \in 1 .. Len(b) : i + Len(a) \in 1 .. Len(ab) /\ ab[i + Len(a)] = b[i]
      /\ \A i \in 1 .. Len(ab) : \/ i \in 1 .. Len(a) /\ ab[i] = a[i]
                                 \/ i - Len(a) \in 1 .. Len(b) /\ ab[i] = b[i - Len(a)]
  BY <1>2 DEF ab
<1>6. ToSet(ab) = ToSet(a) \cup ToSet(b)
  BY <1>3, <1>4, <1>5
<1>7. KeysOf(ab) = KeysOf(a) \cup KeysOf(b)
  <2>1. KeysOf(ab) \subseteq KeysOf(a) \cup KeysOf(b)
    BY <1>3, <1>4, <1>5
  <2>2. KeysOf(a) \subseteq KeysOf(ab)
    BY <1>3, <1>4, <1>5
  <2>3. KeysOf(b) \subseteq KeysOf(ab)
    BY <1>3, <1>4, <1>5
  <2> QED BY <2>1, <2>2, <2>3
<1> QED BY <1>1, <1>6, <1>7 DEF ab

LEMMA JoinedProper ==
    ASSUME NEW a, NEW b, Proper(a), Proper(b), KeysOf(a) \cap KeysOf(b) = {}
    PROVE  Proper(a \o b)
<1>1. a \in Seq(Entry) /\ b \in Seq(Entry)
  BY DEF Proper
<1>2. /\ a \o b \in Seq(Entry) /\ Len(a \o b) = Len(a) + Len(b)
      /\ Len(a) \in Nat /\ Len(b) \in Nat
      /\ \A i \in 1 .. Len(a) + Len(b) :
            (a \o b)[i] = IF i <= Len(a) THEN a[i] ELSE b[i - Len(a)]
  BY <1>1, ConcatProperties, LenProperties
<1>3. /\ \A i \in 1 .. Len(a) : a[i].key \in KeysOf(a)
      /\ \A i \in 1 .. Len(b) : b[i].key \in KeysOf(b)
  BY <1>1, ListFacts
<1> DEFINE ab == a \o b
<1> HIDE DEF ab
<1>4. \A i \in 1 .. Len(ab) : \/ i \in 1 .. Len(a) /\ ab[i] = a[i]
                              \/ i - Len(a) \in 1 .. Len(b) /\ ab[i] = b[i - Len(a)]
  BY <1>2 DEF ab
<1>5. ASSUME NEW i \in 1 .. Len(ab), NEW j \in 1 .. Len(ab), ab[i].key = ab[j].key
      PROVE  i = j
  <2>1. CASE i \in 1 .. Len(a) /\ ab[i] = a[i] /\ j \in 1 .. Len(a) /\ ab[j] = a[j]
    BY <1>5, <2>1 DEF Proper, OneEach
  <2>2. CASE i \in 1 .. Len(a) /\ ab[i] = a[i]
             /\ j - Len(a) \in 1 .. Len(b) /\ ab[j] = b[j - Len(a)]
    BY <1>3, <1>5, <2>2
  <2>3. CASE j \in 1 .. Len(a) /\ ab[j] = a[j]
             /\ i - Len(a) \in 1 .. Len(b) /\ ab[i] = b[i - Len(a)]
    BY <1>3, <1>5, <2>3
  <2>4. CASE i - Len(a) \in 1 .. Len(b) /\ ab[i] = b[i - Len(a)]
             /\ j - Len(a) \in 1 .. Len(b) /\ ab[j] = b[j - Len(a)]
    <3>1. i - Len(a) = j - Len(a)
      BY <1>5, <2>4 DEF Proper, OneEach
    <3> QED BY <1>2, <3>1
  <2> QED BY <1>4, <2>1, <2>2, <2>3, <2>4
<1> QED BY <1>2, <1>5 DEF Proper, OneEach, ab

(* A list whose counts alone are changed.                                   *)
Recounted(new, old) ==
    /\ new \in Seq(Entry) /\ Len(new) = Len(old)
    /\ \A i \in 1 .. Len(old) : new[i].key = old[i].key /\ new[i].up = old[i].up

LEMMA RecountedIs ==
    ASSUME NEW old \in Seq(Entry), NEW new, Recounted(new, old)
    PROVE  /\ OneEach(old) => Proper(new)
           /\ KeysOf(new) = KeysOf(old)
           /\ (Reachable(new) # <<>> <=> Reachable(old) # <<>>)
<1>1. KeysOf(new) = KeysOf(old)
  <2>1. /\ KeysOf(old) = {old[i].key : i \in 1 .. Len(old)}
        /\ KeysOf(new) = {new[i].key : i \in 1 .. Len(new)}
    BY ListFacts DEF Recounted
  <2> QED BY <2>1 DEF Recounted
<1>2. OneEach(old) => Proper(new)
  BY DEF Recounted, Proper, OneEach
<1>3. Reachable(new) # <<>> <=> Reachable(old) # <<>>
  BY ReachableIs DEF Recounted
<1> QED BY <1>1, <1>2, <1>3

-------------------------------------------------------------------------------
(* The kinds of the variables.                                             *)

Counts == UNION {[D -> Nat] : D \in SUBSET Keys}

States == [ranked : Seq(Entry), refreshing : BOOLEAN, error : BOOLEAN, counts : Counts]

Candidate == [key : Keys, src : Sources]

Answers == [src : Sources, ok : BOOLEAN]

Jobs ==
    [config : Settings \cup {NoPrint}, previous : States, top : SUBSET Keys,
     phase : {"none", "direct", "retry", "fallback"},
     waiting : SUBSET Sources, arrived : Seq(Answers), todo : SUBSET Candidate,
     call : Seq(Entry), halfSent : BOOLEAN, fetched : SUBSET Keys, ranked : Seq(Entry),
     seen : SUBSET Keys, failed : SUBSET Sources, successes : Nat,
     errors : SUBSET (Sources \cup {0})]

Tables == [rows : [Keys -> Entry \cup {NoRow}], stable : SUBSET Keys]

(* What may be announced to the forwarder: a list of working entries that   *)
(* names no key twice and is not empty.                                     *)
Working(list) == Proper(list) /\ list # <<>> /\ \A i \in 1 .. Len(list) : list[i].up

Announced ==
    {e \in [kind : {"Found"}, list : Seq(Entry), topN : Nat \ {0}]
             \cup [kind : {"Snapshot"}, list : Seq(Entry)] : Working(e.list)}

Pcs == {"idle", "fetch", "probe", "retry", "fallback", "join", "persist", "top",
        "clean", "publish", "handoff"}

ConfigTyped ==
    /\ file \in Settings \cup {Invalid} /\ watched \in Settings /\ live \in Settings
    /\ watcher \in WatcherStates /\ watchNew \in BOOLEAN

StateTyped == state \in States /\ OneEach(state.ranked) /\ Proper(shared)

RowsTyped(d) == d \in Tables /\ \A k \in Keys : d.rows[k] # NoRow => d.rows[k].key = k

JobTyped(j) ==
    /\ j \in Jobs
    /\ OneEach(j.ranked) /\ OneEach(j.call) /\ OneEach(j.previous.ranked)

KeyedTodo(todo) == \A a, b \in todo : a.key = b.key => a = b

KeysIn(todo) == {c.key : c \in todo}

(* What is ranked, tested in this call and left to test are different keys, *)
(* all of them seen.                                                       *)
Apart(j) ==
    /\ KeyedTodo(j.todo)
    /\ KeysOf(j.ranked) \cap KeysOf(j.call) = {}
    /\ KeysOf(j.ranked) \cap KeysIn(j.todo) = {}
    /\ KeysOf(j.call) \cap KeysIn(j.todo) = {}
    /\ KeysOf(j.ranked) \cup KeysOf(j.call) \cup KeysIn(j.todo) \subseteq j.seen

PcTyped ==
    /\ pc \in Pcs
    /\ pc \notin {"idle", "handoff"} => job.config \in Settings
    /\ pc \in {"fetch", "probe"} => job.phase \in {"direct", "retry", "fallback"}
    /\ pc # "probe" => job.todo = {} /\ job.call = <<>>
    /\ pc = "fetch" /\ job.phase = "direct" => job.seen = {}

Typed ==
    /\ ConfigTyped /\ StateTyped /\ RowsTyped(db) /\ JobTyped(job) /\ Apart(job)
    /\ PcTyped /\ events \in Seq(Announced)

-------------------------------------------------------------------------------
(* What the operators of the model return.                                 *)

LEMMA SettingIs ==
    ASSUME NEW c \in Settings
    PROVE  /\ c.topN \in Nat \ {0} /\ c.subs \subseteq Sources
           /\ {c.asap, c.stability, c.scanAll, c.cacheOnly, c.active} \subseteq BOOLEAN
BY RefreshAssumption DEF Configurations

LEMMA NothingIsTyped ==
    /\ Proper(<<>>) /\ KeysOf(<<>>) = {} /\ ToSet(<<>>) = {}
    /\ <<>> \in Counts /\ EmptyState \in States
<1>1. <<>> \in Seq(Entry) /\ Len(<<>>) = 0
  OBVIOUS
<1>2. Proper(<<>>)
  BY <1>1 DEF Proper, OneEach
<1>3. KeysOf(<<>>) = {} /\ ToSet(<<>>) = {}
  BY DEF KeysOf, ToSet
<1>4. <<>> \in Counts
  <2>1. <<>> \in [{} -> Nat]
    OBVIOUS
  <2> QED BY <2>1 DEF Counts
<1> QED BY <1>1, <1>2, <1>3, <1>4 DEF EmptyState, States

LEMMA CountIs ==
    ASSUME NEW c \in Counts
    PROVE  DOMAIN c \subseteq Keys /\ \A k \in DOMAIN c : c[k] \in Nat
BY DEF Counts

LEMMA CountsMade ==
    ASSUME NEW D \in SUBSET Keys, NEW f \in [D -> Nat]
    PROVE  f \in Counts
BY DEF Counts

LEMMA LoadIs ==
    ASSUME RowsTyped(db), NEW n \in Nat
    PROVE  Proper(load_ranked_configs(n))
<1> DEFINE online == {db.rows[k] : k \in {k \in Rows(db) : db.rows[k].up}}
           f == InOrder(online, StoredBefore)
<1>1. /\ \A k \in Rows(db) : k \in Keys /\ db.rows[k] \in Entry /\ db.rows[k].key = k
      /\ db.rows \in [Keys -> Entry \cup {NoRow}]
  BY DEF RowsTyped, Tables, Rows
<1>2. online \in SUBSET Entry /\ KeyedBy(online)
  BY <1>1 DEF KeyedBy
<1>3. IsFiniteSet(online)
  <2>1. IsFiniteSet({db.rows[k] : k \in Keys})
    <3> DEFINE r == db.rows
               T == Entry \cup {NoRow}
    <3>1. r \in [Keys -> T] /\ IsFiniteSet(Keys)
      BY <1>1, RefreshAssumption
    <3> HIDE DEF r, T
    <3>2. IsFiniteSet({r[k] : k \in Keys})
      BY <3>1, FiniteImage
    <3> QED BY <3>2 DEF r
  <2>2. online \in SUBSET {db.rows[k] : k \in Keys}
    BY <1>1
  <2> HIDE DEF online
  <2> QED BY <2>1, <2>2, FS_Subset
<1>4. load_ranked_configs(n) = Take(f, n)
  BY DEF load_ranked_configs
<1> HIDE DEF online
<1>5. Listed(f, online)
  BY <1>2, <1>3, StoredLists
<1> HIDE DEF f
<1>6. Proper(f)
  BY <1>2, <1>5, ListedProper
<1> QED BY <1>4, <1>6, TakeProper

LEMMA CandidatesIs ==
    ASSUME NEW list, Proper(list)
    PROVE  /\ Candidates(list) \in SUBSET Candidate
           /\ KeysIn(Candidates(list)) = KeysOf(list)
           /\ KeyedTodo(Candidates(list))
<1>1. /\ DOMAIN list = 1 .. Len(list)
      /\ KeysOf(list) = {list[i].key : i \in 1 .. Len(list)}
      /\ \A i \in 1 .. Len(list) : list[i] \in Entry
  BY ListFacts, ElementOfSeq DEF Proper
<1>2. Candidates(list) = {[key |-> list[i].key, src |-> list[i].src] : i \in 1 .. Len(list)}
  BY <1>1 DEF Candidates
<1>3. Candidates(list) \in SUBSET Candidate
  BY <1>1, <1>2 DEF Candidate, Entry
<1>4. KeysIn(Candidates(list)) = KeysOf(list)
  <2>1. KeysIn(Candidates(list)) \subseteq KeysOf(list)
    BY <1>1, <1>2 DEF KeysIn
  <2>2. ASSUME NEW i \in 1 .. Len(list) PROVE list[i].key \in KeysIn(Candidates(list))
    <3>1. [key |-> list[i].key, src |-> list[i].src] \in Candidates(list)
      BY <1>2
    <3> QED BY <3>1 DEF KeysIn
  <2> QED BY <1>1, <2>1, <2>2
<1>5. \A i, j \in 1 .. Len(list) : list[i].key = list[j].key => i = j
  BY DEF Proper, OneEach
<1>6. KeyedTodo(Candidates(list))
  BY <1>2, <1>5 DEF KeyedTodo
<1> QED BY <1>3, <1>4, <1>6

LEMMA AnsweredIs ==
    ASSUME NEW arrived \in Seq(Answers)
    PROVE  /\ Len(Answered(arrived)) \in Nat
           /\ ToSet(Answered(arrived)) \in SUBSET Sources
           /\ IsFiniteSet(ToSet(Answered(arrived)))
<1> DEFINE places == {i \in DOMAIN arrived : arrived[i].ok}
           good   == Filtered(arrived, places)
<1>1. places \in SUBSET (1 .. Len(arrived))
  BY ListFacts
<1>2. Answered(arrived) = [i \in DOMAIN good |-> good[i].src]
  BY DEF Answered
<1> HIDE DEF places
<1>3. good \in Seq(Answers)
  BY <1>1, FilteredIs
<1> HIDE DEF good
<1>4. Len(good) \in Nat /\ DOMAIN good = 1 .. Len(good) /\ \A i \in 1 .. Len(good) : good[i] \in Answers
  BY <1>3, LenProperties, ElementOfSeq
<1>5. Answered(arrived) \in [1 .. Len(good) -> Sources]
  BY <1>2, <1>4 DEF Answers
<1>6. Answered(arrived) \in Seq(Sources)
  BY <1>4, <1>5, SeqDef
<1> QED BY <1>6, ListFacts

(* An entry belongs to the first source that lists it, of those that        *)
(* answered, and none is lost.                                              *)
LEMMA MergedIs ==
    ASSUME NEW arrived \in Seq(Answers)
    PROVE  /\ FetchMerged(arrived) \in SUBSET Candidate
           /\ \A c \in FetchMerged(arrived) :
                /\ c.src \in ToSet(Answered(arrived))
                /\ \A s \in ToSet(Answered(arrived)) : s < c.src => c.key \notin Doc[s]
           /\ KeyedTodo(FetchMerged(arrived))
           /\ \A s \in ToSet(Answered(arrived)) : Doc[s] \subseteq KeysIn(FetchMerged(arrived))
<1> DEFINE A == ToSet(Answered(arrived))
           order == InOrder(A, <)
<1>1. A \in SUBSET Sources /\ IsFiniteSet(A) /\ A \in SUBSET Nat
  BY AnsweredIs, RefreshAssumption
<1> HIDE DEF A
<1>2. /\ Listed(order, A)
      /\ \A m, n \in 1 .. Len(order) : m < n => order[m] < order[n]
  BY <1>1, NumbersList
<1>3. FetchMerged(arrived) = Merged(order)
  BY DEF FetchMerged, A
<1> HIDE DEF order
<1>4. /\ Len(order) \in Nat /\ DOMAIN order = 1 .. Len(order) /\ ToSet(order) = A
      /\ \A i \in 1 .. Len(order) : order[i] \in A
      /\ \A s \in A : \E i \in 1 .. Len(order) : order[i] = s
  <2>1. order \in Seq(A)
    BY <1>2 DEF Listed
  <2>2. /\ Len(order) \in Nat /\ DOMAIN order = 1 .. Len(order)
        /\ \A i \in 1 .. Len(order) : order[i] \in A
        /\ ToSet(order) = {order[i] : i \in 1 .. Len(order)}
    BY <2>1, ListFacts, ElementOfSeq
  <2>3. \A s \in A : \E i \in 1 .. Len(order) : order[i] = s
    BY <1>2 DEF Listed
  <2> QED BY <2>2, <2>3
<1>5. ASSUME NEW i \in 1 .. Len(order), NEW j \in 1 .. Len(order)
      PROVE  order[j] < order[i] <=> j < i
  <2>1. order[i] \in Nat /\ order[j] \in Nat
    BY <1>1, <1>4
  <2>2. i = j \/ i < j \/ j < i
    BY <1>4
  <2>3. (i < j => order[i] < order[j]) /\ (j < i => order[j] < order[i])
    BY <1>2
  <2> QED BY <2>1, <2>2, <2>3
<1>6. Merged(order) =
        {c \in [key : Keys, src : A] :
            c.key \in Doc[c.src] /\ \A s \in A : s < c.src => c.key \notin Doc[s]}
  <2>1. ASSUME NEW c \in [key : Keys, src : A]
        PROVE  (\A i, j \in DOMAIN order : c.src = order[i] /\ j < i => c.key \notin Doc[order[j]])
               <=> (\A s \in A : s < c.src => c.key \notin Doc[s])
    BY <1>4, <1>5
  <2> QED BY <1>4, <2>1 DEF Merged
<1>7. Merged(order) \in SUBSET Candidate
  BY <1>1, <1>6 DEF Candidate
<1>8. KeyedTodo(Merged(order))
  <2> SUFFICES ASSUME NEW a \in Merged(order), NEW b \in Merged(order), a.key = b.key
               PROVE  a = b
    BY DEF KeyedTodo
  <2>1. ~(a.src < b.src) /\ ~(b.src < a.src) /\ a.src \in Nat /\ b.src \in Nat
    BY <1>1, <1>6
  <2>2. a.src = b.src
    BY <2>1
  <2> QED BY <1>6, <2>2
<1>9. ASSUME NEW s \in A, NEW k \in Doc[s] PROVE k \in KeysIn(Merged(order))
  <2> DEFINE T == {t \in A : k \in Doc[t]}
  <2>1. T \in SUBSET Nat /\ T # {}
    BY <1>1, <1>9
  <2>2. PICK t \in T : \A u \in T : t <= u
    <3> HIDE DEF T
    <3> QED BY <2>1, LeastOf
  <2>3. k \in Keys
    BY <1>1, RefreshAssumption
  <2> DEFINE c == [key |-> k, src |-> t]
  <2>4. c \in Merged(order)
    <3>1. \A u \in A : u < t => k \notin Doc[u]
      BY <1>1, <2>2
    <3> QED BY <1>6, <2>2, <2>3, <3>1
  <2> QED BY <2>4 DEF KeysIn
<1> QED BY <1>3, <1>6, <1>7, <1>8, <1>9 DEF A

(* The results of a batch: one entry for each of its candidates.            *)
LEMMA ResultsAre ==
    ASSUME NEW batch \in SUBSET Candidate, KeyedTodo(batch), NEW lats \in Measurements(batch)
    PROVE  LET results == InOrder({Outcome(c, lats[c]) : c \in batch}, compare_ranked) IN
           /\ Proper(results) /\ KeysOf(results) = KeysIn(batch)
           /\ ToSet(results) = {Outcome(c, lats[c]) : c \in batch}
<1> DEFINE S == {Outcome(c, lats[c]) : c \in batch}
           results == InOrder(S, compare_ranked)
<1>1. ASSUME NEW c \in batch
      PROVE  lats[c] \in Nat /\ c.key \in Keys /\ c.src \in Sources
  <2>1. c.key \in Keys /\ c.src \in Sources
    BY DEF Candidate
  <2>2. lats[c] \in Lats[c.key] \cup {NoLat}
    BY DEF Measurements
  <2>3. Lats[c.key] \subseteq Nat \ {0}
    BY <2>1, RefreshAssumption
  <2> QED BY <2>1, <2>2, <2>3 DEF NoLat
<1>2. S \in SUBSET Entry
  <2>1. ASSUME NEW c \in batch PROVE Outcome(c, lats[c]) \in Entry
    BY <1>1 DEF Outcome, Entry
  <2> QED BY <2>1
<1>3. \A c \in batch : Outcome(c, lats[c]).key = c.key
  BY DEF Outcome
<1>4. KeyedBy(S)
  BY <1>3 DEF KeyedBy, KeyedTodo
<1>5. IsFiniteSet(S)
  <2> DEFINE of == [k \in KeysIn(batch) |-> CHOOSE c \in batch : c.key = k]
             out == [k \in KeysIn(batch) |-> Outcome(of[k], lats[of[k]])]
  <2>1. \A c \in batch : of[c.key] = c
    BY DEF KeysIn, KeyedTodo
  <2>2. IsFiniteSet(KeysIn(batch))
    <3>1. KeysIn(batch) \in SUBSET Keys
      BY <1>1 DEF KeysIn
    <3> QED BY <3>1, RefreshAssumption, FS_Subset
  <2>3. \A k \in KeysIn(batch) : of[k] \in batch
    BY <2>1 DEF KeysIn
  <2>4. out \in [KeysIn(batch) -> S]
    BY <2>3
  <2> HIDE DEF out
  <2>5. IsFiniteSet({out[k] : k \in KeysIn(batch)})
    BY <2>2, <2>4, FiniteImage
  <2>6. S \in SUBSET {out[k] : k \in KeysIn(batch)}
    <3> SUFFICES ASSUME NEW c \in batch
                 PROVE  Outcome(c, lats[c]) \in {out[k] : k \in KeysIn(batch)}
      OBVIOUS
    <3>1. c.key \in KeysIn(batch)
      BY DEF KeysIn
    <3>2. out[c.key] = Outcome(c, lats[c])
      BY <2>1, <3>1 DEF out
    <3> QED BY <3>1, <3>2
  <2> HIDE DEF S
  <2> QED BY <2>5, <2>6, FS_Subset
<1>6. {e.key : e \in S} = KeysIn(batch)
  <2>1. {e.key : e \in S} \subseteq KeysIn(batch)
    BY <1>3 DEF KeysIn
  <2>2. ASSUME NEW c \in batch PROVE c.key \in {e.key : e \in S}
    <3>1. Outcome(c, lats[c]) \in S
      OBVIOUS
    <3> HIDE DEF S
    <3> QED BY <1>3, <3>1
  <2> QED BY <2>1, <2>2 DEF KeysIn
<1> HIDE DEF S
<1>7. Listed(results, S)
  BY <1>2, <1>4, <1>5, RankedLists
<1> HIDE DEF results
<1>8. Proper(results) /\ ToSet(results) = S /\ KeysOf(results) = {e.key : e \in S}
  BY <1>2, <1>4, <1>7, ListedProper
<1>9. Proper(results) /\ KeysOf(results) = KeysIn(batch) /\ ToSet(results) = S
  BY <1>6, <1>8
<1> QED BY <1>9 DEF results, S

LEMMA WorkingParts ==
    ASSUME NEW list, Proper(list)
    PROVE  /\ Reachable(list) # <<>> => Working(Reachable(list))
           /\ Working(list) => Reachable(list) # <<>>
<1>1. list \in Seq(Entry) /\ OneEach(list)
  BY DEF Proper
<1>2. Working(list) => 1 \in 1 .. Len(list)
  BY <1>1, ListFacts DEF Working
<1> QED BY <1>1, <1>2, ReachableIs DEF Working, Proper

LEMMA WorkingIs ==
    ASSUME NEW list, Proper(list)
    PROVE  Working(list) <=> ToSet(list) # {} /\ \A e \in ToSet(list) : e.up
<1>1. /\ Len(list) \in Nat /\ (list = <<>> <=> Len(list) = 0)
      /\ ToSet(list) = {list[i] : i \in 1 .. Len(list)}
  BY ListFacts DEF Proper
<1>2. Len(list) # 0 <=> \E i \in 1 .. Len(list) : TRUE
  <2>1. Len(list) # 0 => 1 \in 1 .. Len(list)
    BY <1>1
  <2> QED BY <1>1, <2>1
<1> QED BY <1>1, <1>2 DEF Working

LEMMA TakeWorking ==
    ASSUME NEW list, Working(list), NEW n \in Nat \ {0}
    PROVE  Working(Take(list, n))
<1>1. list \in Seq(Entry) /\ Proper(list) /\ Len(list) \in Nat /\ Len(list) # 0
  BY ListFacts DEF Working, Proper
<1>2. Proper(Take(list, n))
  BY <1>1, TakeProper
<1>3. /\ Len(Take(list, n)) = IF n < Len(list) THEN n ELSE Len(list)
      /\ ToSet(Take(list, n)) \subseteq ToSet(list)
      /\ Take(list, n) \in Seq(Entry)
  BY <1>1, TakeIs
<1>4. Take(list, n) # <<>>
  BY <1>1, <1>3, ListFacts
<1>5. ToSet(Take(list, n)) # {}
  <2>1. ToSet(Take(list, n)) = {Take(list, n)[i] : i \in 1 .. Len(Take(list, n))}
    BY <1>3, ListFacts
  <2>2. 1 \in 1 .. Len(Take(list, n))
    BY <1>1, <1>3
  <2> QED BY <2>1, <2>2
<1> QED BY <1>1, <1>2, <1>3, <1>5, WorkingIs

(* The first half is sent only when there is something in it.               *)
LEMMA HalfIs ==
    ASSUME NEW found, Proper(found), SendsHalf(found), job.config \in Settings
    PROVE  Working(HalfSnapshot(found))
<1> DEFINE up    == Sorted(Reachable(found), compare_ranked)
           old   == {i \in 1 .. Len(up) : up[i].key \in job.top}
           new   == {i \in 1 .. Len(up) : up[i].key \notin job.top}
           first == Filtered(up, old)
           rest  == Filtered(up, new)
           half  == job.config.topN \div 2
<1>1. half \in Nat \ {0} /\ Len(Reachable(found)) >= half
  <2>1. job.config.topN \in Nat /\ half > 0
    BY SettingIs DEF SendsHalf
  <2> QED BY <2>1 DEF SendsHalf
<1>2. Proper(Reachable(found)) /\ Reachable(found) # <<>>
  <2>1. Proper(Reachable(found))
    BY ReachableIs DEF Proper
  <2>2. Len(Reachable(found)) # 0
    <3>1. Len(Reachable(found)) \in Nat
      BY <2>1, ListFacts DEF Proper
    <3> QED BY <1>1, <3>1
  <2> QED BY <2>1, <2>2, ListFacts DEF Proper
<1>3. Working(Reachable(found))
  BY <1>2, WorkingParts
<1>4. Proper(up) /\ ToSet(up) = ToSet(Reachable(found))
  BY <1>2, SortedIs
<1>5. Working(up)
  BY <1>2, <1>3, <1>4, WorkingIs
<1>6. HalfSnapshot(found) = Take(first \o rest, half)
  <2>1. DOMAIN up = 1 .. Len(up)
    BY <1>4, ListFacts DEF Proper
  <2> QED BY <2>1 DEF HalfSnapshot
<1> HIDE DEF up, half
<1>7. /\ ToSet(up) = {up[i] : i \in 1 .. Len(up)}
      /\ old \in SUBSET (1 .. Len(up)) /\ new \in SUBSET (1 .. Len(up))
  BY <1>4, ListFacts DEF Proper
<1>8. /\ Proper(first) /\ ToSet(first) = {up[i] : i \in old}
      /\ Proper(rest) /\ ToSet(rest) = {up[i] : i \in new}
  <2> HIDE DEF old, new
  <2> QED BY <1>4, <1>7, FilteredProper
<1>9. ToSet(first) \cup ToSet(rest) = ToSet(up)
  BY <1>7, <1>8
<1>10. KeysOf(first) \cap KeysOf(rest) = {}
  <2> HIDE DEF first, rest
  <2>1. KeysOf(first) = {e.key : e \in ToSet(first)} /\ KeysOf(rest) = {e.key : e \in ToSet(rest)}
    BY <1>8, KeysAre DEF Proper
  <2>2. (\A e \in ToSet(first) : e.key \in job.top) /\ (\A e \in ToSet(rest) : e.key \notin job.top)
    BY <1>8
  <2> QED BY <2>1, <2>2
<1> HIDE DEF first, rest
<1>11. Proper(first \o rest)
  BY <1>8, <1>10, JoinedProper
<1>12. ToSet(first \o rest) = ToSet(up)
  <2>1. first \in Seq(Entry) /\ rest \in Seq(Entry)
    BY <1>8 DEF Proper
  <2>2. ToSet(first \o rest) = ToSet(first) \cup ToSet(rest)
    BY <2>1, JoinedLists
  <2> QED BY <1>9, <2>2
<1>13. Working(first \o rest)
  BY <1>4, <1>5, <1>11, <1>12, WorkingIs
<1> QED BY <1>1, <1>6, <1>13, TakeWorking

(* Working entries added to what is published: still working entries.       *)
LEMMA AppendedIs ==
    ASSUME StateTyped, NEW list, Working(list), NEW n \in Nat \ {0}
    PROVE  Working(Appended(list, n))
<1> DEFINE both == Reachable(state.ranked) \o Reachable(list)
<1>1. state.ranked \in Seq(Entry) /\ list \in Seq(Entry)
  BY DEF StateTyped, States, Working, Proper
<1>2. /\ Reachable(state.ranked) \in Seq(Entry) /\ Reachable(list) \in Seq(Entry)
      /\ \A e \in ToSet(Reachable(state.ranked)) \cup ToSet(Reachable(list)) : e.up
  BY <1>1, ReachableIs
<1>3. both \in Seq(Entry) /\ \A e \in ToSet(both) : e.up
  BY <1>2, JoinedLists
<1>4. both # <<>>
  <2>1. Reachable(list) # <<>>
    BY WorkingParts DEF Working
  <2>2. ToSet(Reachable(list)) # {}
    BY <2>1, <1>2, WorkingParts, WorkingIs DEF Working, Proper
  <2>3. ToSet(both) # {}
    BY <1>2, <2>2, JoinedLists
  <2> HIDE DEF both
  <2> QED BY <2>3, NothingIsTyped
<1> HIDE DEF both
<1>5. /\ Proper(Distinct(both)) /\ ToSet(Distinct(both)) \subseteq ToSet(both)
      /\ Distinct(both) # <<>>
  BY <1>3, <1>4, DistinctIs
<1>6. Working(Distinct(both))
  <2>1. Len(Distinct(both)) \in Nat /\ \A i \in 1 .. Len(Distinct(both)) :
            Distinct(both)[i] \in ToSet(Distinct(both))
    BY <1>5, ListFacts DEF Proper
  <2> QED BY <1>3, <1>5, <2>1 DEF Working
<1> QED BY <1>6, TakeWorking DEF Appended, both

LEMMA WithCountsIs ==
    ASSUME StateTyped, NEW list \in Seq(Entry)
    PROVE  Recounted(WithCounts(list), list)
<1>1. Len(list) \in Nat /\ DOMAIN list = 1 .. Len(list) /\ \A i \in 1 .. Len(list) : list[i] \in Entry
  BY ListFacts, ElementOfSeq
<1>2. \A k : Count(k) \in Nat
  <2>1. \A k \in DOMAIN state.counts : state.counts[k] \in Nat
    BY CountIs DEF StateTyped, States
  <2> QED BY <2>1 DEF Count
<1> DEFINE stab(i) == IF ~list[i].up THEN Count(list[i].key)
                      ELSE IF list[i].key \in job.top THEN Count(list[i].key) + 1 ELSE 1
           new == WithCounts(list)
<1>3. \A i \in 1 .. Len(list) : stab(i) \in Nat
  BY <1>2
<1>4. new = [i \in 1 .. Len(list) |-> [list[i] EXCEPT !.stab = stab(i)]]
  BY <1>1 DEF WithCounts
<1> HIDE DEF stab, new
<1>5. ASSUME NEW i \in 1 .. Len(list)
      PROVE  new[i] \in Entry /\ new[i].key = list[i].key /\ new[i].up = list[i].up
  BY <1>1, <1>3, <1>4 DEF Entry
<1>6. new \in [1 .. Len(list) -> Entry]
  BY <1>4, <1>5
<1>7. new \in Seq(Entry) /\ Len(new) = Len(list)
  <2>1. new \in Seq(Entry)
    BY <1>1, <1>6, SeqDef
  <2>2. 1 .. Len(new) = 1 .. Len(list) /\ Len(new) \in Nat
    BY <1>6, <2>1, LenProperties
  <2> QED BY <1>1, <2>1, <2>2, SameEnd
<1> QED BY <1>5, <1>7 DEF Recounted, new

LEMMA StabilisedIs ==
    ASSUME NEW list \in Seq(Entry), NEW counts \in Counts
    PROVE  Recounted(Stabilised(list, counts), list)
<1>1. Len(list) \in Nat /\ DOMAIN list = 1 .. Len(list) /\ \A i \in 1 .. Len(list) : list[i] \in Entry
  BY ListFacts, ElementOfSeq
<1> DEFINE stab(i) == IF list[i].key \in DOMAIN counts THEN counts[list[i].key] ELSE 0
           new == Stabilised(list, counts)
<1>3. \A i \in 1 .. Len(list) : stab(i) \in Nat
  BY CountIs
<1>4. new = [i \in 1 .. Len(list) |-> [list[i] EXCEPT !.stab = stab(i)]]
  BY <1>1 DEF Stabilised
<1> HIDE DEF stab, new
<1>5. ASSUME NEW i \in 1 .. Len(list)
      PROVE  new[i] \in Entry /\ new[i].key = list[i].key /\ new[i].up = list[i].up
  BY <1>1, <1>3, <1>4 DEF Entry
<1>6. new \in [1 .. Len(list) -> Entry]
  BY <1>4, <1>5
<1>7. new \in Seq(Entry) /\ Len(new) = Len(list)
  <2>1. new \in Seq(Entry)
    BY <1>1, <1>6, SeqDef
  <2>2. 1 .. Len(new) = 1 .. Len(list) /\ Len(new) \in Nat
    BY <1>6, <2>1, LenProperties
  <2> QED BY <1>1, <2>1, <2>2, SameEnd
<1> QED BY <1>5, <1>7 DEF Recounted, new

LEMMA NewCountsIs ==
    ASSUME JobTyped(job)
    PROVE  NewCounts \in Counts
<1> DEFINE old == job.previous.counts
           Was(k) == IF k \in DOMAIN old THEN old[k] ELSE 0
           up == KeysOf(Reachable(job.ranked))
           D  == up \cup (KeysOf(job.ranked) \cap DOMAIN old)
<1>1. old \in Counts /\ job.ranked \in Seq(Entry)
  BY DEF JobTyped, Jobs, States
<1>2. \A k : Was(k) \in Nat
  BY <1>1, CountIs
<1>3. D \in SUBSET Keys
  <2>1. Reachable(job.ranked) \in Seq(Entry)
    BY <1>1, ReachableIs
  <2> QED BY <1>1, <2>1, KeysAre
<1>4. NewCounts = [k \in D |-> IF k \in up THEN Was(k) + 1 ELSE Was(k)]
  BY DEF NewCounts
<1> HIDE DEF D, up, old, Was
<1>5. NewCounts \in [D -> Nat]
  BY <1>2, <1>4
<1> QED BY <1>3, <1>5, CountsMade

(* Nothing is lost between what a run measured and what it publishes.       *)
LEMMA FinalRankingIs ==
    ASSUME NEW list \in Seq(Entry), NEW counts \in Counts
    PROVE  /\ Proper(FinalRanking(list, counts))
           /\ KeysOf(FinalRanking(list, counts)) = KeysOf(list)
<1> DEFINE counted == Stabilised(Distinct(list), counts)
<1>1. Proper(Distinct(list)) /\ KeysOf(Distinct(list)) = KeysOf(list)
  BY DistinctIs
<1>2. Recounted(counted, Distinct(list))
  BY <1>1, StabilisedIs DEF Proper
<1>3. Proper(counted) /\ KeysOf(counted) = KeysOf(list)
  BY <1>1, <1>2, RecountedIs DEF Proper
<1> HIDE DEF counted
<1>4. /\ Proper(Sorted(counted, compare_stability_ranked))
      /\ KeysOf(Sorted(counted, compare_stability_ranked)) = KeysOf(list)
  BY <1>3, SortedIs
<1> QED BY <1>3, <1>4 DEF FinalRanking, counted

LEMMA NoRowIsNone ==
    \A e \in Entry : e # NoRow
<1>1. \A e \in Entry : "key" \in DOMAIN e
  BY DEF Entry
<1>2. DOMAIN NoRow = {"none"}
  BY DEF NoRow
<1> QED BY <1>1, <1>2

(* Every entry of a list is stored as it is.                                *)
LEMMA UpsertedIs ==
    ASSUME NEW list, Proper(list), RowsTyped(db)
    PROVE  /\ RowsTyped([db EXCEPT !.rows = Upserted(list)])
           /\ Upserted(list) \in [Keys -> Entry \cup {NoRow}]
           /\ \A e \in ToSet(list) : e.key \in Keys /\ Upserted(list)[e.key] = e
<1>1. /\ ToSet(list) \in SUBSET Entry /\ KeysOf(list) = {e.key : e \in ToSet(list)}
      /\ KeyedBy(ToSet(list))
  BY KeysAre, KeyedEntries DEF Proper
<1>2. \A k \in KeysOf(list) : \E e \in ToSet(list) : e.key = k
  BY <1>1
<1> DEFINE up == Upserted(list)
<1>3. \A k \in Keys : up[k] = IF k \in KeysOf(list)
                              THEN CHOOSE e \in ToSet(list) : e.key = k ELSE db.rows[k]
  BY DEF Upserted
<1>4. DOMAIN up = Keys /\ up = [k \in Keys |-> up[k]]
  BY DEF Upserted
<1> HIDE DEF up
<1>5. ASSUME NEW k \in Keys PROVE /\ up[k] \in Entry \cup {NoRow}
                                  /\ up[k] # NoRow => up[k].key = k
  <2>1. CASE k \in KeysOf(list)
    <3>1. up[k] \in ToSet(list) /\ up[k].key = k
      BY <1>2, <1>3, <2>1
    <3> QED BY <1>1, <3>1
  <2>2. CASE k \notin KeysOf(list)
    BY <1>3, <2>2 DEF RowsTyped, Tables
  <2> QED BY <2>1, <2>2
<1>6. up \in [Keys -> Entry \cup {NoRow}]
  BY <1>4, <1>5
<1>7. RowsTyped([db EXCEPT !.rows = up])
  BY <1>5, <1>6 DEF RowsTyped, Tables
<1>8. ASSUME NEW e \in ToSet(list) PROVE e.key \in Keys /\ up[e.key] = e
  <2>1. e.key \in KeysOf(list) /\ e.key \in Keys
    BY <1>1 DEF Entry
  <2>2. up[e.key] \in ToSet(list) /\ up[e.key].key = e.key
    BY <1>2, <1>3, <2>1
  <2> QED BY <1>1, <2>1, <2>2 DEF KeyedBy
<1> QED BY <1>6, <1>7, <1>8 DEF up

-------------------------------------------------------------------------------
(* Every step keeps the kinds.                                             *)

LEMMA NoJobTyped ==
    JobTyped(NoJob) /\ Apart(NoJob) /\ NoJob.todo = {} /\ NoJob.call = <<>>
<1>1. /\ Proper(<<>>) /\ KeysOf(<<>>) = {} /\ EmptyState \in States
      /\ <<>> \in Seq(Answers) /\ <<>> \in Seq(Entry)
  BY NothingIsTyped
<1>2. NoJob \in Jobs
  BY <1>1 DEF NoJob, Jobs
<1>3. /\ NoJob.ranked = <<>> /\ NoJob.call = <<>> /\ NoJob.previous.ranked = <<>>
      /\ NoJob.todo = {} /\ NoJob.seen = {}
  BY DEF NoJob, EmptyState
<1>4. KeysIn({}) = {}
  BY DEF KeysIn
<1> QED BY <1>1, <1>2, <1>3, <1>4 DEF JobTyped, Apart, KeyedTodo, Proper

LEMMA TypedInit ==
    Init => Typed
<1> SUFFICES ASSUME Init PROVE Typed
  OBVIOUS
<1>1. ConfigTyped
  BY RefreshAssumption DEF Init, ConfigTyped, WatcherStates
<1>2. StateTyped
  BY NothingIsTyped DEF Init, StateTyped, EmptyState, Proper
<1>3. RowsTyped(db)
  BY DEF Init, NoRows, RowsTyped, Tables
<1>4. JobTyped(job) /\ Apart(job) /\ job.todo = {} /\ job.call = <<>>
  BY NoJobTyped DEF Init
<1>5. PcTyped
  BY <1>4 DEF Init, PcTyped, Pcs
<1>6. events \in Seq(Announced)
  BY DEF Init
<1> QED BY <1>1, <1>2, <1>3, <1>4, <1>5, <1>6 DEF Typed

(* The beginning of a refresh.                                             *)
LEMMA StartTyped ==
    ASSUME Typed, pc = "idle", NEW c \in Settings, StartRefresh(c),
           UNCHANGED <<file, watcher, watched>>, watchNew' \in BOOLEAN
    PROVE  Typed'
<1> DEFINE cached == load_ranked_configs(c.topN)
           begun == [NoJob EXCEPT !.config = c, !.previous = state, !.top = PreviousTop(c),
                                  !.phase = "direct"]
           withCache == [begun EXCEPT
                            !.todo = Candidates(cached), !.fetched = KeysOf(cached),
                            !.seen = KeysOf(cached),
                            !.errors = IF cached = <<>> THEN {0} ELSE {},
                            !.successes = IF cached = <<>> THEN 0
                                          ELSE Cardinality(c.subs)]
           withFetch == [begun EXCEPT !.waiting = c.subs]
<1>1. c.topN \in Nat /\ c.subs \in SUBSET Sources /\ c.asap \in BOOLEAN
  BY SettingIs
<1>2. Proper(cached)
  BY <1>1, LoadIs DEF Typed
<1>3. Cardinality(c.subs) \in Nat
  BY <1>1, RefreshAssumption, FS_Subset, FS_CardinalityType
<1>4. PreviousTop(c) \in SUBSET Keys
  BY DEF PreviousTop, Typed, RowsTyped, Tables
<1>5. state \in States /\ OneEach(state.ranked)
  BY DEF Typed, StateTyped
<1>6. /\ NoJob \in Jobs /\ NoJob.ranked = <<>> /\ NoJob.call = <<>> /\ NoJob.todo = {}
      /\ NoJob.seen = {}
      /\ DOMAIN NoJob = {"config", "previous", "top", "phase", "waiting", "arrived", "todo",
                         "call", "halfSent", "fetched", "ranked", "seen", "failed",
                         "successes", "errors"}
  BY NoJobTyped DEF NoJob, JobTyped
<1>7. /\ begun \in Jobs /\ begun.ranked = <<>> /\ begun.call = <<>> /\ begun.todo = {}
      /\ begun.seen = {} /\ begun.previous = state /\ begun.config = c /\ begun.phase = "direct"
  BY <1>4, <1>5, <1>6 DEF Jobs
<1>8. /\ Proper(<<>>) /\ KeysOf(<<>>) = {} /\ KeysIn({}) = {}
  BY NothingIsTyped DEF KeysIn
<1>9. /\ Candidates(cached) \in SUBSET Candidate /\ KeysIn(Candidates(cached)) = KeysOf(cached)
      /\ KeyedTodo(Candidates(cached)) /\ KeysOf(cached) \in SUBSET Keys
  BY <1>2, CandidatesIs, KeysAre DEF Proper
<1> HIDE DEF cached, begun
<1>10. /\ JobTyped(withCache) /\ Apart(withCache) /\ withCache.config = c
       /\ withCache.phase = "direct" /\ withCache.call = <<>>
  <2>1. /\ withCache \in Jobs /\ withCache.ranked = <<>> /\ withCache.call = <<>>
        /\ withCache.todo = Candidates(cached) /\ withCache.seen = KeysOf(cached)
        /\ withCache.previous = state /\ withCache.config = c /\ withCache.phase = "direct"
    BY <1>3, <1>7, <1>9 DEF Jobs
  <2> HIDE DEF withCache
  <2> QED BY <1>5, <1>8, <1>9, <2>1 DEF JobTyped, Apart, Proper
<1>11. /\ JobTyped(withFetch) /\ Apart(withFetch) /\ withFetch.config = c
       /\ withFetch.phase = "direct" /\ withFetch.call = <<>> /\ withFetch.todo = {}
       /\ withFetch.seen = {}
  <2>1. /\ withFetch \in Jobs /\ withFetch.ranked = <<>> /\ withFetch.call = <<>>
        /\ withFetch.todo = {} /\ withFetch.seen = {}
        /\ withFetch.previous = state /\ withFetch.config = c /\ withFetch.phase = "direct"
    BY <1>1, <1>7 DEF Jobs
  <2> HIDE DEF withFetch
  <2> QED BY <1>5, <1>8, <2>1 DEF JobTyped, Apart, KeyedTodo, Proper
<1>12. \/ pc' = "probe" /\ job' = withCache
       \/ pc' = "fetch" /\ job' = withFetch
  BY DEF StartRefresh, cached, begun
<1> HIDE DEF withCache, withFetch
<1>13. JobTyped(job') /\ Apart(job')
  BY <1>10, <1>11, <1>12
<1>14. PcTyped'
  BY <1>10, <1>11, <1>12 DEF PcTyped, Pcs
<1>15. StateTyped'
  <2>1. /\ state' = [state EXCEPT !.refreshing = TRUE, !.error = FALSE,
                                  !.ranked = IF c.asap THEN <<>> ELSE @]
        /\ shared' = shared
    BY DEF StartRefresh
  <2> QED BY <1>5, <1>8, <2>1 DEF Typed, StateTyped, States, Proper
<1>16. ConfigTyped'
  <2>1. live' = c
    BY DEF StartRefresh
  <2> QED BY <2>1 DEF Typed, ConfigTyped
<1>17. UNCHANGED <<events, db>>
  BY DEF StartRefresh
<1> QED BY <1>13, <1>14, <1>15, <1>16, <1>17 DEF Typed

LEMMA FirstTyped ==
    ASSUME Typed, FirstRefresh
    PROVE  Typed'
<1>1. watched \in Settings /\ watchNew \in BOOLEAN
  BY DEF Typed, ConfigTyped
<1> QED BY <1>1, StartTyped DEF FirstRefresh

LEMMA TimerTyped ==
    ASSUME Typed, TimerFires
    PROVE  Typed'
<1>1. watched \in Settings /\ watchNew \in BOOLEAN
  BY DEF Typed, ConfigTyped
<1> QED BY <1>1, StartTyped DEF TimerFires

LEMMA ChangedTyped ==
    ASSUME Typed, ConfigChanged
    PROVE  Typed'
<1>1. watched \in Settings /\ pc = "idle" /\ watchNew' \in BOOLEAN
      /\ UNCHANGED <<file, watcher, watched>>
  BY DEF Typed, ConfigTyped, ConfigChanged
<1>2. CASE used # Fingerprint(watched)
  <2>1. StartRefresh(watched)
    BY <1>2 DEF ConfigChanged
  <2> QED BY <1>1, <2>1, StartTyped
<1>3. CASE used = Fingerprint(watched)
  <2>1. live' = watched /\ pc' = "handoff" /\ UNCHANGED <<job, events, state, shared, db>>
    BY <1>3 DEF ConfigChanged
  <2>2. ConfigTyped'
    BY <1>1, <2>1 DEF Typed, ConfigTyped
  <2>3. PcTyped'
    BY <1>1, <2>1 DEF Typed, PcTyped, Pcs
  <2>4. StateTyped'
    BY <2>1 DEF Typed, StateTyped
  <2> QED BY <2>1, <2>2, <2>3, <2>4 DEF Typed
<1> QED BY <1>2, <1>3

(* Most steps leave the configuration alone, and many the state and the      *)
(* tables too.                                                             *)
LEMMA SameConfig ==
    ASSUME Typed, UNCHANGED configVars
    PROVE  ConfigTyped'
BY DEF Typed, ConfigTyped, configVars

LEMMA SameState ==
    ASSUME Typed, UNCHANGED <<state, shared>>
    PROVE  StateTyped'
BY DEF Typed, StateTyped

LEMMA FetchTyped ==
    ASSUME Typed, NEW s \in Sources, NEW ok \in BOOLEAN, FetchAnswer(s, ok)
    PROVE  Typed'
<1> DEFINE new == [job EXCEPT !.waiting = @ \ {s},
                              !.arrived = Append(@, [src |-> s, ok |-> ok])]
<1>1. job \in Jobs /\ [src |-> s, ok |-> ok] \in Answers
  BY DEF Typed, JobTyped, Answers
<1>2. Append(job.arrived, [src |-> s, ok |-> ok]) \in Seq(Answers)
  BY <1>1, AppendProperties DEF Jobs
<1>3. /\ new \in Jobs /\ new.ranked = job.ranked /\ new.call = job.call /\ new.todo = job.todo
      /\ new.seen = job.seen /\ new.previous = job.previous /\ new.config = job.config
      /\ new.phase = job.phase
  BY <1>1, <1>2 DEF Jobs
<1>4. job' = new /\ UNCHANGED <<configVars, pc, events, state, shared, db>>
  BY DEF FetchAnswer
<1> HIDE DEF new
<1>5. JobTyped(job') /\ Apart(job')
  BY <1>3, <1>4 DEF Typed, JobTyped, Apart
<1>6. PcTyped'
  BY <1>3, <1>4 DEF Typed, PcTyped
<1> QED BY <1>4, <1>5, <1>6, SameConfig, SameState DEF Typed

(* A load: what it leaves to test are keys not seen before.                 *)
Loads(j, new) ==
    /\ j \in Jobs
    /\ j.todo = new /\ j.seen = job.seen \cup KeysIn(new)
    /\ j.ranked = job.ranked /\ j.call = job.call /\ j.previous = job.previous
    /\ j.config = job.config /\ j.phase = job.phase

LEMMA LoadedTyped ==
    ASSUME Typed, NEW j, NEW new \in SUBSET Candidate, KeyedTodo(new),
           KeysIn(new) \cap job.seen = {}, Loads(j, new), FetchDone(j)
    PROVE  Typed'
<1>1. /\ pc = "fetch" /\ job' = j /\ pc' = "probe"
      /\ UNCHANGED <<configVars, events, state, shared, db>>
  BY DEF FetchDone
<1>2. JobTyped(j)
  BY DEF Typed, JobTyped, Loads
<1>3. Apart(j)
  <2>1. /\ KeysOf(j.ranked) = KeysOf(job.ranked) /\ KeysOf(j.call) = KeysOf(job.call)
        /\ j.todo = new /\ j.seen = job.seen \cup KeysIn(new)
    BY DEF Loads
  <2>2. /\ KeysOf(job.ranked) \cap KeysOf(job.call) = {}
        /\ KeysOf(job.ranked) \subseteq job.seen /\ KeysOf(job.call) \subseteq job.seen
    BY DEF Typed, Apart
  <2> QED BY <2>1, <2>2 DEF Apart
<1>4. PcTyped'
  BY <1>1 DEF Typed, PcTyped, Pcs, Loads
<1> QED BY <1>1, <1>2, <1>3, <1>4, SameConfig, SameState DEF Typed

LEMMA LoadedIs ==
    ASSUME Typed, NEW new \in SUBSET Candidate
    PROVE  /\ Loads(Loaded(new), new)
           /\ Loaded(new).failed = job.failed /\ Loaded(new).errors = job.errors
<1>1. job \in Jobs /\ job.arrived \in Seq(Answers)
  BY DEF Typed, JobTyped, Jobs
<1>2. Len(Answered(job.arrived)) \in Nat
  BY <1>1, AnsweredIs
<1>3. KeysIn(new) \in SUBSET Keys
  BY DEF KeysIn, Candidate
<1> DEFINE fetched == job.fetched \cup KeysIn(new)
           seen    == job.seen \cup KeysIn(new)
           count   == job.successes + Len(Answered(job.arrived))
           j == Loaded(new)
<1>4. j = [job EXCEPT !.arrived = <<>>, !.todo = new, !.fetched = fetched, !.seen = seen,
                      !.successes = count]
  BY <1>1 DEF Loaded, KeysIn, Jobs
<1>6. fetched \in SUBSET Keys /\ seen \in SUBSET Keys /\ count \in Nat /\ <<>> \in Seq(Answers)
  BY <1>1, <1>2, <1>3 DEF Jobs
<1> HIDE DEF j, fetched, count, seen
<1>5. /\ j \in Jobs /\ j.todo = new /\ j.seen = seen
      /\ j.ranked = job.ranked /\ j.call = job.call /\ j.previous = job.previous
      /\ j.config = job.config /\ j.phase = job.phase
      /\ j.failed = job.failed /\ j.errors = job.errors
  BY <1>1, <1>4, <1>6 DEF Jobs
<1> QED BY <1>5 DEF Loads, j, seen

LEMMA DirectTyped ==
    ASSUME Typed, DirectLoad
    PROVE  Typed'
<1> DEFINE new == FetchMerged(job.arrived)
           bad == {s \in job.config.subs : s \notin ToSet(Answered(job.arrived))}
           j   == [Loaded(new) EXCEPT !.failed = bad, !.errors = bad]
<1>1. job \in Jobs /\ pc = "fetch" /\ job.phase = "direct" /\ FetchDone(j)
  BY DEF Typed, JobTyped, DirectLoad, FetchDone
<1>2. new \in SUBSET Candidate /\ KeyedTodo(new)
  BY <1>1, MergedIs DEF Jobs
<1>3. job.seen = {}
  BY <1>1 DEF Typed, PcTyped
<1>4. bad \in SUBSET Sources
  BY <1>1, SettingIs DEF Typed, PcTyped
<1> HIDE DEF new, bad
<1>5. Loads(Loaded(new), new)
  BY <1>2, LoadedIs
<1>6. Loads(j, new)
  BY <1>4, <1>5 DEF Loads, Jobs
<1> HIDE DEF j
<1> QED BY <1>1, <1>2, <1>3, <1>6, LoadedTyped

LEMMA RetryLoadTyped ==
    ASSUME Typed, RetryLoad
    PROVE  Typed'
<1> DEFINE new == Unseen(job.arrived)
           bad == merged_fetch_errors(ToSet(Answered(job.arrived)))
           j   == [Loaded(new) EXCEPT !.errors = bad]
<1>1. job \in Jobs /\ pc = "fetch" /\ FetchDone(j)
  BY DEF Typed, JobTyped, RetryLoad, FetchDone
<1>2. new \in SUBSET Candidate /\ KeyedTodo(new) /\ KeysIn(new) \cap job.seen = {}
  <2>1. /\ FetchMerged(job.arrived) \in SUBSET Candidate
        /\ KeyedTodo(FetchMerged(job.arrived))
    BY <1>1, MergedIs DEF Jobs
  <2> QED BY <2>1 DEF Unseen, KeyedTodo, KeysIn
<1>4. bad \in SUBSET Sources
  BY <1>1 DEF merged_fetch_errors, Jobs
<1> HIDE DEF new, bad
<1>5. Loads(Loaded(new), new)
  BY <1>2, LoadedIs
<1>6. Loads(j, new)
  BY <1>4, <1>5 DEF Loads, Jobs
<1> HIDE DEF j
<1> QED BY <1>1, <1>2, <1>6, LoadedTyped

(* One batch: its entries leave the list of those to test.                  *)
LEMMA BatchTyped ==
    ASSUME Typed, NEW batch, NEW lats \in Measurements(batch), ProbeBatch(batch, lats)
    PROVE  Typed'
<1> DEFINE results == InOrder({Outcome(c, lats[c]) : c \in batch}, compare_ranked)
           found   == job.call \o results
           asap    == IF job.config.asap /\ Reachable(results) # <<>>
                      THEN <<[kind |-> "Found", list |-> Reachable(results),
                              topN |-> job.config.topN]>>
                      ELSE <<>>
           half    == IF SendsHalf(found)
                      THEN <<[kind |-> "Snapshot", list |-> HalfSnapshot(found)]>>
                      ELSE <<>>
           left    == IF Stops(found, CallTop, \A c \in job.todo \ batch : c.key \notin job.top)
                      THEN {} ELSE job.todo \ batch
           sent    == job.halfSent \/ half # <<>>
<1>1. /\ job \in Jobs /\ pc = "probe" /\ batch \subseteq job.todo
      /\ events' = events \o asap \o half
      /\ UNCHANGED <<configVars, pc, state, shared, db>>
  BY DEF Typed, JobTyped, ProbeBatch
<1>2. job' = [job EXCEPT !.call = found, !.halfSent = sent, !.todo = left]
  BY <1>1 DEF ProbeBatch, Jobs
<1>3. /\ batch \in SUBSET Candidate /\ KeyedTodo(batch)
      /\ KeysIn(batch) \subseteq KeysIn(job.todo)
  BY <1>1 DEF Typed, Apart, KeyedTodo, KeysIn, Jobs
<1>4. Proper(results) /\ KeysOf(results) = KeysIn(batch)
  BY <1>3, ResultsAre
<1>5. /\ KeysOf(job.call) \cap KeysIn(job.todo) = {} /\ Proper(job.call)
      /\ KeysOf(job.ranked) \cap KeysOf(job.call) = {}
      /\ KeysOf(job.ranked) \cap KeysIn(job.todo) = {}
      /\ KeysOf(job.ranked) \cup KeysOf(job.call) \cup KeysIn(job.todo) \subseteq job.seen
      /\ KeyedTodo(job.todo)
  BY <1>1 DEF Typed, Apart, JobTyped, Proper, Jobs
<1>6. left \subseteq job.todo /\ KeysIn(left) \cap KeysIn(batch) = {}
  <2>1. left \subseteq job.todo \ batch
    OBVIOUS
  <2> HIDE DEF left
  <2> QED BY <1>1, <1>5, <2>1 DEF KeyedTodo, KeysIn
<1> HIDE DEF results, left
<1>7. Proper(found)
  BY <1>3, <1>4, <1>5, JoinedProper
<1>8. KeysOf(found) = KeysOf(job.call) \cup KeysIn(batch)
  BY <1>4, <1>5, JoinedLists DEF Proper
<1>9. job.config \in Settings
  BY <1>1 DEF Typed, PcTyped
<1>10. asap \in Seq(Announced)
  <2>1. CASE Reachable(results) # <<>>
    <3>1. Working(Reachable(results)) /\ Reachable(results) \in Seq(Entry)
      BY <1>4, <2>1, WorkingParts, ReachableIs DEF Proper
    <3>2. job.config.topN \in Nat \ {0}
      BY <1>9, SettingIs
    <3>3. [kind |-> "Found", list |-> Reachable(results), topN |-> job.config.topN]
            \in Announced
      BY <3>1, <3>2 DEF Announced
    <3> QED BY <3>3
  <2>2. CASE Reachable(results) = <<>>
    BY <2>2
  <2> QED BY <2>1, <2>2
<1> HIDE DEF asap, found
<1>11. half \in Seq(Announced)
  <2>1. CASE SendsHalf(found)
    <3>1. Working(HalfSnapshot(found)) /\ HalfSnapshot(found) \in Seq(Entry)
      BY <1>7, <1>9, <2>1, HalfIs DEF Working, Proper
    <3>2. [kind |-> "Snapshot", list |-> HalfSnapshot(found)] \in Announced
      BY <3>1 DEF Announced
    <3> QED BY <2>1, <3>2
  <2>2. CASE ~SendsHalf(found)
    BY <2>2
  <2> QED BY <2>1, <2>2
<1> HIDE DEF half
<1>12. events' \in Seq(Announced)
  <2>1. events \in Seq(Announced)
    BY DEF Typed
  <2>2. events \o asap \in Seq(Announced)
    BY <1>10, <2>1, ConcatProperties
  <2> QED BY <1>1, <1>11, <2>2, ConcatProperties
<1>13. sent \in BOOLEAN
  BY <1>1 DEF Jobs
<1> HIDE DEF sent
<1>14. /\ job' \in Jobs /\ job'.ranked = job.ranked /\ job'.previous = job.previous
       /\ job'.call = found /\ job'.todo = left /\ job'.seen = job.seen
       /\ job'.config = job.config /\ job'.phase = job.phase
  BY <1>1, <1>2, <1>6, <1>7, <1>13 DEF Jobs, Proper
<1>15. JobTyped(job')
  BY <1>7, <1>14 DEF Typed, JobTyped, Proper
<1>16. Apart(job')
  <2>1. KeysIn(left) \subseteq KeysIn(job.todo) /\ KeyedTodo(left)
    BY <1>5, <1>6 DEF KeysIn, KeyedTodo
  <2> QED BY <1>3, <1>5, <1>6, <1>8, <1>14, <2>1 DEF Apart
<1>17. PcTyped'
  BY <1>1, <1>14 DEF Typed, PcTyped
<1> QED BY <1>1, <1>12, <1>15, <1>16, <1>17, SameConfig, SameState DEF Typed

LEMMA CallRankedIs ==
    ASSUME Typed
    PROVE  /\ Proper(job.ranked \o Sorted(job.call, compare_ranked))
           /\ KeysOf(job.ranked \o Sorted(job.call, compare_ranked))
                = KeysOf(job.ranked) \cup KeysOf(job.call)
           /\ ToSet(job.ranked \o Sorted(job.call, compare_ranked))
                = ToSet(job.ranked) \cup ToSet(job.call)
<1> DEFINE more == Sorted(job.call, compare_ranked)
<1>1. Proper(job.ranked) /\ Proper(job.call) /\ KeysOf(job.ranked) \cap KeysOf(job.call) = {}
  BY DEF Typed, JobTyped, Apart, Jobs, Proper
<1>2. Proper(more) /\ KeysOf(more) = KeysOf(job.call) /\ ToSet(more) = ToSet(job.call)
  BY <1>1, SortedIs
<1> HIDE DEF more
<1>3. Proper(job.ranked \o more)
  BY <1>1, <1>2, JoinedProper
<1>4. job.ranked \in Seq(Entry) /\ more \in Seq(Entry)
  BY <1>1, <1>2 DEF Proper
<1>5. /\ KeysOf(job.ranked \o more) = KeysOf(job.ranked) \cup KeysOf(job.call)
      /\ ToSet(job.ranked \o more) = ToSet(job.ranked) \cup ToSet(job.call)
  BY <1>2, <1>4, JoinedLists
<1> QED BY <1>3, <1>5 DEF more

LEMMA ProbedTyped ==
    ASSUME Typed, ProbeDone
    PROVE  Typed'
<1> DEFINE all == job.ranked \o Sorted(job.call, compare_ranked)
<1>1. /\ job \in Jobs /\ pc = "probe" /\ job.todo = {}
      /\ job' = [job EXCEPT !.ranked = all, !.call = <<>>, !.halfSent = FALSE]
      /\ pc' = NextStage
      /\ UNCHANGED <<configVars, events, state, shared, db>>
  BY DEF Typed, JobTyped, ProbeDone
<1>2. Proper(all) /\ KeysOf(all) = KeysOf(job.ranked) \cup KeysOf(job.call)
  BY CallRankedIs
<1>3. Proper(<<>>) /\ KeysOf(<<>>) = {} /\ KeysIn({}) = {}
  BY NothingIsTyped DEF KeysIn
<1> HIDE DEF all
<1>4. /\ job' \in Jobs /\ job'.ranked = all /\ job'.call = <<>> /\ job'.todo = {}
      /\ job'.previous = job.previous /\ job'.seen = job.seen /\ job'.config = job.config
      /\ job'.phase = job.phase
  BY <1>1, <1>2, <1>3 DEF Jobs, Proper
<1>5. JobTyped(job')
  BY <1>2, <1>3, <1>4 DEF Typed, JobTyped, Proper
<1>6. Apart(job')
  <2>1. KeysOf(job.ranked) \cup KeysOf(job.call) \subseteq job.seen
    BY DEF Typed, Apart
  <2> QED BY <1>2, <1>3, <1>4, <2>1 DEF Apart, KeyedTodo
<1>7. pc' \in {"retry", "fallback", "join"}
  <2>1. job.phase \in {"direct", "retry", "fallback"}
    BY <1>1 DEF Typed, PcTyped
  <2> QED BY <1>1, <2>1 DEF NextStage
<1>8. PcTyped'
  BY <1>1, <1>4, <1>7 DEF Typed, PcTyped, Pcs
<1> QED BY <1>1, <1>5, <1>6, <1>8, SameConfig, SameState DEF Typed

LEMMA RetryTyped ==
    ASSUME Typed, Retry
    PROVE  Typed'
<1>1. /\ job \in Jobs /\ pc = "retry"
      /\ UNCHANGED <<configVars, events, state, shared, db>>
  BY DEF Typed, JobTyped, Retry
<1>2. \/ /\ pc' = "fetch"
         /\ job' = [job EXCEPT !.phase = "retry", !.waiting = job.failed \cap HttpSources]
      \/ pc' = "fallback" /\ job' = job
  BY DEF Retry
<1>3. /\ job' \in Jobs /\ job'.ranked = job.ranked /\ job'.call = job.call
      /\ job'.todo = job.todo /\ job'.previous = job.previous /\ job'.seen = job.seen
      /\ job'.config = job.config /\ (pc' = "fetch" => job'.phase = "retry")
  <2>1. CASE pc' = "fallback" /\ job' = job
    BY <1>1, <2>1
  <2>2. CASE /\ pc' = "fetch"
             /\ job' = [job EXCEPT !.phase = "retry", !.waiting = job.failed \cap HttpSources]
    <3>1. job.failed \cap HttpSources \in SUBSET Sources
      BY <1>1 DEF Jobs
    <3> QED BY <1>1, <2>2, <3>1 DEF Jobs
  <2> QED BY <1>2, <2>1, <2>2
<1>4. JobTyped(job') /\ Apart(job')
  BY <1>3 DEF Typed, JobTyped, Apart
<1>5. PcTyped'
  BY <1>1, <1>2, <1>3 DEF Typed, PcTyped, Pcs
<1> QED BY <1>1, <1>4, <1>5, SameConfig, SameState DEF Typed

LEMMA FallbackTyped ==
    ASSUME Typed, Fallback
    PROVE  Typed'
<1> DEFINE stored == load_ranked_configs(job.config.topN)
           places == {i \in DOMAIN stored : stored[i].key \notin job.seen}
           cached == Filtered(stored, places)
<1>1. /\ job \in Jobs /\ pc = "fallback" /\ job.config \in Settings
      /\ UNCHANGED <<configVars, events, state, shared, db>>
  BY DEF Typed, JobTyped, PcTyped, Fallback
<1>2. \/ /\ pc' = "probe"
         /\ job' = [job EXCEPT !.phase = "fallback", !.todo = Candidates(cached),
                               !.fetched = @ \cup KeysOf(cached),
                               !.seen = @ \cup KeysOf(cached)]
      \/ pc' = "join" /\ job' = job
  BY DEF Fallback
<1>3. Proper(stored)
  BY <1>1, SettingIs, LoadIs DEF Typed
<1> HIDE DEF stored
<1>4. places \in SUBSET (1 .. Len(stored)) /\ \A i \in places : stored[i].key \notin job.seen
  BY <1>3, ListFacts DEF Proper
<1> HIDE DEF places
<1>5. Proper(cached) /\ ToSet(cached) = {stored[i] : i \in places}
  BY <1>3, <1>4, FilteredProper
<1> HIDE DEF cached
<1>6. KeysOf(cached) \in SUBSET Keys /\ KeysOf(cached) \cap job.seen = {}
  <2>1. KeysOf(cached) = {e.key : e \in ToSet(cached)} /\ KeysOf(cached) \in SUBSET Keys
    BY <1>5, KeysAre DEF Proper
  <2> QED BY <1>4, <1>5, <2>1
<1>7. /\ Candidates(cached) \in SUBSET Candidate
      /\ KeysIn(Candidates(cached)) = KeysOf(cached) /\ KeyedTodo(Candidates(cached))
  BY <1>5, CandidatesIs
<1>8. CASE pc' = "join" /\ job' = job
  <2>1. JobTyped(job') /\ Apart(job')
    BY <1>8 DEF Typed
  <2>2. PcTyped'
    BY <1>1, <1>8 DEF Typed, PcTyped, Pcs
  <2> QED BY <1>1, <2>1, <2>2, SameConfig, SameState DEF Typed
<1>9. CASE /\ pc' = "probe"
           /\ job' = [job EXCEPT !.phase = "fallback", !.todo = Candidates(cached),
                                 !.fetched = @ \cup KeysOf(cached),
                                 !.seen = @ \cup KeysOf(cached)]
  <2>1. /\ job' \in Jobs /\ job'.ranked = job.ranked /\ job'.call = job.call
        /\ job'.todo = Candidates(cached) /\ job'.previous = job.previous
        /\ job'.seen = job.seen \cup KeysOf(cached) /\ job'.config = job.config
        /\ job'.phase = "fallback"
    BY <1>1, <1>6, <1>7, <1>9 DEF Jobs
  <2>2. JobTyped(job')
    BY <2>1 DEF Typed, JobTyped
  <2>3. /\ KeysOf(job.ranked) \cap KeysOf(job.call) = {}
        /\ KeysOf(job.ranked) \cup KeysOf(job.call) \subseteq job.seen
    BY DEF Typed, Apart
  <2>4. Apart(job')
    BY <1>6, <1>7, <2>1, <2>3 DEF Apart
  <2>5. PcTyped'
    BY <1>1, <1>9, <2>1 DEF Typed, PcTyped, Pcs
  <2> QED BY <1>1, <2>2, <2>4, <2>5, SameConfig, SameState DEF Typed
<1> QED BY <1>2, <1>8, <1>9

(* What the forwarder publishes of an event.                                *)
Forwarded(e) ==
    IF e.kind = "Found" THEN WithCounts(Appended(e.list, e.topN))
    ELSE Sorted(WithCounts(e.list), compare_stability_ranked)

LEMMA ForwardedIs ==
    ASSUME Typed, NEW e \in Announced
    PROVE  Proper(Forwarded(e)) /\ Reachable(Forwarded(e)) # <<>>
<1>1. StateTyped /\ Working(e.list)
  BY DEF Typed, Announced
<1>2. ASSUME NEW list, Working(list)
      PROVE  Proper(WithCounts(list)) /\ Reachable(WithCounts(list)) # <<>>
  <2>1. list \in Seq(Entry) /\ OneEach(list) /\ Reachable(list) # <<>>
    BY <1>2, WorkingParts DEF Working, Proper
  <2>2. Recounted(WithCounts(list), list)
    BY <1>1, <2>1, WithCountsIs
  <2> QED BY <2>1, <2>2, RecountedIs
<1>3. CASE e.kind = "Found"
  <2>1. e.topN \in Nat \ {0}
    BY <1>3 DEF Announced
  <2>2. Working(Appended(e.list, e.topN))
    BY <1>1, <2>1, AppendedIs
  <2> QED BY <1>2, <1>3, <2>2 DEF Forwarded
<1>4. CASE e.kind # "Found"
  <2> DEFINE counted == WithCounts(e.list)
             new == Sorted(counted, compare_stability_ranked)
  <2>1. Proper(counted) /\ Reachable(counted) # <<>>
    BY <1>1, <1>2
  <2> HIDE DEF counted
  <2>2. Proper(new) /\ ToSet(new) = ToSet(counted)
    BY <2>1, SortedIs
  <2> HIDE DEF new
  <2>3. Reachable(new) # <<>>
    <3>1. /\ ToSet(Reachable(new)) = {x \in ToSet(new) : x.up} /\ Reachable(new) \in Seq(Entry)
          /\ ToSet(Reachable(counted)) = {x \in ToSet(counted) : x.up}
          /\ Reachable(counted) \in Seq(Entry)
      BY <2>1, <2>2, ReachableIs DEF Proper
    <3>2. Proper(Reachable(counted))
      BY <2>1, ReachableIs DEF Proper
    <3>3. ToSet(Reachable(counted)) # {}
      BY <2>1, <3>2, WorkingParts, WorkingIs DEF Working
    <3>4. ToSet(Reachable(new)) # {}
      BY <2>2, <3>1, <3>3
    <3> QED BY <3>4, NothingIsTyped
  <2>4. Forwarded(e) = new
    BY <1>4 DEF Forwarded, new, counted
  <2> QED BY <2>2, <2>3, <2>4
<1> QED BY <1>3, <1>4

LEMMA ForwardIs ==
    ASSUME Typed, ForwardEvent
    PROVE  /\ Head(events) \in Announced /\ events' \in Seq(Announced)
           /\ state' = [state EXCEPT !.ranked = Forwarded(Head(events))]
           /\ UNCHANGED <<configVars, used, pc, job, shared, db, spent>>
<1>1. events \in Seq(Announced) /\ events # <<>>
  BY DEF Typed, ForwardEvent
<1>2. Head(events) \in Announced /\ Tail(events) \in Seq(Announced)
  BY <1>1, HeadTailProperties
<1>3. state' = [state EXCEPT !.ranked = Forwarded(Head(events))]
  BY DEF ForwardEvent, Forwarded
<1> QED BY <1>2, <1>3 DEF ForwardEvent

LEMMA ForwardTyped ==
    ASSUME Typed, ForwardEvent
    PROVE  Typed'
<1> DEFINE list == Forwarded(Head(events))
<1>1. /\ events' \in Seq(Announced) /\ Proper(list)
      /\ state' = [state EXCEPT !.ranked = list]
      /\ UNCHANGED <<configVars, pc, job, shared, db>>
  BY ForwardIs, ForwardedIs
<1> HIDE DEF list
<1>2. StateTyped'
  BY <1>1 DEF Typed, StateTyped, States, Proper
<1>3. PcTyped'
  BY <1>1 DEF Typed, PcTyped
<1> QED BY <1>1, <1>2, <1>3, SameConfig DEF Typed

LEMMA ErrorRecorded ==
    ASSUME Typed
    PROVE  /\ record_refresh_error \in States
           /\ record_refresh_error.ranked = state.ranked
           /\ record_refresh_error.error = TRUE
           /\ record_refresh_error.refreshing = FALSE
BY DEF Typed, StateTyped, States, record_refresh_error

LEMMA JoinTyped ==
    ASSUME Typed, Join
    PROVE  Typed'
<1> DEFINE list == FinalRanking(job.ranked, NewCounts)
<1>1. /\ job \in Jobs /\ pc = "join" /\ UNCHANGED <<configVars, events, shared, db>>
      /\ job.config \in Settings
  BY DEF Typed, JobTyped, PcTyped, Join
<1>2. CASE state' = record_refresh_error /\ pc' = "handoff" /\ job' = job
  <2>1. StateTyped'
    BY <1>1, <1>2, ErrorRecorded DEF Typed, StateTyped
  <2>2. PcTyped'
    BY <1>1, <1>2 DEF Typed, PcTyped, Pcs
  <2> QED BY <1>1, <1>2, <2>1, <2>2, SameConfig DEF Typed
<1>3. CASE /\ job' = [job EXCEPT !.ranked = list, !.previous.counts = NewCounts]
           /\ pc' = "persist" /\ UNCHANGED state
  <2>1. NewCounts \in Counts
    BY NewCountsIs DEF Typed
  <2>2. Proper(list) /\ KeysOf(list) = KeysOf(job.ranked)
    BY <1>1, <2>1, FinalRankingIs DEF Jobs
  <2> HIDE DEF list
  <2> DEFINE prev == [job.previous EXCEPT !.counts = NewCounts]
  <2>3. prev \in States /\ prev.ranked = job.previous.ranked
    BY <1>1, <2>1 DEF Jobs, States
  <2>4. job' = [job EXCEPT !.ranked = list, !.previous = prev]
    BY <1>1, <1>3 DEF Jobs
  <2> HIDE DEF prev
  <2>5. /\ job' \in Jobs /\ job'.ranked = list /\ job'.call = job.call
        /\ job'.todo = job.todo /\ job'.previous = prev /\ job'.seen = job.seen
        /\ job'.config = job.config
    BY <1>1, <2>2, <2>3, <2>4 DEF Jobs, Proper
  <2>6. JobTyped(job')
    BY <2>2, <2>3, <2>5 DEF Typed, JobTyped, Proper
  <2>7. Apart(job')
    BY <2>2, <2>5 DEF Typed, Apart
  <2>8. PcTyped'
    BY <1>1, <1>3, <2>5 DEF Typed, PcTyped, Pcs
  <2> QED BY <1>1, <1>3, <2>6, <2>7, <2>8, SameConfig, SameState DEF Typed
<1> QED BY <1>2, <1>3 DEF Join

(* A step of the loop that fails, or goes on without touching the job.       *)
LEMMA FailTyped ==
    ASSUME Typed, Fails, UNCHANGED <<configVars, job, events, shared>>, RowsTyped(db'),
           pc # "probe"
    PROVE  Typed'
<1>1. state' = record_refresh_error /\ pc' = "handoff"
  BY DEF Fails
<1>2. StateTyped'
  BY <1>1, ErrorRecorded DEF Typed, StateTyped
<1>3. PcTyped'
  BY <1>1 DEF Typed, PcTyped, Pcs
<1> QED BY <1>2, <1>3, SameConfig DEF Typed

LEMMA RowsTypedKept ==
    ASSUME Typed, PersistRows
    PROVE  Typed'
<1>1. /\ Proper(job.ranked) /\ Len(job.ranked) \in Nat /\ pc = "persist"
      /\ UNCHANGED <<configVars, job, events, shared>> /\ RowsTyped(db)
  BY LenProperties DEF Typed, JobTyped, Jobs, Proper, PersistRows
<1>2. CASE /\ db' = [db EXCEPT !.rows = Upserted(job.ranked)]
           /\ pc' = "top" /\ UNCHANGED <<state, spent>>
  <2>1. RowsTyped(db')
    BY <1>1, <1>2, UpsertedIs
  <2>2. PcTyped'
    BY <1>1, <1>2 DEF Typed, PcTyped, Pcs
  <2> QED BY <1>1, <1>2, <2>1, <2>2, SameConfig, SameState DEF Typed
<1>3. CASE /\ \E n \in 0 .. Len(job.ranked) : db' = [db EXCEPT !.rows = Upserted(Take(job.ranked, n))]
           /\ Fails
  <2>1. PICK n \in 0 .. Len(job.ranked) : db' = [db EXCEPT !.rows = Upserted(Take(job.ranked, n))]
    BY <1>3
  <2>2. n \in Nat
    BY <1>1
  <2>3. RowsTyped(db')
    BY <1>1, <2>1, <2>2, TakeProper, UpsertedIs
  <2> QED BY <1>1, <1>3, <2>3, FailTyped
<1> QED BY <1>2, <1>3 DEF PersistRows

LEMMA TopTyped ==
    ASSUME Typed, PersistTop
    PROVE  Typed'
<1>1. /\ job.ranked \in Seq(Entry) /\ Proper(job.ranked) /\ pc = "top"
      /\ job.config \in Settings /\ UNCHANGED <<configVars, job, events, shared>>
      /\ RowsTyped(db)
  BY DEF Typed, JobTyped, Jobs, Proper, PcTyped, PersistTop
<1>2. CASE /\ db' = [db EXCEPT !.stable = StableKeys(job.ranked)]
           /\ pc' = "clean" /\ UNCHANGED <<state, spent>>
  <2>1. StableKeys(job.ranked) \in SUBSET Keys
    <3>1. Reachable(job.ranked) \in Seq(Entry) /\ job.config.topN \in Nat
      BY <1>1, ReachableIs, SettingIs
    <3>2. Take(Reachable(job.ranked), job.config.topN) \in Seq(Entry)
      BY <3>1, TakeIs
    <3> QED BY <3>2, KeysAre DEF StableKeys
  <2>2. RowsTyped(db')
    BY <1>1, <1>2, <2>1 DEF RowsTyped, Tables
  <2>3. PcTyped'
    BY <1>1, <1>2 DEF Typed, PcTyped, Pcs
  <2> QED BY <1>1, <1>2, <2>2, <2>3, SameConfig, SameState DEF Typed
<1>3. CASE Fails /\ db' = db
  BY <1>1, <1>3, FailTyped
<1> QED BY <1>2, <1>3 DEF PersistTop

LEMMA CleanTyped ==
    ASSUME Typed, CleanOffline
    PROVE  Typed'
<1>1. /\ pc = "clean" /\ UNCHANGED <<configVars, job, events, shared>> /\ RowsTyped(db)
  BY DEF Typed, CleanOffline
<1>2. CASE /\ \E gone \in SUBSET Cleanable :
                db' = [db EXCEPT !.rows = [k \in Keys |-> IF k \in gone THEN NoRow ELSE @[k]]]
           /\ pc' = "publish" /\ UNCHANGED <<state, spent>>
  <2>1. RowsTyped(db')
    BY <1>1, <1>2 DEF RowsTyped, Tables
  <2>2. PcTyped'
    BY <1>1, <1>2 DEF Typed, PcTyped, Pcs
  <2> QED BY <1>1, <1>2, <2>1, <2>2, SameConfig, SameState DEF Typed
<1>3. CASE Fails /\ db' = db
  BY <1>1, <1>3, FailTyped
<1> QED BY <1>2, <1>3 DEF CleanOffline

LEMMA PublishTyped ==
    ASSUME Typed, Publish
    PROVE  Typed'
<1>1. /\ pc = "publish" /\ pc' = "handoff" /\ UNCHANGED <<configVars, job, events, shared, db>>
      /\ state' = [ranked |-> job.ranked, refreshing |-> FALSE, error |-> FALSE,
                   counts |-> job.previous.counts]
  BY DEF Publish
<1>2. state' \in States /\ OneEach(state'.ranked)
  BY <1>1 DEF Typed, JobTyped, Jobs, States
<1>3. PcTyped'
  BY <1>1 DEF Typed, PcTyped, Pcs
<1> QED BY <1>1, <1>2, <1>3, SameConfig DEF Typed, StateTyped

LEMMA HandoffTyped ==
    ASSUME Typed, Handoff
    PROVE  Typed'
<1>1. /\ shared' = state.ranked /\ pc' = "idle" /\ job' = NoJob
      /\ UNCHANGED <<configVars, events, state, db>>
  BY DEF Handoff
<1>2. StateTyped'
  BY <1>1 DEF Typed, StateTyped, States, Proper
<1>3. PcTyped'
  BY <1>1, NoJobTyped DEF PcTyped, Pcs
<1> QED BY <1>1, <1>2, <1>3, NoJobTyped, SameConfig DEF Typed

LEMMA RestartTyped ==
    ASSUME Typed, Restart
    PROVE  Typed'
<1>1. /\ file \in Settings /\ file' = file /\ watcher' = "start" /\ watchNew' = FALSE
      /\ watched' = file /\ live' = file /\ pc' = "idle" /\ job' = NoJob /\ events' = <<>>
      /\ state' = EmptyState /\ shared' = <<>> /\ db' = db
  BY DEF Typed, ConfigTyped, Restart
<1>2. ConfigTyped'
  BY <1>1 DEF ConfigTyped, WatcherStates
<1>3. StateTyped'
  BY <1>1, NothingIsTyped DEF StateTyped, EmptyState, Proper
<1>4. PcTyped'
  BY <1>1, NoJobTyped DEF PcTyped, Pcs
<1> QED BY <1>1, <1>2, <1>3, <1>4, NoJobTyped DEF Typed

(* Saving, looking and polling change the configuration only.               *)
LEMMA WatchedTyped ==
    ASSUME Typed, Edit \/ FirstLook \/ WatcherPolls
    PROVE  Typed'
<1>1. UNCHANGED <<pc, job, events, state, shared, db>>
  BY DEF Edit, SaveFile, FirstLook, WatcherPolls
<1>2. ConfigTyped'
  BY DEF Typed, ConfigTyped, WatcherStates, Edit, SaveFile, FirstLook, WatcherPolls
<1>3. PcTyped'
  BY <1>1 DEF Typed, PcTyped
<1> QED BY <1>1, <1>2, <1>3, SameState DEF Typed

LEMMA CacheTyped ==
    ASSUME Typed, CleanCache
    PROVE  Typed'
<1>1. UNCHANGED <<configVars, pc, job, events, state, shared>>
  BY DEF CleanCache
<1>2. RowsTyped(db')
  BY DEF Typed, RowsTyped, Tables, CleanCache, NoRows
<1>3. PcTyped'
  BY <1>1 DEF Typed, PcTyped
<1> QED BY <1>1, <1>2, <1>3, SameConfig, SameState DEF Typed

LEMMA TypedStep ==
    Typed /\ [Next]_vars => Typed'
<1> SUFFICES ASSUME Typed, [Next]_vars PROVE Typed'
  OBVIOUS
<1>1. CASE FirstRefresh
  BY <1>1, FirstTyped
<1>2. CASE ConfigChanged
  BY <1>2, ChangedTyped
<1>3. ASSUME NEW s \in Sources, NEW ok \in BOOLEAN, FetchAnswer(s, ok) PROVE Typed'
  BY <1>3, FetchTyped
<1>4. CASE DirectLoad \/ RetryLoad \/ ProbeDone
  BY <1>4, DirectTyped, RetryLoadTyped, ProbedTyped
<1>5. ASSUME NEW batch \in SUBSET job.todo, NEW lats \in Measurements(batch),
             ProbeBatch(batch, lats)
      PROVE  Typed'
  BY <1>5, BatchTyped
<1>6. CASE Retry \/ Fallback \/ Join
  BY <1>6, RetryTyped, FallbackTyped, JoinTyped
<1>7. CASE PersistRows \/ PersistTop \/ CleanOffline \/ Publish \/ Handoff
  BY <1>7, RowsTypedKept, TopTyped, CleanTyped, PublishTyped, HandoffTyped
<1>8. CASE TimerFires \/ ForwardEvent
  BY <1>8, TimerTyped, ForwardTyped
<1>9. CASE Edit \/ FirstLook \/ WatcherPolls \/ CleanCache \/ Restart
  BY <1>9, WatchedTyped, CacheTyped, RestartTyped
<1>10. CASE UNCHANGED vars
  <2>1. ConfigTyped' /\ StateTyped' /\ PcTyped'
    BY <1>10, SameConfig, SameState DEF vars, configVars, Typed, PcTyped
  <2> QED BY <1>10, <2>1 DEF Typed, vars
<1> QED BY <1>1, <1>2, <1>3, <1>4, <1>5, <1>6, <1>7, <1>8, <1>9, <1>10 DEF Next, RefreshStep

LEMMA TypedAlways ==
    Spec => []Typed
BY TypedInit, TypedStep, PTL DEF Spec

(* Only three steps touch the mark of a cleaned cache.                      *)
Marked == cleaned \in BOOLEAN

LEMMA CleanedTyped ==
    Spec => []Marked
<1>1. Init => Marked
  BY DEF Init, Marked
<1>2. Marked /\ [Next]_vars => Marked'
  BY DEF Marked, Next, RefreshStep, vars, FirstRefresh, TimerFires, ConfigChanged, StartRefresh,
         FetchAnswer, DirectLoad, RetryLoad, FetchDone, ProbeDone, ProbeBatch, Retry, Fallback,
         ForwardEvent, Join, PersistRows, PersistTop, CleanOffline, Publish, Handoff, Edit,
         SaveFile, FirstLook, WatcherPolls, CleanCache, Restart
<1> QED BY <1>1, <1>2, PTL DEF Spec

(* The type invariant: a published list, a stored row and a configuration   *)
(* are well formed, and no list names a key twice, whichever of its four     *)
(* writers made it (main.rs:deduplicate_ranked_configs).                    *)
THEOREM TypeCorrect ==
    Spec => []TypeOK
<1>1. Typed /\ Marked => TypeOK
  <2> SUFFICES ASSUME Typed, cleaned \in BOOLEAN PROVE TypeOK
    BY DEF Marked
  <2>1. /\ Proper(state.ranked) /\ Proper(shared) /\ Proper(job.ranked) /\ Proper(job.call)
    BY DEF Typed, StateTyped, States, JobTyped, Jobs, Proper
  <2>2. \A list \in {state.ranked, shared, job.ranked, job.call} :
           ToSet(list) \subseteq Entry /\ Cardinality(KeysOf(list)) = Len(list)
    BY <2>1, ProperSize
  <2>3. /\ \A k \in Rows(db) : db.rows[k] \in Entry /\ db.rows[k].key = k
        /\ db.stable \subseteq Keys
    BY DEF Typed, RowsTyped, Tables, Rows
  <2>4. /\ {cleaned, watchNew, state.refreshing, state.error} \subseteq BOOLEAN
        /\ job.config \in Settings \cup {NoPrint}
    BY DEF Typed, ConfigTyped, StateTyped, States, JobTyped, Jobs
  <2> QED BY <2>2, <2>3, <2>4 DEF Typed, ConfigTyped, PcTyped, Pcs, TypeOK
<1> QED BY <1>1, TypedAlways, CleanedTyped, PTL

-------------------------------------------------------------------------------
(* What is published.                                                      *)

(* Progress events are left only while the loop has not joined the           *)
(* forwarder, and what the proxy has is what was published last.            *)
Drained ==
    /\ events # <<>> => pc \in {"fetch", "probe", "retry", "fallback", "join"}
    /\ pc = "idle" => shared = state.ranked

LEMMA DrainedStep ==
    Typed /\ Drained /\ [Next]_vars => Drained'
<1> SUFFICES ASSUME Typed, Drained, [Next]_vars PROVE Drained'
  OBVIOUS
<1>1. ASSUME NEW c \in Settings, StartRefresh(c) PROVE Drained'
  BY <1>1 DEF StartRefresh, Drained
<1>2. watched \in Settings
  BY DEF Typed, ConfigTyped
<1>3. CASE FirstRefresh \/ TimerFires
  BY <1>1, <1>2, <1>3 DEF FirstRefresh, TimerFires
<1>4. CASE ConfigChanged
  <2>1. CASE StartRefresh(watched)
    BY <1>1, <1>2, <2>1
  <2>2. CASE pc = "idle" /\ pc' = "handoff" /\ events' = events
    BY <2>2 DEF Drained
  <2> QED BY <1>4, <2>1, <2>2 DEF ConfigChanged
<1>5. ASSUME NEW s \in Sources, NEW ok \in BOOLEAN, FetchAnswer(s, ok) PROVE Drained'
  BY <1>5 DEF FetchAnswer, Drained
<1>6. CASE DirectLoad \/ RetryLoad
  BY <1>6 DEF DirectLoad, RetryLoad, FetchDone, Drained
<1>7. CASE ProbeDone
  <2>1. pc' \in {"retry", "fallback", "join"}
    BY <1>7 DEF ProbeDone, NextStage, Typed, PcTyped
  <2> QED BY <2>1 DEF Drained
<1>8. ASSUME NEW batch, NEW lats, ProbeBatch(batch, lats) PROVE Drained'
  <2>1. pc' = "probe"
    BY <1>8 DEF ProbeBatch
  <2> QED BY <2>1 DEF Drained
<1>9. CASE Retry \/ Fallback
  BY <1>9 DEF Retry, Fallback, Drained
<1>10. CASE Join
  <2>1. events' = <<>> /\ pc' \in {"handoff", "persist"}
    BY <1>10 DEF Join, Joined
  <2> QED BY <2>1 DEF Drained
<1>11. CASE PersistRows \/ PersistTop \/ CleanOffline \/ Publish
  <2>1. events' = events /\ pc' \in {"top", "clean", "publish", "handoff"}
        /\ pc \in {"persist", "top", "clean", "publish"}
    BY <1>11 DEF PersistRows, PersistTop, CleanOffline, Publish, Fails
  <2> QED BY <2>1 DEF Drained
<1>12. CASE Handoff
  BY <1>12 DEF Handoff, Drained
<1>13. CASE ForwardEvent
  <2>1. pc' = pc /\ events # <<>>
    BY <1>13 DEF ForwardEvent
  <2> QED BY <2>1 DEF Drained
<1>14. CASE Edit \/ FirstLook \/ WatcherPolls \/ CleanCache
  BY <1>14 DEF Edit, SaveFile, FirstLook, WatcherPolls, CleanCache, Drained
<1>15. CASE Restart
  BY <1>15 DEF Restart, Drained, EmptyState
<1>16. CASE UNCHANGED vars
  BY <1>16 DEF vars, Drained
<1> QED BY <1>3, <1>4, <1>5, <1>6, <1>7, <1>8, <1>9, <1>10, <1>11, <1>12, <1>13, <1>14,
           <1>15, <1>16 DEF Next, RefreshStep

(* When the loop sleeps, the proxy and its failover list work from exactly  *)
(* what is published, and no progress event of the last run is left to      *)
(* change it (main.rs:update_proxy_and_ranked after progress_task.await).   *)
THEOREM InSync ==
    Spec => []IdleInSync
<1>1. Init => Drained
  BY DEF Init, Drained, EmptyState
<1>2. Drained => IdleInSync
  BY DEF Drained, IdleInSync
<1> QED BY <1>1, <1>2, TypedAlways, DrainedStep, PTL DEF Spec

LEMMA BodyIs ==
    ASSUME NEW list, Proper(list), NEW n \in Nat \ {0}
    PROVE  Take(Reachable(list), n) # <<>> <=> Reachable(list) # <<>>
<1>1. Reachable(list) \in Seq(Entry)
  BY ReachableIs DEF Proper
<1>2. /\ Take(Reachable(list), n) \in Seq(Entry) /\ Len(Reachable(list)) \in Nat
      /\ Len(Take(Reachable(list), n))
            = IF n < Len(Reachable(list)) THEN n ELSE Len(Reachable(list))
  BY <1>1, TakeIs, LenProperties
<1> QED BY <1>1, <1>2, ListFacts

(* No refresh is announced while the loop sleeps.                           *)
Asleep == pc \in {"idle", "handoff"} => ~state.refreshing

LEMMA AsleepStep ==
    Typed /\ Asleep /\ [Next]_vars => Asleep'
<1> SUFFICES ASSUME Typed, Asleep, [Next]_vars PROVE Asleep'
  OBVIOUS
<1>1. state \in States
  BY DEF Typed, StateTyped
<1>2. ASSUME NEW c, StartRefresh(c) PROVE Asleep'
  BY <1>2 DEF StartRefresh, Asleep
<1>3. CASE FirstRefresh \/ TimerFires
  BY <1>2, <1>3 DEF FirstRefresh, TimerFires
<1>4. CASE ConfigChanged
  <2>1. CASE StartRefresh(watched)
    BY <1>2, <2>1
  <2>2. CASE pc = "idle" /\ state' = state
    BY <2>2 DEF Asleep
  <2> QED BY <1>4, <2>1, <2>2 DEF ConfigChanged
<1>5. ASSUME NEW s \in Sources, NEW ok \in BOOLEAN, FetchAnswer(s, ok) PROVE Asleep'
  BY <1>5 DEF FetchAnswer, Asleep
<1>6. CASE DirectLoad \/ RetryLoad
  BY <1>6 DEF DirectLoad, RetryLoad, FetchDone, Asleep
<1>7. CASE ProbeDone
  <2>1. pc' \in {"retry", "fallback", "join"}
    BY <1>7 DEF ProbeDone, NextStage, Typed, PcTyped
  <2> QED BY <2>1 DEF Asleep
<1>8. ASSUME NEW batch, NEW lats, ProbeBatch(batch, lats) PROVE Asleep'
  BY <1>8 DEF ProbeBatch, Asleep
<1>9. CASE Retry \/ Fallback
  BY <1>9 DEF Retry, Fallback, Asleep
<1>10. CASE Join
  BY <1>10, ErrorRecorded DEF Join, Asleep
<1>11. CASE PersistRows \/ PersistTop \/ CleanOffline \/ Publish
  <2>1. CASE Fails
    BY <2>1, ErrorRecorded DEF Fails, Asleep
  <2>2. CASE Publish
    BY <2>2 DEF Publish, Asleep
  <2>3. CASE pc' \in {"top", "clean", "publish"}
    BY <2>3 DEF Asleep
  <2> QED BY <1>11, <2>1, <2>2, <2>3 DEF PersistRows, PersistTop, CleanOffline
<1>12. CASE Handoff
  BY <1>12 DEF Handoff, Asleep
<1>13. CASE ForwardEvent
  <2>1. state'.refreshing = state.refreshing /\ pc' = pc
    BY <1>1, <1>13, ForwardIs DEF States
  <2> QED BY <2>1 DEF Asleep
<1>14. CASE Edit \/ FirstLook \/ WatcherPolls \/ CleanCache
  BY <1>14 DEF Edit, SaveFile, FirstLook, WatcherPolls, CleanCache, Asleep
<1>15. CASE Restart
  BY <1>15 DEF Restart, Asleep, EmptyState
<1>16. CASE UNCHANGED vars
  BY <1>16 DEF vars, Asleep
<1> QED BY <1>3, <1>4, <1>5, <1>6, <1>7, <1>8, <1>9, <1>10, <1>11, <1>12, <1>13, <1>14,
           <1>15, <1>16 DEF Next, RefreshStep

(* What a step may do to the published list.                                *)
Lost ==
    \/ ~state.refreshing /\ state'.refreshing /\ live'.asap
    \/ pc = "publish" /\ Reachable(job.ranked) = <<>>
    \/ state' = EmptyState

LEMMA PublishedStep ==
    ASSUME Typed, Asleep, [Next]_vars, Reachable(state.ranked) # <<>>
    PROVE  Lost \/ Reachable(state'.ranked) # <<>>
<1>1. state \in States /\ watched \in Settings
  BY DEF Typed, StateTyped, ConfigTyped
<1>2. ASSUME NEW c \in Settings, pc = "idle", StartRefresh(c)
      PROVE  Lost \/ state'.ranked = state.ranked
  <2>1. /\ state' = [state EXCEPT !.refreshing = TRUE, !.error = FALSE,
                                  !.ranked = IF c.asap THEN <<>> ELSE @]
        /\ live' = c /\ ~state.refreshing
    BY <1>2 DEF StartRefresh, Asleep
  <2>2. c.asap \in BOOLEAN
    BY SettingIs
  <2>3. CASE c.asap
    BY <1>1, <2>1, <2>3 DEF Lost, States
  <2>4. CASE ~c.asap
    BY <1>1, <2>1, <2>4 DEF States
  <2> QED BY <2>2, <2>3, <2>4
<1>3. CASE FirstRefresh \/ TimerFires
  BY <1>1, <1>2, <1>3 DEF FirstRefresh, TimerFires
<1>4. CASE ConfigChanged
  <2>1. CASE StartRefresh(watched)
    BY <1>1, <1>2, <1>4, <2>1 DEF ConfigChanged
  <2>2. CASE state' = state
    BY <2>2
  <2> QED BY <1>4, <2>1, <2>2 DEF ConfigChanged
<1>5. ASSUME NEW s \in Sources, NEW ok \in BOOLEAN, FetchAnswer(s, ok) PROVE state' = state
  BY <1>5 DEF FetchAnswer
<1>6. CASE DirectLoad \/ RetryLoad \/ ProbeDone \/ Retry \/ Fallback \/ Handoff
  BY <1>6 DEF DirectLoad, RetryLoad, FetchDone, ProbeDone, Retry, Fallback, Handoff
<1>7. ASSUME NEW batch, NEW lats, ProbeBatch(batch, lats) PROVE state' = state
  BY <1>7 DEF ProbeBatch
<1>8. CASE Join \/ PersistRows \/ PersistTop \/ CleanOffline
  <2>1. state' = state \/ state' = record_refresh_error
    BY <1>8 DEF Join, PersistRows, PersistTop, CleanOffline, Fails
  <2> QED BY <2>1, ErrorRecorded
<1>9. CASE Publish
  BY <1>9 DEF Publish, Lost
<1>10. CASE ForwardEvent
  <2>1. state'.ranked = Forwarded(Head(events)) /\ Head(events) \in Announced
    BY <1>1, <1>10, ForwardIs DEF States
  <2> QED BY <2>1, ForwardedIs
<1>11. CASE Edit \/ FirstLook \/ WatcherPolls \/ CleanCache
  BY <1>11 DEF Edit, SaveFile, FirstLook, WatcherPolls, CleanCache
<1>12. CASE Restart
  BY <1>12 DEF Restart, Lost
<1>13. CASE UNCHANGED vars
  BY <1>13 DEF vars
<1> QED BY <1>3, <1>4, <1>5, <1>6, <1>7, <1>8, <1>9, <1>10, <1>11, <1>12, <1>13
        DEF Next, RefreshStep

(* Clients lose their last working entry only where the code means it: at   *)
(* the start of a return_configs_asap run, at the end of a run that found   *)
(* nothing working, or in a restart; never through a progress event, a      *)
(* failed run or a configuration change.                                    *)
THEOREM ServingKeptAlways ==
    Spec => ServingKept
<1>1. Init => Asleep
  BY DEF Init, Asleep, EmptyState
<1>2. Typed /\ Typed' /\ Asleep /\ [Next]_vars =>
        [subscription_body # <<>> /\ subscription_body' = <<>> => Lost]_vars
  <2> SUFFICES ASSUME Typed, Typed', Asleep, [Next]_vars,
                      subscription_body # <<>>, subscription_body' = <<>>
               PROVE  Lost
    OBVIOUS
  <2>1. live.topN \in Nat \ {0} /\ Proper(state.ranked)
    BY SettingIs DEF Typed, ConfigTyped, StateTyped, States, Proper
  <2>2. live'.topN \in Nat \ {0}
    BY SettingIs DEF Typed, ConfigTyped
  <2>3. Proper(state'.ranked)
    BY DEF Typed, StateTyped, States, Proper
  <2>4. Reachable(state.ranked) # <<>>
    BY <2>1, BodyIs DEF subscription_body
  <2>5. Reachable(state'.ranked) = <<>>
    BY <2>2, <2>3, BodyIs DEF subscription_body
  <2> QED BY <2>4, <2>5, PublishedStep
<1>3. Spec => [][subscription_body # <<>> /\ subscription_body' = <<>> => Lost]_vars
  BY <1>1, <1>2, TypedAlways, AsleepStep, PTL DEF Spec
<1> QED BY <1>3 DEF ServingKept, Lost

-------------------------------------------------------------------------------
(* What is stored.                                                         *)

(* The tables agree with a list: its first n working entries are the stable  *)
(* ones, and each working entry is stored as it is; what the cleaning of the *)
(* cache took is excused.                                                   *)
RowsAgree(list) ==
    \A e \in ToSet(Reachable(list)) :
        db.rows[e.key] = e \/ (cleaned /\ db.rows[e.key] = NoRow)

TopAgrees(list, n) ==
    db.stable = KeysOf(Take(Reachable(list), n)) \/ (cleaned /\ db.stable = {})

Agrees(list, n) == RowsAgree(list) /\ TopAgrees(list, n)

(* From the persist steps on the tables agree with what the run ranked, and  *)
(* after it with what is published, until the next run begins.               *)
Saved ==
    /\ pc \notin {"idle", "handoff"} => used = Fingerprint(job.config)
    /\ pc = "top" => RowsAgree(job.ranked)
    /\ pc \in {"clean", "publish"} => Agrees(job.ranked, job.config.topN)
    /\ pc \in {"idle", "handoff"} /\ used # NoPrint /\ ~state.error =>
          Agrees(state.ranked, used.topN)

LEMMA PrintIs ==
    ASSUME NEW c
    PROVE  Fingerprint(c).topN = c.topN /\ Fingerprint(c) # NoPrint
<1>1. Fingerprint(c).topN = c.topN /\ "topN" \in DOMAIN Fingerprint(c)
  BY DEF Fingerprint
<1>2. DOMAIN NoPrint = {"none"}
  BY DEF NoPrint
<1> QED BY <1>1, <1>2

LEMMA SavedStart ==
    ASSUME Typed, NEW c \in Settings, StartRefresh(c)
    PROVE  Saved'
<1>1. used' = Fingerprint(c) /\ pc' \in {"probe", "fetch"}
  BY DEF StartRefresh
<1>2. job'.config = c
  BY NoJobTyped DEF StartRefresh, NoJob
<1> QED BY <1>1, <1>2 DEF Saved

(* A step inside the run that leaves its configuration alone.               *)
LEMMA SavedInside ==
    ASSUME Saved, used' = used, job'.config = job.config, pc \notin {"idle", "handoff"},
           pc' \in {"fetch", "probe", "retry", "fallback", "join", "persist"}
    PROVE  Saved'
BY DEF Saved

LEMMA SavedFails ==
    ASSUME Typed, Fails
    PROVE  Saved'
BY ErrorRecorded DEF Fails, Saved

LEMMA SavedRows ==
    ASSUME Typed, Saved, PersistRows
    PROVE  Saved'
<1>1. CASE Fails
  BY <1>1, SavedFails
<1>2. CASE db' = [db EXCEPT !.rows = Upserted(job.ranked)] /\ pc' = "top"
  <2>1. Proper(job.ranked) /\ RowsTyped(db) /\ pc = "persist" /\ job' = job /\ used' = used
    BY DEF Typed, JobTyped, Jobs, Proper, PersistRows
  <2>2. \A e \in ToSet(job.ranked) : Upserted(job.ranked)[e.key] = e
    BY <2>1, UpsertedIs
  <2>3. ToSet(Reachable(job.ranked)) \subseteq ToSet(job.ranked)
    BY <2>1, ReachableIs DEF Proper
  <2>4. db'.rows = Upserted(job.ranked)
    BY <1>2, <2>1 DEF RowsTyped, Tables
  <2>5. RowsAgree(job.ranked)'
    BY <2>1, <2>2, <2>3, <2>4 DEF RowsAgree
  <2> QED BY <1>2, <2>1, <2>5 DEF Saved
<1> QED BY <1>1, <1>2 DEF PersistRows

LEMMA SavedTop ==
    ASSUME Typed, Saved, PersistTop
    PROVE  Saved'
<1>1. CASE Fails
  BY <1>1, SavedFails
<1>2. CASE db' = [db EXCEPT !.stable = StableKeys(job.ranked)] /\ pc' = "clean"
  <2>1. pc = "top" /\ UNCHANGED <<job, used, cleaned>> /\ db \in Tables
    BY DEF Typed, RowsTyped, PersistTop
  <2>2. db'.rows = db.rows /\ db'.stable = StableKeys(job.ranked)
    BY <1>2, <2>1 DEF Tables
  <2>3. Agrees(job.ranked, job.config.topN)'
    BY <2>1, <2>2 DEF Saved, Agrees, RowsAgree, TopAgrees, StableKeys
  <2> QED BY <1>2, <2>1, <2>3 DEF Saved
<1> QED BY <1>1, <1>2 DEF PersistTop

(* Cleaning the cache only takes away.                                      *)
LEMMA SavedCache ==
    ASSUME Typed, Saved, CleanCache
    PROVE  Saved'
<1>1. UNCHANGED <<pc, job, used, state>> /\ cleaned' = TRUE
  BY DEF CleanCache
<1>2. db'.stable \in {{}, db.stable} /\ \A k \in Keys : db'.rows[k] = NoRow
  BY DEF CleanCache, NoRows
<1>3. Proper(job.ranked) /\ Proper(state.ranked)
  BY DEF Typed, StateTyped, States, JobTyped, Jobs, Proper
<1>4. ASSUME NEW list, Proper(list) PROVE \A e \in ToSet(Reachable(list)) : e.key \in Keys
  <2>1. ToSet(Reachable(list)) \subseteq Entry
    <3>1. Reachable(list) \in Seq(Entry)
      BY <1>4, ReachableIs DEF Proper
    <3> QED BY <3>1 DEF ToSet
  <2> QED BY <2>1 DEF Entry
<1>5. /\ RowsAgree(job.ranked)' /\ RowsAgree(state.ranked)'
      /\ \A e \in ToSet(Reachable(state.ranked)) : db'.rows[e.key] = NoRow
  BY <1>1, <1>2, <1>3, <1>4 DEF RowsAgree
<1>6. TopAgrees(job.ranked, job.config.topN) => TopAgrees(job.ranked, job.config.topN)'
  BY <1>1, <1>2 DEF TopAgrees
<1>7. TopAgrees(state.ranked, used.topN) => TopAgrees(state.ranked, used.topN)'
  BY <1>1, <1>2 DEF TopAgrees
<1> QED BY <1>1, <1>5, <1>6, <1>7 DEF Saved, Agrees

LEMMA SavedClean ==
    ASSUME Typed, Saved, CleanOffline
    PROVE  Saved'
<1>1. CASE Fails
  BY <1>1, SavedFails
<1>2. CASE /\ \E gone \in SUBSET Cleanable :
                db' = [db EXCEPT !.rows = [k \in Keys |-> IF k \in gone THEN NoRow ELSE @[k]]]
           /\ pc' = "publish"
  <2>1. PICK gone \in SUBSET Cleanable :
            db' = [db EXCEPT !.rows = [k \in Keys |-> IF k \in gone THEN NoRow ELSE @[k]]]
    BY <1>2
  <2>2. /\ Proper(job.ranked) /\ db \in Tables /\ pc = "clean"
        /\ UNCHANGED <<job, used, cleaned>>
    BY DEF Typed, JobTyped, Jobs, Proper, CleanOffline, RowsTyped
  <2>3. db'.stable = db.stable /\ \A k \in Keys \ gone : db'.rows[k] = db.rows[k]
    BY <2>1, <2>2 DEF Tables
  <2>4. ASSUME NEW e \in ToSet(Reachable(job.ranked)) PROVE e.key \in Keys \ gone
    <3>1. e \in ToSet(job.ranked) /\ e.up
      BY <2>2, ReachableIs DEF Proper
    <3>2. e.key \in Keys /\ e.key \in KeysOf(job.ranked)
      BY <2>2, <3>1, KeysAre DEF Proper
    <3>3. db.rows[e.key] \in {e, NoRow}
      BY <2>2 DEF Saved, Agrees, RowsAgree
    <3> QED BY <2>1, <3>1, <3>2, <3>3 DEF Cleanable, Rows
  <2>5. Agrees(job.ranked, job.config.topN)'
    BY <2>2, <2>3, <2>4 DEF Saved, Agrees, RowsAgree, TopAgrees
  <2> QED BY <1>2, <2>2, <2>5 DEF Saved
<1> QED BY <1>1, <1>2 DEF CleanOffline

LEMMA SavedStep ==
    Typed /\ Drained /\ Saved /\ [Next]_vars => Saved'
<1> SUFFICES ASSUME Typed, Drained, Saved, [Next]_vars PROVE Saved'
  OBVIOUS
<1>1. watched \in Settings /\ job \in Jobs
  BY DEF Typed, ConfigTyped, JobTyped
<1>2. CASE FirstRefresh \/ TimerFires
  BY <1>1, <1>2, SavedStart DEF FirstRefresh, TimerFires
<1>3. CASE ConfigChanged
  <2>1. CASE StartRefresh(watched)
    BY <1>1, <2>1, SavedStart
  <2>2. CASE pc = "idle" /\ pc' = "handoff" /\ UNCHANGED <<used, state, db, cleaned>>
    BY <2>2 DEF Saved, Agrees, RowsAgree, TopAgrees
  <2> QED BY <1>3, <2>1, <2>2 DEF ConfigChanged
<1>4. ASSUME NEW s \in Sources, NEW ok \in BOOLEAN, FetchAnswer(s, ok) PROVE Saved'
  <2>1. job'.config = job.config /\ pc = "fetch" /\ pc' = pc /\ used' = used
    BY <1>1, <1>4 DEF FetchAnswer, Jobs
  <2> QED BY <2>1, SavedInside
<1>5. CASE DirectLoad \/ RetryLoad
  <2>1. job'.config = job.config
    BY <1>1, <1>5 DEF DirectLoad, RetryLoad, FetchDone, Loaded, Jobs
  <2>2. pc = "fetch" /\ pc' = "probe" /\ used' = used
    BY <1>5 DEF DirectLoad, RetryLoad, FetchDone
  <2> QED BY <2>1, <2>2, SavedInside
<1>6. CASE ProbeDone
  <2>1. pc' \in {"retry", "fallback", "join"}
    BY <1>6 DEF ProbeDone, NextStage, Typed, PcTyped
  <2>2. job'.config = job.config /\ pc = "probe" /\ used' = used
    BY <1>1, <1>6 DEF ProbeDone, Jobs
  <2> QED BY <2>1, <2>2, SavedInside
<1>7. ASSUME NEW batch, NEW lats, ProbeBatch(batch, lats) PROVE Saved'
  <2>1. job'.config = job.config /\ pc = "probe" /\ pc' = pc /\ used' = used
    BY <1>1, <1>7 DEF ProbeBatch, Jobs
  <2> QED BY <2>1, SavedInside
<1>8. CASE Retry \/ Fallback
  <2>1. job'.config = job.config
    BY <1>1, <1>8 DEF Retry, Fallback, Jobs
  <2>2. pc \in {"retry", "fallback"} /\ pc' \in {"fetch", "fallback", "probe", "join"}
        /\ used' = used
    BY <1>8 DEF Retry, Fallback
  <2> QED BY <2>1, <2>2, SavedInside
<1>9. CASE Join
  <2>1. CASE state' = record_refresh_error /\ pc' = "handoff"
    BY <2>1, ErrorRecorded DEF Saved
  <2>2. CASE /\ job' = [job EXCEPT !.ranked = FinalRanking(@, NewCounts),
                                   !.previous.counts = NewCounts]
             /\ pc' = "persist"
    <3>1. job'.config = job.config /\ pc = "join" /\ used' = used
      BY <1>1, <1>9, <2>2 DEF Join, Jobs
    <3> QED BY <2>2, <3>1, SavedInside
  <2> QED BY <1>9, <2>1, <2>2 DEF Join
<1>10. CASE PersistRows \/ PersistTop \/ CleanOffline \/ CleanCache
  BY <1>10, SavedRows, SavedTop, SavedClean, SavedCache
<1>11. CASE Publish
  <2>1. /\ state'.ranked = job.ranked /\ pc' = "handoff" /\ pc = "publish"
        /\ UNCHANGED <<used, db, cleaned>>
    BY <1>11 DEF Publish
  <2>2. used = Fingerprint(job.config) /\ Agrees(job.ranked, job.config.topN)
    BY <2>1 DEF Saved
  <2>3. used.topN = job.config.topN
    BY <2>2, PrintIs
  <2> QED BY <2>1, <2>2, <2>3 DEF Saved, Agrees, RowsAgree, TopAgrees
<1>12. CASE Handoff
  BY <1>12 DEF Handoff, Saved, Agrees, RowsAgree, TopAgrees
<1>13. CASE ForwardEvent
  <2>1. /\ UNCHANGED <<pc, job, used, db>> /\ events # <<>>
    BY <1>13 DEF ForwardEvent
  <2>2. pc \notin {"idle", "handoff", "top", "clean", "publish"}
    BY <2>1 DEF Drained
  <2> QED BY <2>1, <2>2 DEF Saved
<1>14. CASE Edit \/ FirstLook \/ WatcherPolls
  <2>1. UNCHANGED <<pc, job, used, db, cleaned, state>>
    BY <1>14 DEF Edit, SaveFile, FirstLook, WatcherPolls
  <2> QED BY <2>1 DEF Saved, Agrees, RowsAgree, TopAgrees
<1>15. CASE Restart
  BY <1>15 DEF Restart, Saved
<1>16. CASE UNCHANGED vars
  <2>1. UNCHANGED <<pc, job, used, db, cleaned, state>>
    BY <1>16 DEF vars
  <2> QED BY <2>1 DEF Saved, Agrees, RowsAgree, TopAgrees
<1> QED BY <1>2, <1>3, <1>4, <1>5, <1>6, <1>7, <1>8, <1>9, <1>10, <1>11, <1>12, <1>13, <1>14,
           <1>15, <1>16 DEF Next, RefreshStep

(* After a run that reported no error the database agrees with what is      *)
(* published: the saved top keys are the ones served first, and every       *)
(* working entry is stored as it was ranked (main.rs, the persist step),    *)
(* except for what the cleaning of the cache has taken away since.          *)
THEOREM StoredAsPublished ==
    Spec => []PersistedAsPublished
<1>1. Init => Drained /\ Saved
  BY DEF Init, Drained, Saved, EmptyState
<1>2. Saved => PersistedAsPublished
  BY DEF Saved, Agrees, RowsAgree, TopAgrees, PersistedAsPublished
<1> QED BY <1>1, <1>2, TypedAlways, DrainedStep, SavedStep, PTL DEF Spec

-------------------------------------------------------------------------------
(* What is ranked.                                                         *)

LEMMA BatchIs ==
    ASSUME Typed, NEW batch, NEW lats \in Measurements(batch), ProbeBatch(batch, lats)
    PROVE  /\ batch \subseteq job.todo /\ job'.todo \subseteq job.todo \ batch
           /\ ToSet(job'.call) = ToSet(job.call) \cup {Outcome(c, lats[c]) : c \in batch}
           /\ KeysOf(job'.call) = KeysOf(job.call) \cup KeysIn(batch)
           /\ job.config.scanAll \/ ~job.config.active => job'.todo = job.todo \ batch
           /\ job'.ranked = job.ranked /\ job'.seen = job.seen /\ job'.config = job.config
           /\ job'.phase = job.phase /\ job'.failed = job.failed /\ job'.errors = job.errors
           /\ pc = "probe" /\ pc' = "probe"
<1> DEFINE results == InOrder({Outcome(c, lats[c]) : c \in batch}, compare_ranked)
           found   == job.call \o results
           stops   == Stops(found, CallTop, \A c \in job.todo \ batch : c.key \notin job.top)
<1>1. /\ job \in Jobs /\ pc = "probe" /\ pc' = pc /\ batch \subseteq job.todo
  BY DEF Typed, JobTyped, ProbeBatch
<1>2. /\ job'.call = found /\ job'.todo = IF stops THEN {} ELSE job.todo \ batch
      /\ job'.ranked = job.ranked /\ job'.seen = job.seen /\ job'.config = job.config
      /\ job'.phase = job.phase /\ job'.failed = job.failed /\ job'.errors = job.errors
  BY <1>1 DEF ProbeBatch, Jobs
<1>3. batch \in SUBSET Candidate /\ KeyedTodo(batch)
  BY <1>1 DEF Typed, Apart, KeyedTodo, Jobs
<1>4. /\ Proper(results) /\ KeysOf(results) = KeysIn(batch)
      /\ ToSet(results) = {Outcome(c, lats[c]) : c \in batch}
  BY <1>3, ResultsAre
<1>5. job.config.scanAll \/ ~job.config.active => ~stops
  BY DEF Stops
<1> HIDE DEF results, stops
<1>6. results \in Seq(Entry) /\ job.call \in Seq(Entry)
  BY <1>1, <1>4 DEF Proper, Jobs
<1>7. /\ ToSet(found) = ToSet(job.call) \cup ToSet(results)
      /\ KeysOf(found) = KeysOf(job.call) \cup KeysOf(results)
  BY <1>6, JoinedLists
<1> QED BY <1>1, <1>2, <1>4, <1>5, <1>7

LEMMA NothingRanked ==
    ASSUME Typed, job.seen = {}
    PROVE  ToSet(job.ranked) = {} /\ ToSet(job.call) = {}
<1>1. KeysOf(job.ranked) = {} /\ KeysOf(job.call) = {}
  BY DEF Typed, Apart
<1>2. job.ranked \in Seq(Entry) /\ job.call \in Seq(Entry)
  BY DEF Typed, JobTyped, Jobs
<1>3. /\ KeysOf(job.ranked) = {e.key : e \in ToSet(job.ranked)}
      /\ KeysOf(job.call) = {e.key : e \in ToSet(job.call)}
  BY <1>2, KeysAre
<1> QED BY <1>1, <1>3

LEMMA DirectFirst ==
    ASSUME Typed, DirectLoad
    PROVE  FirstSourceWins'
<1> DEFINE new == FetchMerged(job.arrived)
           answered == ToSet(Answered(job.arrived))
           bad == {s \in job.config.subs : s \notin answered}
<1>1. job \in Jobs /\ job.arrived \in Seq(Answers) /\ pc = "fetch" /\ job.phase = "direct"
  BY DEF Typed, JobTyped, Jobs, DirectLoad, FetchDone
<1>2. ToSet(job.ranked) = {} /\ ToSet(job.call) = {}
  BY <1>1, NothingRanked DEF Typed, PcTyped
<1>3. \A c \in new, s \in answered : s < c.src => c.key \notin Doc[s]
  BY <1>1, MergedIs
<1>4. new \in SUBSET Candidate
  BY <1>1, MergedIs
<1>5. job' = [Loaded(new) EXCEPT !.failed = bad, !.errors = bad]
  BY DEF DirectLoad, FetchDone
<1> HIDE DEF new, answered
<1>6. Loads(Loaded(new), new)
  BY <1>4, LoadedIs
<1>7. /\ job'.todo = new /\ job'.call = job.call /\ job'.ranked = job.ranked
      /\ job'.config = job.config /\ job'.failed = bad
  BY <1>5, <1>6 DEF Loads, Jobs
<1>8. \A s \in job'.config.subs \ job'.failed : s \in answered
  BY <1>7
<1> QED BY <1>2, <1>3, <1>7, <1>8 DEF FirstSourceWins

LEMMA FirstStep ==
    Typed /\ FirstSourceWins /\ [Next]_vars => FirstSourceWins'
<1> SUFFICES ASSUME Typed, FirstSourceWins, [Next]_vars PROVE FirstSourceWins'
  OBVIOUS
<1>1. job \in Jobs
  BY DEF Typed, JobTyped
<1>2. ASSUME NEW c, StartRefresh(c) PROVE FirstSourceWins'
  <2>1. CASE c.cacheOnly
    <3>1. job'.config.cacheOnly
      BY <1>2, <2>1 DEF StartRefresh, NoJob
    <3> QED BY <3>1 DEF FirstSourceWins
  <2>2. CASE ~c.cacheOnly
    BY <1>2, <2>2 DEF StartRefresh, FirstSourceWins
  <2> QED BY <2>1, <2>2
<1>3. CASE FirstRefresh \/ TimerFires
  BY <1>2, <1>3 DEF FirstRefresh, TimerFires
<1>4. CASE ConfigChanged
  <2>1. CASE StartRefresh(watched)
    BY <1>2, <2>1
  <2>2. CASE pc' = "handoff"
    BY <2>2 DEF FirstSourceWins
  <2> QED BY <1>4, <2>1, <2>2 DEF ConfigChanged
<1>5. ASSUME NEW s \in Sources, NEW ok \in BOOLEAN, FetchAnswer(s, ok) PROVE FirstSourceWins'
  BY <1>5 DEF FetchAnswer, FirstSourceWins
<1>6. CASE DirectLoad
  BY <1>6, DirectFirst
<1>7. CASE RetryLoad
  <2>1. /\ job.phase = "retry" /\ job.arrived \in Seq(Answers)
    BY <1>1, <1>7 DEF RetryLoad, Jobs
  <2>2. job'.phase = "retry"
    BY <1>1, <1>7, <2>1 DEF RetryLoad, FetchDone, Loaded, Jobs
  <2> QED BY <2>2 DEF FirstSourceWins
<1>8. CASE ProbeDone
  <2>1. /\ job'.ranked = job.ranked \o Sorted(job.call, compare_ranked) /\ job'.call = <<>>
        /\ job'.todo = {} /\ job'.phase = job.phase /\ job'.config = job.config
        /\ job'.failed = job.failed /\ pc = "probe"
    BY <1>1, <1>8 DEF ProbeDone, Jobs
  <2>2. ToSet(job'.ranked) = ToSet(job.ranked) \cup ToSet(job.call) /\ ToSet(job'.call) = {}
    BY <2>1, CallRankedIs, NothingIsTyped
  <2> QED BY <2>1, <2>2 DEF FirstSourceWins
<1>9. ASSUME NEW batch, NEW lats \in Measurements(batch), ProbeBatch(batch, lats)
      PROVE  FirstSourceWins'
  <2>1. /\ batch \subseteq job.todo /\ job'.todo \subseteq job.todo
        /\ ToSet(job'.call) = ToSet(job.call) \cup {Outcome(c, lats[c]) : c \in batch}
        /\ job'.ranked = job.ranked /\ job'.config = job.config
        /\ job'.phase = job.phase /\ job'.failed = job.failed /\ pc = "probe"
    BY <1>9, BatchIs
  <2>2. \A c : Outcome(c, lats[c]).key = c.key /\ Outcome(c, lats[c]).src = c.src
    BY DEF Outcome
  <2> QED BY <2>1, <2>2, SMTT(60) DEF FirstSourceWins
<1>10. CASE Retry \/ Fallback
  <2>1. CASE Retry
    BY <2>1 DEF Retry, FirstSourceWins
  <2>2. CASE Fallback
    <3>1. pc' = "join" \/ job'.phase = "fallback"
      BY <1>1, <2>2 DEF Fallback, Jobs
    <3>2. pc' \in {"join", "probe"}
      BY <2>2 DEF Fallback
    <3> QED BY <3>1, <3>2 DEF FirstSourceWins
  <2> QED BY <1>10, <2>1, <2>2
<1>11. CASE Join \/ PersistRows \/ PersistTop \/ CleanOffline \/ Publish \/ Handoff
  <2>1. pc' \in {"handoff", "persist", "top", "clean", "publish", "idle"}
    BY <1>11 DEF Join, PersistRows, PersistTop, CleanOffline, Publish, Handoff, Fails
  <2> QED BY <2>1 DEF FirstSourceWins
<1>12. CASE ForwardEvent \/ Edit \/ FirstLook \/ WatcherPolls \/ CleanCache
  BY <1>12 DEF ForwardEvent, Edit, SaveFile, FirstLook, WatcherPolls, CleanCache,
               FirstSourceWins
<1>13. CASE Restart
  BY <1>13 DEF Restart, FirstSourceWins
<1>14. CASE UNCHANGED vars
  BY <1>14 DEF vars, FirstSourceWins
<1> QED BY <1>3, <1>4, <1>5, <1>6, <1>7, <1>8, <1>9, <1>10, <1>11, <1>12, <1>13, <1>14
        DEF Next, RefreshStep

(* Whatever the order the sources answer in, an entry belongs to the first  *)
(* of the sources that answered and list it                                 *)
(* (subscription.rs:fetch_sources_with_client).                             *)
THEOREM FirstSource ==
    Spec => []FirstSourceWins
<1>1. Init => FirstSourceWins
  BY DEF Init, FirstSourceWins
<1> QED BY <1>1, TypedAlways, FirstStep, PTL DEF Spec

(* What has been seen is ranked, tested or left to test when the run tests   *)
(* everything, and every document that was read has been seen.              *)
TestsAll(c) == ~c.cacheOnly /\ (c.scanAll \/ ~c.active)

Accounted ==
    /\ pc \notin {"idle", "handoff"} /\ TestsAll(job.config) =>
          job.seen \subseteq KeysOf(job.ranked) \cup KeysOf(job.call) \cup KeysIn(job.todo)
    /\ /\ pc \notin {"idle", "handoff"} /\ ~job.config.cacheOnly
       /\ pc = "fetch" => job.phase # "direct"
       => \A s \in job.config.subs :
             s \notin job.failed \/ s \notin job.errors => Doc[s] \subseteq job.seen

LEMMA DirectAccounted ==
    ASSUME Typed, Accounted, DirectLoad
    PROVE  Accounted'
<1> DEFINE new == FetchMerged(job.arrived)
           answered == ToSet(Answered(job.arrived))
           bad == {s \in job.config.subs : s \notin answered}
<1>1. job \in Jobs /\ job.arrived \in Seq(Answers) /\ pc = "fetch" /\ job.phase = "direct"
  BY DEF Typed, JobTyped, Jobs, DirectLoad, FetchDone
<1>2. \A s \in answered : Doc[s] \subseteq KeysIn(new)
  BY <1>1, MergedIs
<1>3. new \in SUBSET Candidate
  BY <1>1, MergedIs
<1>4. job' = [Loaded(new) EXCEPT !.failed = bad, !.errors = bad]
  BY DEF DirectLoad, FetchDone
<1>5. job.seen = {}
  BY <1>1 DEF Typed, PcTyped
<1> HIDE DEF new, answered
<1>6. Loads(Loaded(new), new)
  BY <1>3, LoadedIs
<1>7. /\ job'.todo = new /\ job'.seen = KeysIn(new)
      /\ job'.config = job.config /\ job'.failed = bad /\ job'.errors = bad
  BY <1>4, <1>5, <1>6 DEF Loads, Jobs
<1> QED BY <1>2, <1>7 DEF Accounted

LEMMA RetryAccounted ==
    ASSUME Typed, Accounted, RetryLoad
    PROVE  Accounted'
<1> DEFINE new == Unseen(job.arrived)
           answered == ToSet(Answered(job.arrived))
           bad == merged_fetch_errors(answered)
<1>1. job \in Jobs /\ job.arrived \in Seq(Answers) /\ pc = "fetch" /\ job.phase = "retry"
  BY DEF Typed, JobTyped, Jobs, RetryLoad, FetchDone
<1>2. /\ \A s \in answered : Doc[s] \subseteq KeysIn(FetchMerged(job.arrived))
      /\ FetchMerged(job.arrived) \in SUBSET Candidate
  BY <1>1, MergedIs
<1>3. new \in SUBSET Candidate /\ KeysIn(FetchMerged(job.arrived)) \subseteq job.seen \cup KeysIn(new)
  BY <1>2 DEF Unseen, KeysIn
<1>4. job' = [Loaded(new) EXCEPT !.errors = bad]
  BY DEF RetryLoad, FetchDone
<1>5. bad = job.failed \ answered
  BY DEF merged_fetch_errors
<1> HIDE DEF new, answered, bad
<1>6. Loads(Loaded(new), new) /\ Loaded(new).failed = job.failed
  BY <1>3, LoadedIs
<1>7. /\ job'.todo = new /\ job'.seen = job.seen \cup KeysIn(new)
      /\ job'.ranked = job.ranked /\ job'.call = job.call
      /\ job'.config = job.config /\ job'.failed = job.failed /\ job'.errors = bad
  BY <1>4, <1>6 DEF Loads, Jobs
<1>8. ASSUME TestsAll(job'.config)
      PROVE  job'.seen \subseteq KeysOf(job'.ranked) \cup KeysOf(job'.call) \cup KeysIn(job'.todo)
  <2>1. TestsAll(job.config)
    BY <1>7, <1>8
  <2>2. job.seen \subseteq KeysOf(job.ranked) \cup KeysOf(job.call) \cup KeysIn(job.todo)
    BY <1>1, <2>1 DEF Accounted
  <2>3. job.todo = {} /\ KeysIn(job.todo) = {}
    BY <1>1 DEF Typed, PcTyped, KeysIn
  <2> QED BY <1>7, <2>2, <2>3
<1>9. ASSUME NEW s \in job'.config.subs, s \notin job'.failed \/ s \notin job'.errors,
             ~job'.config.cacheOnly
      PROVE  Doc[s] \subseteq job'.seen
  <2>1. CASE s \notin job.failed
    BY <1>1, <1>7, <1>9, <2>1 DEF Accounted
  <2>2. CASE s \in answered
    BY <1>2, <1>3, <1>7, <2>2
  <2> QED BY <1>5, <1>7, <1>9, <2>1, <2>2
<1> QED BY <1>8, <1>9 DEF Accounted

LEMMA AccountedStep ==
    Typed /\ Accounted /\ [Next]_vars => Accounted'
<1> SUFFICES ASSUME Typed, Accounted, [Next]_vars PROVE Accounted'
  OBVIOUS
<1>1. job \in Jobs
  BY DEF Typed, JobTyped
<1>2. ASSUME NEW c, StartRefresh(c) PROVE Accounted'
  <2>1. CASE c.cacheOnly
    <3>1. job'.config.cacheOnly
      BY <1>2, <2>1 DEF StartRefresh, NoJob
    <3> QED BY <3>1 DEF Accounted, TestsAll
  <2>2. CASE ~c.cacheOnly
    <3>1. pc' = "fetch" /\ job'.phase = "direct" /\ job'.seen = {}
      BY <1>2, <2>2 DEF StartRefresh, NoJob
    <3> QED BY <3>1 DEF Accounted
  <2> QED BY <2>1, <2>2
<1>3. CASE FirstRefresh \/ TimerFires
  BY <1>2, <1>3 DEF FirstRefresh, TimerFires
<1>4. CASE ConfigChanged
  <2>1. CASE StartRefresh(watched)
    BY <1>2, <2>1
  <2>2. CASE pc' = "handoff"
    BY <2>2 DEF Accounted
  <2> QED BY <1>4, <2>1, <2>2 DEF ConfigChanged
<1>5. ASSUME NEW s \in Sources, NEW ok \in BOOLEAN, FetchAnswer(s, ok) PROVE Accounted'
  <2>1. /\ job'.ranked = job.ranked /\ job'.call = job.call /\ job'.todo = job.todo
        /\ job'.seen = job.seen /\ job'.config = job.config /\ job'.failed = job.failed
        /\ job'.errors = job.errors /\ job'.phase = job.phase /\ pc' = pc
    BY <1>1, <1>5 DEF FetchAnswer, Jobs
  <2> QED BY <2>1 DEF Accounted
<1>6. CASE DirectLoad \/ RetryLoad
  BY <1>6, DirectAccounted, RetryAccounted
<1>7. CASE ProbeDone
  <2>1. /\ job'.ranked = job.ranked \o Sorted(job.call, compare_ranked) /\ job.todo = {}
        /\ job'.seen = job.seen /\ job'.config = job.config /\ job'.failed = job.failed
        /\ job'.errors = job.errors /\ pc = "probe"
    BY <1>1, <1>7 DEF ProbeDone, Jobs
  <2>2. KeysOf(job'.ranked) = KeysOf(job.ranked) \cup KeysOf(job.call) /\ KeysIn(job.todo) = {}
    BY <2>1, CallRankedIs DEF KeysIn
  <2> QED BY <2>1, <2>2 DEF Accounted
<1>8. ASSUME NEW batch, NEW lats \in Measurements(batch), ProbeBatch(batch, lats)
      PROVE  Accounted'
  <2>1. /\ KeysOf(job'.call) = KeysOf(job.call) \cup KeysIn(batch)
        /\ job.config.scanAll \/ ~job.config.active => job'.todo = job.todo \ batch
        /\ job'.ranked = job.ranked /\ job'.seen = job.seen /\ job'.config = job.config
        /\ job'.failed = job.failed /\ job'.errors = job.errors /\ pc = "probe" /\ pc' = "probe"
    BY <1>8, BatchIs
  <2>2. KeysIn(job.todo) \subseteq KeysIn(job.todo \ batch) \cup KeysIn(batch)
    BY DEF KeysIn
  <2> QED BY <2>1, <2>2 DEF Accounted, TestsAll
<1>9. CASE Retry
  <2>1. /\ job'.ranked = job.ranked /\ job'.call = job.call /\ job'.todo = job.todo
        /\ job'.seen = job.seen /\ job'.config = job.config /\ job'.failed = job.failed
        /\ job'.errors = job.errors /\ pc = "retry"
    BY <1>1, <1>9 DEF Retry, Jobs
  <2> QED BY <2>1 DEF Accounted
<1>10. CASE Fallback
  <2>1. CASE job' = job /\ pc = "fallback"
    BY <2>1 DEF Accounted
  <2>2. ASSUME NEW list, Proper(list), pc = "fallback",
               job' = [job EXCEPT !.phase = "fallback", !.todo = Candidates(list),
                                  !.fetched = @ \cup KeysOf(list),
                                  !.seen = @ \cup KeysOf(list)]
        PROVE  Accounted'
    <3>1. /\ job'.ranked = job.ranked /\ job'.call = job.call
          /\ job'.todo = Candidates(list) /\ job'.seen = job.seen \cup KeysOf(list)
          /\ job'.config = job.config /\ job'.failed = job.failed
          /\ job'.errors = job.errors
      BY <1>1, <2>2 DEF Jobs
    <3>2. KeysIn(Candidates(list)) = KeysOf(list) /\ KeysIn(job.todo) = {}
      BY <2>2, CandidatesIs DEF Typed, PcTyped, KeysIn
    <3> QED BY <2>2, <3>1, <3>2 DEF Accounted
  <2> DEFINE stored == load_ranked_configs(job.config.topN)
             places == {i \in DOMAIN stored : stored[i].key \notin job.seen}
  <2>3. pc = "fallback" /\ job.config \in Settings
    BY <1>10 DEF Typed, PcTyped, Fallback
  <2>4. Proper(stored)
    BY <2>3, SettingIs, LoadIs DEF Typed
  <2>5. \/ job' = job
        \/ job' = [job EXCEPT !.phase = "fallback", !.todo = Candidates(Filtered(stored, places)),
                              !.fetched = @ \cup KeysOf(Filtered(stored, places)),
                              !.seen = @ \cup KeysOf(Filtered(stored, places))]
    BY <1>10 DEF Fallback
  <2> HIDE DEF stored
  <2>6. places \in SUBSET (1 .. Len(stored))
    BY <2>4, ListFacts DEF Proper
  <2> HIDE DEF places
  <2>7. Proper(Filtered(stored, places))
    BY <2>4, <2>6, FilteredProper
  <2> QED BY <2>1, <2>2, <2>3, <2>5, <2>7
<1>11. CASE Join
  <2>1. CASE pc' = "handoff"
    BY <2>1 DEF Accounted
  <2>2. CASE job' = [job EXCEPT !.ranked = FinalRanking(@, NewCounts),
                                !.previous.counts = NewCounts]
    <3>1. /\ job'.ranked = FinalRanking(job.ranked, NewCounts) /\ job'.call = job.call
          /\ job'.todo = job.todo /\ job'.seen = job.seen /\ job'.config = job.config
          /\ job'.failed = job.failed /\ job'.errors = job.errors /\ pc = "join"
      BY <1>1, <1>11, <2>2 DEF Join, Jobs
    <3>2. KeysOf(job'.ranked) = KeysOf(job.ranked)
      BY <1>1, <3>1, FinalRankingIs, NewCountsIs DEF Typed, Jobs
    <3> QED BY <3>1, <3>2 DEF Accounted
  <2> QED BY <1>11, <2>1, <2>2 DEF Join
<1>12. CASE PersistRows \/ PersistTop \/ CleanOffline \/ Publish \/ Handoff
  <2>1. /\ pc' \in {"handoff", "idle"} \/ job' = job
        /\ pc \notin {"idle", "fetch"} /\ pc' # "fetch" /\ (pc = "handoff" => pc' = "idle")
    BY <1>12 DEF PersistRows, PersistTop, CleanOffline, Publish, Handoff, Fails
  <2> QED BY <2>1 DEF Accounted
<1>13. CASE ForwardEvent \/ Edit \/ FirstLook \/ WatcherPolls \/ CleanCache
  BY <1>13 DEF ForwardEvent, Edit, SaveFile, FirstLook, WatcherPolls, CleanCache, Accounted
<1>14. CASE Restart
  BY <1>14 DEF Restart, Accounted
<1>15. CASE UNCHANGED vars
  BY <1>15 DEF vars, Accounted
<1> QED BY <1>3, <1>4, <1>5, <1>6, <1>7, <1>8, <1>9, <1>10, <1>11, <1>12, <1>13, <1>14,
           <1>15 DEF Next, RefreshStep

(* A run that scans everything ranks every entry of every source that       *)
(* answered, directly or through the proxied retry, and what it ranks has   *)
(* one entry for each key it loaded (main.rs:refresh_once).                 *)
THEOREM EverythingRanked ==
    Spec => []AllRanked
<1>1. Init => Accounted
  BY DEF Init, Accounted
<1>2. Typed /\ Accounted => AllRanked
  <2> SUFFICES ASSUME Typed, Accounted, pc \in {"persist", "top", "clean", "publish"},
                      TestsAll(job.config)
               PROVE  /\ KeysOf(job.ranked) = job.seen
                      /\ \A s \in job.config.subs \ job.errors :
                            Doc[s] \subseteq KeysOf(job.ranked)
    BY DEF AllRanked, TestsAll
  <2>1. job.todo = {} /\ job.call = <<>>
    BY DEF Typed, PcTyped
  <2>2. KeysIn(job.todo) = {} /\ KeysOf(job.call) = {}
    BY <2>1, NothingIsTyped DEF KeysIn
  <2>3. KeysOf(job.ranked) = job.seen
    BY <2>2 DEF Accounted, Typed, Apart
  <2> QED BY <2>3 DEF Accounted, TestsAll
<1> QED BY <1>1, <1>2, TypedAlways, AccountedStep, PTL DEF Spec
================================================================================
