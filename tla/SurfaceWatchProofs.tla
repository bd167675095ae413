-------------------------- MODULE SurfaceWatchProofs --------------------------
(***************************************************************************)
(* Theorems of SurfaceWatch, for every number of pages and requests, every *)
(* site and every cap.  The first half is about SurfaceSelection alone:    *)
(* its sort puts the pages in order, its walk gives a place to each page   *)
(* that is worthy, and its cut takes the best of them, as does the copy of  *)
(* the rules that the migration 0028 keeps.                                *)
(***************************************************************************)
EXTENDS SurfaceWatch, FiniteSetTheorems, SequenceTheorems, WellFoundedInduction, TLAPS

-----------------------------------------------------------------------------
(* Counting up.                                                            *)

LEMMA Smallest ==
  ASSUME NEW T \in SUBSET Nat, T # {}
  PROVE  \E i \in T : \A j \in T : i <= j
<1>1. PICK i \in T : \A j \in T : <<j, i>> \notin OpToRel(<, Nat)
  BY NatLessThanWellFounded, WFMin
<1>2. \A j \in T : ~(j < i)
  BY <1>1 DEF OpToRel
<1> QED
  BY <1>2

\* Induction up to n, over a set.
LEMMA Upwards ==
  ASSUME NEW n \in Nat, NEW T, 0 \in T, \A k \in 0..(n - 1) : k \in T => k + 1 \in T
  PROVE  \A k \in 0..n : k \in T
<1> DEFINE D == {k \in 0..n : k \notin T}
<1> SUFFICES ASSUME D # {} PROVE FALSE
  OBVIOUS
<1>1. PICK m \in D : \A j \in D : m <= j
  <2> D \in SUBSET Nat
    OBVIOUS
  <2> HIDE DEF D
  <2> QED
    BY Smallest
<1>2. m # 0 /\ m - 1 \in 0..(n - 1) /\ m - 1 \in T
  BY <1>1
<1> QED
  BY <1>1, <1>2

\* Among positions there is a first.
LEMMA Least ==
  ASSUME NEW n \in Nat, NEW T \in SUBSET (1..n), T # {}
  PROVE  \E i \in T : \A j \in 1..(i - 1) : j \notin T
<1>1. PICK i \in T : \A j \in T : i <= j
  <2>1. T \in SUBSET Nat
    OBVIOUS
  <2> QED
    BY <2>1, Smallest
<1> QED
  BY <1>1

-----------------------------------------------------------------------------
(* Putting pages in order.                                                 *)

\* rank tells any two pages of S apart, and goes one way.
Orders(S, rank) ==
    /\ \A p \in S : ~Less(rank[p], rank[p])
    /\ \A p, q, r \in S : Less(rank[p], rank[q]) /\ Less(rank[q], rank[r]) => Less(rank[p], rank[r])
    /\ \A p, q \in S : p # q => Less(rank[p], rank[q]) \/ Less(rank[q], rank[p])

LEMMA OrderedIs ==
  ASSUME NEW S, IsFiniteSet(S), NEW rank, Orders(S, rank)
  PROVE  /\ Ordered(S, rank) \in [1..Cardinality(S) -> S]
         /\ \A p \in S : \E i \in 1..Cardinality(S) : Ordered(S, rank)[i] = p
         /\ \A i, j \in 1..Cardinality(S) :
              i < j <=> Less(rank[Ordered(S, rank)[i]], rank[Ordered(S, rank)[j]])
<1> DEFINE n == Cardinality(S)
           o == Ordered(S, rank)
           B(p) == {q \in S : Less(rank[q], rank[p])}
           c == [p \in S |-> Cardinality(B(p))]
<1>1. n \in Nat
  BY FS_CardinalityType
<1>2. ASSUME NEW p \in S
      PROVE  IsFiniteSet(B(p)) /\ Cardinality(B(p)) \in Nat /\ Cardinality(B(p)) <= n - 1
  <2>1. B(p) \in SUBSET (S \ {p})
    BY DEF Orders
  <2>2. IsFiniteSet(S \ {p}) /\ Cardinality(S \ {p}) = n - 1
    BY FS_RemoveElement
  <2>3. IsFiniteSet(B(p)) /\ Cardinality(B(p)) <= n - 1
    BY <2>1, <2>2, FS_Subset
  <2> QED
    BY <2>3, FS_CardinalityType
<1>3. c \in [S -> 0..(n - 1)]
  BY <1>1, <1>2
<1>4. ASSUME NEW p \in S, NEW q \in S, Less(rank[p], rank[q]) PROVE c[p] < c[q]
  <2>1. p \in B(q)
    BY <1>4
  <2>2. B(p) \in SUBSET (B(q) \ {p})
    BY <1>4 DEF Orders
  <2>3. IsFiniteSet(B(q) \ {p}) /\ Cardinality(B(q) \ {p}) = Cardinality(B(q)) - 1
    BY <1>2, <2>1, FS_RemoveElement
  <2>4. Cardinality(B(p)) <= Cardinality(B(q)) - 1
    BY <2>2, <2>3, FS_Subset
  <2>5. c[p] <= c[q] - 1
    BY <2>4
  <2>6. c[p] \in 0..(n - 1) /\ c[q] \in 0..(n - 1)
    BY <1>3
  <2> HIDE DEF c, n
  <2> QED
    BY <1>1, <2>5, <2>6
<1>5. \A i \in 1..n : o[i] = CHOOSE p \in S : c[p] = i - 1
  <2> SUFFICES ASSUME NEW i \in 1..n PROVE o[i] = CHOOSE p \in S : c[p] = i - 1
    OBVIOUS
  <2>1. o[i] = CHOOSE p \in S : Cardinality(B(p)) = i - 1
    BY DEF Ordered
  <2>2. \A p \in S : Cardinality(B(p)) = c[p]
    OBVIOUS
  <2> QED
    BY <2>1, <2>2
<1>6. o = [i \in 1..n |-> o[i]]
  <2>1. o = [i \in 1..n |-> CHOOSE p \in S : Cardinality(B(p)) = i - 1]
    BY DEF Ordered
  <2> QED
    BY <2>1
<1> HIDE DEF c, o, n
<1>7. ASSUME NEW p \in S, NEW q \in S, c[p] = c[q] PROVE p = q
  <2> SUFFICES ASSUME p # q PROVE FALSE
    OBVIOUS
  <2>1. Less(rank[p], rank[q]) \/ Less(rank[q], rank[p])
    BY DEF Orders
  <2>2. c[p] < c[q] \/ c[q] < c[p]
    BY <1>4, <2>1
  <2> QED
    BY <1>3, <1>7, <2>2
<1>8. ASSUME NEW i \in 1..n PROVE \E p \in S : c[p] = i - 1
  <2> DEFINE f == [p \in S |-> c[p] + 1]
  <2>1. f \in [S -> 1..n]
    BY <1>1, <1>3
  <2>2. \A p, q \in S : f[p] = f[q] => p = q
    BY <1>3, <1>7
  <2>3. f \in Injection(S, 1..n)
    BY <2>1, <2>2 DEF Injection, IsInjective
  <2>4. IsFiniteSet(1..n) /\ Cardinality(1..n) = n
    <3>1. 1 \in Int /\ n \in Int
      BY <1>1
    <3> QED
      BY <1>1, <3>1, FS_Interval
  <2>5. Cardinality(S) = Cardinality(1..n)
    BY <2>4 DEF n
  <2>6. f \in Surjection(S, 1..n)
    BY <2>3, <2>4, <2>5, FS_Injection
  <2>7. PICK p \in S : f[p] = i
    BY <2>6 DEF Surjection
  <2>8. c[p] + 1 = i
    BY <2>7
  <2> QED
    BY <1>3, <2>8
<1>9. ASSUME NEW i \in 1..n PROVE o[i] \in S /\ c[o[i]] = i - 1
  BY <1>5, <1>8
<1>10. o \in [1..n -> S]
  BY <1>6, <1>9
<1>11. ASSUME NEW p \in S PROVE \E i \in 1..n : o[i] = p
  <2>1. PICK i \in 1..n : c[p] = i - 1
    BY <1>1, <1>3
  <2>2. o[i] \in S /\ c[o[i]] = c[p]
    BY <1>9, <2>1
  <2> QED
    BY <1>7, <2>2
<1>12. ASSUME NEW i \in 1..n, NEW j \in 1..n PROVE i < j <=> Less(rank[o[i]], rank[o[j]])
  <2>1. /\ o[i] \in S /\ c[o[i]] = i - 1
        /\ o[j] \in S /\ c[o[j]] = j - 1
    BY <1>9
  <2>2. ASSUME Less(rank[o[i]], rank[o[j]]) PROVE i < j
    <3>1. c[o[i]] < c[o[j]]
      BY <1>4, <2>1, <2>2
    <3> QED
      BY <2>1, <3>1
  <2>3. ASSUME i < j PROVE Less(rank[o[i]], rank[o[j]])
    <3>1. o[i] # o[j]
      BY <2>1, <2>3
    <3>2. ~Less(rank[o[j]], rank[o[i]])
      <4> SUFFICES ASSUME Less(rank[o[j]], rank[o[i]]) PROVE FALSE
        OBVIOUS
      <4>1. c[o[j]] < c[o[i]]
        BY <1>4, <2>1
      <4> QED
        BY <2>1, <2>3, <4>1
    <3> QED
      BY <2>1, <3>1, <3>2 DEF Orders
  <2> QED
    BY <2>2, <2>3
<1> QED
  BY <1>10, <1>11, <1>12 DEF o, n

-----------------------------------------------------------------------------
(* The ranks of pages.                                                     *)

LEMMA Less4 ==
  ASSUME NEW a \in Int \X Int \X Int \X Int, NEW b \in Int \X Int \X Int \X Int
  PROVE  Less(a, b) <=>
           \/ a[1] < b[1]
           \/ a[1] = b[1] /\ a[2] < b[2]
           \/ a[1] = b[1] /\ a[2] = b[2] /\ a[3] < b[3]
           \/ a[1] = b[1] /\ a[2] = b[2] /\ a[3] = b[3] /\ a[4] < b[4]
<1>1. DOMAIN a = {1, 2, 3, 4}
  OBVIOUS
<1>2. /\ 1..(1 - 1) = {} /\ 1..(2 - 1) = {1}
      /\ 1..(3 - 1) = {1, 2} /\ 1..(4 - 1) = {1, 2, 3}
  OBVIOUS
<1> QED
  BY <1>1, <1>2 DEF Less

LEMMA Less3 ==
  ASSUME NEW a \in Int \X Int \X Int, NEW b \in Int \X Int \X Int
  PROVE  Less(a, b) <=>
           \/ a[1] < b[1]
           \/ a[1] = b[1] /\ a[2] < b[2]
           \/ a[1] = b[1] /\ a[2] = b[2] /\ a[3] < b[3]
<1>1. DOMAIN a = {1, 2, 3}
  OBVIOUS
<1>2. 1..(1 - 1) = {} /\ 1..(2 - 1) = {1} /\ 1..(3 - 1) = {1, 2}
  OBVIOUS
<1> QED
  BY <1>1, <1>2 DEF Less

LEMMA RoleIs == ASSUME NEW path, NEW name PROVE classify_page_role(path, name) \in 0..99
<1> DEFINE offered == PathTokens(path) \cup {Last(path)}
           InPath(e) == e.phrase \in PathPhrases(path)
           ByUrl(e) == offered \cap e.tokens # {}
           ByName(e) == name \cap e.tokens # {}
<1>1. /\ \A i \in 1..4 : PhraseRoles[i].role \in 0..99
      /\ DOMAIN PhraseRoles = 1..4
  BY DEF PhraseRoles, features, category, company, excluded
<1>2. /\ \A i \in 1..7 : RoleTokens[i].role \in 0..99
      /\ DOMAIN RoleTokens = 1..7
  BY DEF RoleTokens, pricing, products, features, sale, new_arrivals, blog, company
<1>3. ASSUME Some(PhraseRoles, InPath) PROVE First(PhraseRoles, InPath) \in 0..99
  <2> DEFINE T == {i \in 1..4 : InPath(PhraseRoles[i])}
  <2>1. T # {}
    BY <1>1, <1>3 DEF Some
  <2>2. \E i \in T : \A j \in 1..(i - 1) : j \notin T
    BY <2>1, Least
  <2>3. \E i \in 1..4 : /\ InPath(PhraseRoles[i])
                        /\ \A j \in 1..(i - 1) : ~InPath(PhraseRoles[j])
    BY <2>2
  <2>4. First(PhraseRoles, InPath) =
          PhraseRoles[CHOOSE i \in 1..4 : /\ InPath(PhraseRoles[i])
                                         /\ \A j \in 1..(i - 1) : ~InPath(PhraseRoles[j])].role
    BY <1>1 DEF First
  <2> HIDE DEF InPath
  <2> QED
    BY <1>1, <2>3, <2>4
<1>4. ASSUME Some(RoleTokens, ByUrl) PROVE First(RoleTokens, ByUrl) \in 0..99
  <2> DEFINE T == {i \in 1..7 : ByUrl(RoleTokens[i])}
  <2>1. T # {}
    BY <1>2, <1>4 DEF Some
  <2>2. \E i \in T : \A j \in 1..(i - 1) : j \notin T
    BY <2>1, Least
  <2>3. \E i \in 1..7 : /\ ByUrl(RoleTokens[i])
                        /\ \A j \in 1..(i - 1) : ~ByUrl(RoleTokens[j])
    BY <2>2
  <2>4. First(RoleTokens, ByUrl) =
          RoleTokens[CHOOSE i \in 1..7 : /\ ByUrl(RoleTokens[i])
                                        /\ \A j \in 1..(i - 1) : ~ByUrl(RoleTokens[j])].role
    BY <1>2 DEF First
  <2> HIDE DEF ByUrl
  <2> QED
    BY <1>2, <2>3, <2>4
<1>5. ASSUME Some(RoleTokens, ByName) PROVE First(RoleTokens, ByName) \in 0..99
  <2> DEFINE T == {i \in 1..7 : ByName(RoleTokens[i])}
  <2>1. T # {}
    BY <1>2, <1>5 DEF Some
  <2>2. \E i \in T : \A j \in 1..(i - 1) : j \notin T
    BY <2>1, Least
  <2>3. \E i \in 1..7 : /\ ByName(RoleTokens[i])
                        /\ \A j \in 1..(i - 1) : ~ByName(RoleTokens[j])
    BY <2>2
  <2>4. First(RoleTokens, ByName) =
          RoleTokens[CHOOSE i \in 1..7 : /\ ByName(RoleTokens[i])
                                        /\ \A j \in 1..(i - 1) : ~ByName(RoleTokens[j])].role
    BY <1>2 DEF First
  <2> HIDE DEF ByName
  <2> QED
    BY <1>2, <2>3, <2>4
<1> QED
  BY <1>3, <1>4, <1>5 DEF classify_page_role, homepage, excluded, products, category, unknown

LEMMA RankIs ==
  ASSUME NEW p \in Pages
  PROVE  /\ Rank[p] \in Int \X Int \X Int \X Int
         /\ Rank[p][1] <= excluded /\ Rank[p][4] = Page[p].id
<1> DEFINE path == path_of(Page[p].url)
<1>1. classify_page_role(path, Page[p].name) \in 0..99
  BY RoleIs
<1>2. Len(path) \in Nat /\ Length(path) \in Nat /\ Page[p].id \in Nat
  BY SelectionAssumption, LenProperties
<1>3. PICK r \in 0..99, l \in Nat, g \in Nat, i \in Nat :
        /\ r = classify_page_role(path, Page[p].name)
        /\ l = Len(path) /\ g = Length(path) /\ i = Page[p].id
  BY <1>1, <1>2
<1>4. Rank[p] = <<r, l, g, i>>
  BY <1>3 DEF Rank, surface_rank
<1>5. Rank[p] \in Int \X Int \X Int \X Int /\ Rank[p][1] = r /\ Rank[p][4] = i
  BY <1>4
<1>6. r <= 99
  OBVIOUS
<1> QED
  BY <1>3, <1>5, <1>6 DEF excluded

LEMMA RankOrders == ASSUME NEW S \in SUBSET Pages PROVE Orders(S, Rank)
<1>1. \A p \in Pages : Rank[p] \in Int \X Int \X Int \X Int
  BY RankIs
<1>2. \A p, q \in Pages : Rank[p][4] = Rank[q][4] => p = q
  BY RankIs, SelectionAssumption
<1>3. \A p, q \in Pages :
        Less(Rank[p], Rank[q]) <=>
          \/ Rank[p][1] < Rank[q][1]
          \/ Rank[p][1] = Rank[q][1] /\ Rank[p][2] < Rank[q][2]
          \/ Rank[p][1] = Rank[q][1] /\ Rank[p][2] = Rank[q][2] /\ Rank[p][3] < Rank[q][3]
          \/ Rank[p][1] = Rank[q][1] /\ Rank[p][2] = Rank[q][2] /\ Rank[p][3] = Rank[q][3]
             /\ Rank[p][4] < Rank[q][4]
  BY <1>1, Less4
<1> DEFINE a == [p \in Pages |-> Rank[p][1]]
           b == [p \in Pages |-> Rank[p][2]]
           c == [p \in Pages |-> Rank[p][3]]
           d == [p \in Pages |-> Rank[p][4]]
<1>4. \A p \in Pages : a[p] \in Int /\ b[p] \in Int /\ c[p] \in Int /\ d[p] \in Int
  BY <1>1
<1>5. \A p, q \in Pages :
        Less(Rank[p], Rank[q]) <=>
          \/ a[p] < a[q]
          \/ a[p] = a[q] /\ b[p] < b[q]
          \/ a[p] = a[q] /\ b[p] = b[q] /\ c[p] < c[q]
          \/ a[p] = a[q] /\ b[p] = b[q] /\ c[p] = c[q] /\ d[p] < d[q]
  BY <1>3
<1>6. \A p, q \in Pages : d[p] = d[q] => p = q
  BY <1>2
<1> HIDE DEF a, b, c, d
<1> QED
  BY <1>4, <1>5, <1>6 DEF Orders

LEMMA TypeRankOrders == ASSUME NEW S \in SUBSET Pages PROVE Orders(S, TypeRank)
<1>1. \A t \in Range(SurfaceTypes) : TypePriority[t] \in 1..6
  <2> SUFFICES ASSUME NEW t \in Range(SurfaceTypes) PROVE TypePriority[t] \in 1..6
    OBVIOUS
  <2>1. TypePriority[t] = CHOOSE i \in 1..6 : SurfaceTypes[i] = t
    BY DEF TypePriority
  <2>2. DOMAIN SurfaceTypes = 1..6
    BY DEF SurfaceTypes
  <2>3. \E i \in 1..6 : SurfaceTypes[i] = t
    BY <2>2 DEF Range
  <2> QED
    BY <2>1, <2>3
<1> DEFINE a == [p \in Pages |-> TypeRank[p][1]]
           b == [p \in Pages |-> TypeRank[p][2]]
           c == [p \in Pages |-> TypeRank[p][3]]
<1>2. \A p \in Pages : TypeRank[p] \in Int \X Int \X Int /\ c[p] = Page[p].id
  <2> SUFFICES ASSUME NEW p \in Pages
               PROVE  TypeRank[p] \in Int \X Int \X Int /\ c[p] = Page[p].id
    OBVIOUS
  <2>1. TypeRank[p] = <<IF IsHomepage(Page[p].url) THEN 0 ELSE 1, TypePriority[Page[p].type], Page[p].id>>
    BY DEF TypeRank
  <2>2. TypePriority[Page[p].type] \in 1..6 /\ Page[p].id \in Nat
    BY <1>1, SelectionAssumption
  <2> QED
    BY <2>1, <2>2
<1>3. \A p, q \in Pages :
        Less(TypeRank[p], TypeRank[q]) <=>
          \/ a[p] < a[q]
          \/ a[p] = a[q] /\ b[p] < b[q]
          \/ a[p] = a[q] /\ b[p] = b[q] /\ c[p] < c[q]
  BY <1>2, Less3
<1>4. \A p \in Pages : a[p] \in Int /\ b[p] \in Int /\ c[p] \in Int
  BY <1>2
<1>5. \A p, q \in Pages : c[p] = c[q] => p = q
  BY <1>2, SelectionAssumption
<1> HIDE DEF a, b, c
<1> QED
  BY <1>3, <1>4, <1>5 DEF Orders

-----------------------------------------------------------------------------
(* The walk over the pages, best first.                                    *)

LEMMA WalkIs ==
  ASSUME NEW S \in SUBSET Pages
  PROVE  /\ Walk(S, Rank, Identity)[0] = <<>>
         /\ \A i \in 1..Cardinality(S) :
              Walk(S, Rank, Identity)[i] = Keep(Walk(S, Rank, Identity)[i - 1], Ordered(S, Rank)[i], Rank, Identity)
<1> DEFINE n == Cardinality(S)
           best == Ordered(S, Rank)
           Steps(k, h) == h = [i \in 0..k |-> IF i = 0 THEN <<>> ELSE Keep(h[i - 1], best[i], Rank, Identity)]
           T == {k \in 0..n : \E h : Steps(k, h)}
<1>1. n \in Nat
  BY SelectionAssumption, FS_Subset, FS_CardinalityType
<1> HIDE DEF n, best
<1>2. 0 \in T
  <2>1. Steps(0, [i \in 0..0 |-> <<>>])
    OBVIOUS
  <2>2. 0 \in 0..n
    BY <1>1
  <2> HIDE DEF Steps
  <2> QED
    BY <2>1, <2>2
<1>3. ASSUME NEW k \in 0..(n - 1), k \in T PROVE k + 1 \in T
  <2>1. PICK h : Steps(k, h)
    BY <1>3
  <2> DEFINE g == [i \in 0..(k + 1) |-> IF i = k + 1 THEN Keep(h[k], best[k + 1], Rank, Identity) ELSE h[i]]
  <2>2. \A i \in 0..k : g[i] = h[i]
    BY <1>1
  <2>3. \A i \in 0..(k + 1) : g[i] = IF i = 0 THEN <<>> ELSE Keep(g[i - 1], best[i], Rank, Identity)
    <3> SUFFICES ASSUME NEW i \in 0..(k + 1)
                 PROVE  g[i] = IF i = 0 THEN <<>> ELSE Keep(g[i - 1], best[i], Rank, Identity)
      OBVIOUS
    <3>1. CASE i = k + 1
      <4>1. g[i] = Keep(h[k], best[k + 1], Rank, Identity) /\ g[k] = h[k] /\ i - 1 = k /\ i # 0
        BY <1>1, <2>2, <3>1
      <4> QED
        BY <3>1, <4>1
    <3>2. CASE i \in 1..k
      <4>1. g[i] = h[i] /\ g[i - 1] = h[i - 1] /\ i # 0
        BY <1>1, <2>2, <3>2
      <4>2. h[i] = Keep(h[i - 1], best[i], Rank, Identity)
        BY <2>1, <3>2
      <4> QED
        BY <4>1, <4>2
    <3>3. CASE i = 0
      <4>1. g[0] = h[0] /\ h[0] = <<>>
        BY <1>1, <2>1, <2>2
      <4> QED
        BY <3>3, <4>1
    <3> QED
      BY <1>1, <3>1, <3>2, <3>3
  <2>4. g = [i \in 0..(k + 1) |-> g[i]]
    OBVIOUS
  <2> HIDE DEF g
  <2>5. Steps(k + 1, g)
    BY <2>3, <2>4
  <2> QED
    BY <1>1, <2>5
<1>4. n \in T
  <2> HIDE DEF T
  <2> QED
    BY <1>1, <1>2, <1>3, Upwards
<1>5. PICK h : Steps(n, h)
  BY <1>4
<1>6. Walk(S, Rank, Identity) = [i \in 0..n |-> IF i = 0 THEN <<>> ELSE Keep(Walk(S, Rank, Identity)[i - 1], best[i], Rank, Identity)]
  BY <1>5 DEF Walk, n, best
<1> QED
  BY <1>1, <1>6 DEF n, best

\* Before orders the pages, an excluded one after any that is not.
LEMMA BeforeIs ==
  /\ \A p \in Pages : ~Before(p, p)
  /\ \A p, q, r \in Pages : Before(p, q) /\ Before(q, r) => Before(p, r)
  /\ \A p, q \in Pages : p # q => Before(p, q) \/ Before(q, p)
  /\ \A p, q \in Pages : Before(q, p) /\ Rank[p][1] # excluded => Rank[q][1] # excluded
<1>1. Orders(Pages, Rank)
  BY RankOrders
<1>2. ASSUME NEW p \in Pages, NEW q \in Pages, Before(q, p), Rank[q][1] = excluded
      PROVE  Rank[p][1] = excluded
  <2>1. /\ Rank[p] \in Int \X Int \X Int \X Int /\ Rank[p][1] <= excluded
        /\ Rank[q] \in Int \X Int \X Int \X Int
    BY RankIs
  <2>2. Rank[q][1] <= Rank[p][1]
    BY <1>2, <2>1, Less4 DEF Before
  <2> QED
    BY <1>2, <2>1, <2>2 DEF excluded
<1> QED
  BY <1>1, <1>2 DEF Orders, Before

\* The walk gives a place to each page that is worthy, and keeps the order.
Placed(S, k, w) ==
    /\ w \in Seq(S)
    /\ \A i, j \in 1..Len(w) : i < j => Before(w[i], w[j])
    /\ \A i \in 1..Len(w) : /\ w[i] \in Worthy(S)
                            /\ \E m \in 1..k : w[i] = Ordered(S, Rank)[m]
    /\ \A m \in 1..k : Rank[Ordered(S, Rank)[m]][1] # excluded =>
                         \E i \in 1..Len(w) : Twins(Ordered(S, Rank)[m], w[i])

LEMMA PlacedStep ==
  ASSUME NEW S \in SUBSET Pages, NEW k \in 0..(Cardinality(S) - 1), NEW w, Placed(S, k, w)
  PROVE  Placed(S, k + 1, Keep(w, Ordered(S, Rank)[k + 1], Rank, Identity))
<1> DEFINE n == Cardinality(S)
           best == Ordered(S, Rank)
<1>1. n \in Nat /\ IsFiniteSet(S) /\ k \in 0..(n - 1)
  BY SelectionAssumption, FS_Subset, FS_CardinalityType
<1>2. /\ best \in [1..n -> S]
      /\ \A p \in S : \E i \in 1..n : best[i] = p
      /\ \A i, j \in 1..n : i < j <=> Before(best[i], best[j])
  BY <1>1, RankOrders, OrderedIs DEF Before
<1>3. /\ w \in Seq(S) /\ Len(w) \in Nat /\ DOMAIN w = 1..Len(w)
      /\ \A i \in 1..Len(w) : w[i] \in S
  BY LenProperties DEF Placed
<1>4. /\ \A i, j \in 1..Len(w) : i < j => Before(w[i], w[j])
      /\ \A i \in 1..Len(w) : w[i] \in Worthy(S) /\ \E m \in 1..k : w[i] = best[m]
      /\ \A m \in 1..k : Rank[best[m]][1] # excluded => \E i \in 1..Len(w) : Twins(best[m], w[i])
  BY DEF Placed
<1> HIDE DEF n, best
<1>5. 1..(k + 1) = 1..k \cup {k + 1} /\ 1..k \subseteq 1..n /\ k + 1 \in 1..n
  BY <1>1
<1>6. PICK p \in S : p = best[k + 1]
  BY <1>2, <1>5
<1>7. CASE Rank[p][1] = excluded
  <2>1. Keep(w, p, Rank, Identity) = w
    BY <1>7 DEF Keep
  <2>2. Placed(S, k + 1, w)
    BY <1>3, <1>4, <1>6, <1>5, <1>7 DEF Placed, best
  <2> QED
    BY <1>6, <2>1, <2>2 DEF best
<1>8. ASSUME NEW i \in 1..Len(w), Twins(p, w[i]) PROVE Placed(S, k + 1, Keep(w, p, Rank, Identity))
  <2>1. Keep(w, p, Rank, Identity) = w
    BY <1>3, <1>8 DEF Keep, Range, Twins
  <2>2. Placed(S, k + 1, w)
    BY <1>3, <1>4, <1>6, <1>5, <1>8 DEF Placed, best
  <2> QED
    BY <2>1, <2>2
<1>9. ASSUME Rank[p][1] # excluded, \A i \in 1..Len(w) : ~Twins(p, w[i])
      PROVE  Placed(S, k + 1, Keep(w, p, Rank, Identity))
  <2>1. Keep(w, p, Rank, Identity) = Append(w, p)
    BY <1>3, <1>9 DEF Keep, Range, Twins
  <2> DEFINE v == Append(w, p)
  <2>2. /\ v \in Seq(S) /\ Len(v) = Len(w) + 1 /\ v[Len(w) + 1] = p
        /\ \A i \in 1..Len(w) : v[i] = w[i]
    BY <1>3, AppendProperties
  <2> HIDE DEF v
  <2>3. p \in Worthy(S)
    <3> SUFFICES ASSUME NEW q \in S, Twins(p, q), p # q, ~Before(p, q) PROVE FALSE
      BY <1>9 DEF Worthy
    <3>1. Before(q, p) /\ Rank[q][1] # excluded
      BY <1>9, BeforeIs
    <3>2. PICK m \in 1..n : best[m] = q
      BY <1>2
    <3>3. m \in 1..k
      BY <1>2, <1>6, <1>5, <3>1, <3>2
    <3>4. PICK i \in 1..Len(w) : Twins(q, w[i])
      BY <1>4, <3>1, <3>2, <3>3
    <3>5. Twins(p, w[i])
      BY <3>4 DEF Twins
    <3> QED
      BY <1>9, <3>5
  <2>4. \A i, j \in 1..Len(v) : i < j => Before(v[i], v[j])
    <3> SUFFICES ASSUME NEW i \in 1..Len(v), NEW j \in 1..Len(v), i < j PROVE Before(v[i], v[j])
      OBVIOUS
    <3>1. i \in 1..Len(w) /\ v[i] = w[i]
      BY <1>3, <2>2
    <3>2. CASE j \in 1..Len(w)
      BY <1>4, <2>2, <3>1, <3>2
    <3>3. CASE j = Len(w) + 1
      <4>1. PICK m \in 1..k : w[i] = best[m]
        BY <1>4, <3>1
      <4>2. m \in 1..n /\ m < k + 1
        BY <1>5
      <4>3. Before(best[m], best[k + 1])
        BY <1>2, <1>5, <4>2
      <4> QED
        BY <1>6, <2>2, <3>1, <3>3, <4>1, <4>3
    <3> QED
      BY <1>3, <2>2, <3>2, <3>3
  <2>5. \A i \in 1..Len(v) : v[i] \in Worthy(S) /\ \E m \in 1..(k + 1) : v[i] = best[m]
    <3> SUFFICES ASSUME NEW i \in 1..Len(v)
                 PROVE  v[i] \in Worthy(S) /\ \E m \in 1..(k + 1) : v[i] = best[m]
      OBVIOUS
    <3>1. CASE i \in 1..Len(w)
      BY <1>4, <1>5, <2>2, <3>1
    <3>2. CASE i = Len(w) + 1
      BY <1>6, <1>5, <2>2, <2>3, <3>2
    <3> QED
      BY <1>3, <2>2, <3>1, <3>2
  <2>6. \A m \in 1..(k + 1) : Rank[best[m]][1] # excluded => \E i \in 1..Len(v) : Twins(best[m], v[i])
    <3> SUFFICES ASSUME NEW m \in 1..(k + 1), Rank[best[m]][1] # excluded
                 PROVE  \E i \in 1..Len(v) : Twins(best[m], v[i])
      OBVIOUS
    <3>1. CASE m \in 1..k
      <4>1. PICK i \in 1..Len(w) : Twins(best[m], w[i])
        BY <1>4, <3>1
      <4>2. i \in 1..Len(v) /\ v[i] = w[i]
        BY <1>3, <2>2
      <4> QED
        BY <4>1, <4>2
    <3>2. CASE m = k + 1
      <4>1. Twins(p, p)
        BY DEF Twins
      <4>2. Len(w) + 1 \in 1..Len(v)
        BY <1>3, <2>2
      <4> QED
        BY <1>6, <2>2, <3>2, <4>1, <4>2
    <3> QED
      BY <1>5, <3>1, <3>2
  <2> QED
    BY <2>1, <2>2, <2>4, <2>5, <2>6 DEF Placed, best, v
<1> QED
  BY <1>6, <1>7, <1>8, <1>9 DEF best

LEMMA WatchableIs ==
  ASSUME NEW S \in SUBSET Pages
  PROVE  /\ Watchable(S, Rank, Identity) \in Seq(S)
         /\ \A i, j \in 1..Len(Watchable(S, Rank, Identity)) : i < j => Before(Watchable(S, Rank, Identity)[i], Watchable(S, Rank, Identity)[j])
         /\ \A i \in 1..Len(Watchable(S, Rank, Identity)) : Watchable(S, Rank, Identity)[i] \in Worthy(S)
         /\ \A p \in Worthy(S) : \E i \in 1..Len(Watchable(S, Rank, Identity)) : Watchable(S, Rank, Identity)[i] = p
<1> DEFINE n == Cardinality(S)
           T == {k \in 0..n : Placed(S, k, Walk(S, Rank, Identity)[k])}
<1>1. n \in Nat /\ IsFiniteSet(S)
  BY SelectionAssumption, FS_Subset, FS_CardinalityType
<1>2. 0 \in T
  <2>1. Walk(S, Rank, Identity)[0] = <<>>
    BY WalkIs
  <2>2. Placed(S, 0, <<>>)
    BY DEF Placed
  <2> QED
    BY <1>1, <2>1, <2>2
<1>3. ASSUME NEW k \in 0..(n - 1), k \in T PROVE k + 1 \in T
  <2>1. k + 1 \in 1..n /\ (k + 1) - 1 = k
    BY <1>1
  <2>2. Walk(S, Rank, Identity)[k + 1] = Keep(Walk(S, Rank, Identity)[k], Ordered(S, Rank)[k + 1], Rank, Identity)
    BY <2>1, WalkIs
  <2>3. Placed(S, k + 1, Walk(S, Rank, Identity)[k + 1])
    BY <1>3, <2>2, PlacedStep
  <2> QED
    BY <1>1, <2>1, <2>3
<1>4. n \in T
  <2> HIDE DEF T, n
  <2> QED
    BY <1>1, <1>2, <1>3, Upwards
<1> DEFINE w == Watchable(S, Rank, Identity)
<1>5. Placed(S, n, w)
  BY <1>4 DEF Watchable
<1>6. \A p \in S : \E m \in 1..n : Ordered(S, Rank)[m] = p
  BY <1>1, RankOrders, OrderedIs
<1> HIDE DEF w, n
<1>7. ASSUME NEW p \in Worthy(S) PROVE \E i \in 1..Len(w) : w[i] = p
  <2>1. PICK m \in 1..n : Ordered(S, Rank)[m] = p
    BY <1>6 DEF Worthy
  <2>2. PICK i \in 1..Len(w) : Twins(p, w[i])
    BY <1>5, <2>1 DEF Placed, Worthy
  <2>3. w[i] \in Worthy(S)
    BY <1>5 DEF Placed
  <2>4. p \in Pages /\ w[i] \in Pages /\ Twins(w[i], p)
    BY <2>2, <2>3 DEF Worthy, Twins
  <2>5. w[i] # p => Before(p, w[i]) /\ Before(w[i], p)
    BY <2>2, <2>3, <2>4 DEF Worthy
  <2> QED
    BY <2>4, <2>5, BeforeIs
<1> QED
  BY <1>5, <1>7 DEF Placed, w

-----------------------------------------------------------------------------
(* The cut.                                                                *)

\* The first of a list, n at most.
LEMMA UpToIs ==
  ASSUME NEW S \in SUBSET Pages, NEW w \in Seq(S), NEW n \in Nat
  PROVE  /\ Range(UpTo(n, w)) = {w[i] : i \in {j \in 1..Len(w) : j <= n}}
         /\ Range(UpTo(n, w)) \subseteq S
         /\ Cardinality(Range(UpTo(n, w))) <= n
<1>1. Len(w) \in Nat /\ \A i \in 1..Len(w) : w[i] \in S
  BY LenProperties
<1> DEFINE c == IF n < Len(w) THEN n ELSE Len(w)
           v == SubSeq(w, 1, c)
<1>2. c \in Nat /\ c <= n /\ c <= Len(w) /\ \A i \in 1..Len(w) : i <= n <=> i <= c
  BY <1>1
<1>3. UpTo(n, w) = v
  BY DEF UpTo
<1> HIDE DEF c
<1>4. v \in Seq(S) /\ Len(v) = c /\ \A i \in 1..c : v[i] = w[i]
  BY <1>1, <1>2, SubSeqProperties
<1> HIDE DEF v
<1>5. DOMAIN v = 1..c
  BY <1>4, LenProperties
<1>6. Range(v) = {v[i] : i \in 1..c}
  BY <1>5 DEF Range
<1>7. Range(v) = {w[i] : i \in {j \in 1..Len(w) : j <= n}}
  <2>1. {j \in 1..Len(w) : j <= n} = 1..c
    BY <1>1, <1>2
  <2>2. {w[i] : i \in 1..c} = {v[i] : i \in 1..c}
    BY <1>4
  <2> QED
    BY <1>6, <2>1, <2>2
<1>8. Range(v) \subseteq S
  BY <1>1, <1>7
<1>9. Cardinality(Range(v)) <= n
  <2> DEFINE f == [i \in 1..c |-> v[i]]
  <2>1. f \in Surjection(1..c, Range(v))
    BY <1>6 DEF Surjection
  <2>2. 1 \in Int /\ c \in Int
    BY <1>2
  <2>3. IsFiniteSet(1..c) /\ Cardinality(1..c) = c
    BY <1>2, <2>2, FS_Interval
  <2>4. IsFiniteSet(Range(v)) /\ Cardinality(Range(v)) <= c
    BY <2>1, <2>3, FS_Surjection
  <2>5. Cardinality(Range(v)) \in Nat
    BY <2>4, FS_CardinalityType
  <2> QED
    BY <1>2, <2>4, <2>5
<1> QED
  BY <1>3, <1>7, <1>8, <1>9

\* A choice is of pages there are, and of no more than the cap.
LEMMA WatchedIs ==
  ASSUME NEW S \in SUBSET Pages
  PROVE  Watched(S) \subseteq S /\ Cardinality(Watched(S)) <= Cap
  BY WatchableIs, UpToIs, SelectionAssumption DEF Watched

LEMMA CapByTypeIs ==
  ASSUME NEW S \in SUBSET Pages, NEW n \in Nat
  PROVE  CapByType(n, S) \subseteq S
<1>1. IsFiniteSet(S)
  BY SelectionAssumption, FS_Subset
<1>2. Ordered(S, TypeRank) \in [1..Cardinality(S) -> S]
  BY <1>1, TypeRankOrders, OrderedIs
<1>3. Cardinality(S) \in Nat
  BY <1>1, FS_CardinalityType
<1>4. Ordered(S, TypeRank) \in Seq(S)
  BY <1>2, <1>3, SeqDef
<1> QED
  BY <1>4, UpToIs DEF CapByType

\* The pages that come before one of a list in order are those it lists earlier.
LEMMA EarlierAre ==
  ASSUME NEW W \in SUBSET Pages, NEW w \in Seq(W), NEW a \in 1..Len(w),
         \A i, j \in 1..Len(w) : i < j => Before(w[i], w[j]),
         \A p \in W : \E i \in 1..Len(w) : w[i] = p
  PROVE  Cardinality({q \in W : Before(q, w[a])}) = a - 1
<1>1. Len(w) \in Nat /\ \A i \in 1..Len(w) : w[i] \in W
  BY LenProperties
<1>2. \A i, j \in 1..Len(w) : Before(w[i], w[j]) => i < j
  <2> SUFFICES ASSUME NEW i \in 1..Len(w), NEW j \in 1..Len(w), Before(w[i], w[j]), ~(i < j)
               PROVE  FALSE
    OBVIOUS
  <2>1. w[i] \in Pages /\ w[j] \in Pages
    BY <1>1
  <2>2. i = j \/ j < i
    BY <1>1
  <2>3. w[i] = w[j] \/ Before(w[j], w[i])
    BY <2>2
  <2>4. Before(w[i], w[i])
    BY <2>1, <2>3, BeforeIs
  <2> QED
    BY <2>1, <2>4, BeforeIs
<1> DEFINE B == {q \in W : Before(q, w[a])}
           f == [i \in 1..(a - 1) |-> w[i]]
<1>3. 1..(a - 1) \subseteq 1..Len(w) /\ \A i \in 1..(a - 1) : i < a
  BY <1>1
<1>4. f \in [1..(a - 1) -> B]
  BY <1>1, <1>3
<1>5. \A i, j \in 1..(a - 1) : f[i] = f[j] => i = j
  <2> SUFFICES ASSUME NEW i \in 1..(a - 1), NEW j \in 1..(a - 1), f[i] = f[j], i # j PROVE FALSE
    OBVIOUS
  <2>1. i < j \/ j < i
    OBVIOUS
  <2>2. Before(w[i], w[j]) \/ Before(w[j], w[i])
    BY <1>3, <2>1
  <2>3. w[i] = w[j] /\ w[i] \in Pages
    BY <1>1, <1>3
  <2> QED
    BY <2>2, <2>3, BeforeIs
<1>6. \A q \in B : \E i \in 1..(a - 1) : f[i] = q
  <2> SUFFICES ASSUME NEW q \in B PROVE \E i \in 1..(a - 1) : f[i] = q
    OBVIOUS
  <2>1. PICK i \in 1..Len(w) : w[i] = q
    OBVIOUS
  <2>2. i < a
    BY <1>2, <2>1
  <2>3. i \in 1..(a - 1)
    BY <1>1, <2>2
  <2> QED
    BY <2>1, <2>3
<1> HIDE DEF B, f
<1>7. f \in Bijection(1..(a - 1), B)
  BY <1>4, <1>5, <1>6 DEF Bijection, Injection, IsInjective, Surjection
<1>8. 1 \in Int /\ a - 1 \in Int /\ a - 1 >= 0
  BY <1>1
<1>9. IsFiniteSet(1..(a - 1)) /\ Cardinality(1..(a - 1)) = a - 1
  <2>1. ~(1 > a - 1) => (a - 1) - 1 + 1 = a - 1
    BY <1>8
  <2>2. 1 > a - 1 => a - 1 = 0
    BY <1>8
  <2> QED
    BY <1>8, <2>1, <2>2, FS_Interval
<1>10. Cardinality(B) = a - 1
  BY <1>7, <1>9, FS_Bijection DEF ExistsBijection
<1> QED
  BY <1>10 DEF B

\* The sort, the walk and the cut choose the best pages.
LEMMA ChoosesBest ==
  ASSUME NEW S \in SUBSET Pages, NEW n \in Nat
  PROVE  Range(UpTo(n, Watchable(S, Rank, Identity))) = Best(n, S)
<1> DEFINE w == Watchable(S, Rank, Identity)
           W == Worthy(S)
           chosen == Range(UpTo(n, w))
           rank == [p \in W |-> Cardinality({q \in W : Before(q, p)})]
<1>1. /\ w \in Seq(S) /\ W \in SUBSET Pages
      /\ \A i, j \in 1..Len(w) : i < j => Before(w[i], w[j])
      /\ \A i \in 1..Len(w) : w[i] \in W
      /\ \A p \in W : \E i \in 1..Len(w) : w[i] = p
  BY WatchableIs DEF Worthy
<1>2. w \in Seq(W)
  <2>1. Len(w) \in Nat /\ w \in [1..Len(w) -> S]
    BY <1>1, LenProperties
  <2>2. w \in [1..Len(w) -> W]
    BY <1>1, <2>1
  <2> QED
    BY <2>1, <2>2, SeqDef
<1>3. chosen = {w[i] : i \in {j \in 1..Len(w) : j <= n}}
  <2> HIDE DEF w
  <2> QED
    BY <1>1, UpToIs
<1>4. Best(n, S) = {p \in W : rank[p] < n}
  BY DEF Best
<1> HIDE DEF w, chosen
<1>5. ASSUME NEW a \in 1..Len(w) PROVE w[a] \in W /\ rank[w[a]] = a - 1
  <2>1. Cardinality({q \in W : Before(q, w[a])}) = a - 1
    <3> HIDE DEF W
    <3> QED
      BY <1>1, <1>2, EarlierAre
  <2> QED
    BY <1>1, <2>1
<1> HIDE DEF W, rank
<1>6. Len(w) \in Nat /\ n \in Nat
  BY <1>1, LenProperties
<1>7. \A i \in 1..Len(w) : rank[w[i]] < n <=> i <= n
  BY <1>5, <1>6
<1>8. chosen \subseteq Best(n, S)
  BY <1>3, <1>4, <1>5, <1>7
<1>9. Best(n, S) \subseteq chosen
  BY <1>1, <1>3, <1>4, <1>7
<1> QED
  BY <1>8, <1>9 DEF chosen, w

-----------------------------------------------------------------------------
(* The frozen copy of the rules in 0028.                                   *)

LEMMA FirstOfIs ==
  ASSUME NEW D, NEW url \in Seq(STRING), NEW k \in DOMAIN url, url[k] \in D,
         \A j \in 1..(k - 1) : url[j] \notin D
  PROVE  FirstOf(D, url) = k
<1> DEFINE Is(i) == /\ i \in DOMAIN url => url[i] \in D
                    /\ \A j \in 1..(i - 1) : url[j] \notin D
<1>1. Len(url) \in Nat /\ DOMAIN url = 1..Len(url)
  BY LenProperties
<1>2. k \in 1..(Len(url) + 1) /\ Is(k)
  BY <1>1
<1>3. ASSUME NEW i \in 1..(Len(url) + 1), Is(i) PROVE i = k
  <2>1. ~(i < k)
    BY <1>1, <1>3
  <2>2. ~(k < i)
    BY <1>1, <1>3
  <2> QED
    BY <1>1, <2>1, <2>2
<1>4. FirstOf(D, url) = CHOOSE i \in 1..(Len(url) + 1) : Is(i)
  BY DEF FirstOf
<1> HIDE DEF Is
<1> QED
  BY <1>2, <1>3, <1>4

\* Where a slash follows the host, both ways to read an address agree.
LEMMA ReadAlike ==
  ASSUME NEW p \in Pages
  PROVE  /\ frozen_netloc(Page[p].url) = netloc(Page[p].url)
         /\ frozen_path_of(Page[p].url) = path_of(Page[p].url)
<1>1. Page[p].url \in Seq(STRING)
  BY SelectionAssumption
<1>2. PICK k \in DOMAIN Page[p].url :
        Page[p].url[k] = "/" /\ \A j \in 1..(k - 1) : Page[p].url[j] \notin {"/", "?", "#"}
  BY AddressAssumption
<1>3. FirstOf({"/"}, Page[p].url) = k
  BY <1>1, <1>2, FirstOfIs
<1>4. FirstOf({"/", "?", "#"}, Page[p].url) = k
  BY <1>1, <1>2, FirstOfIs
<1> QED
  BY <1>3, <1>4 DEF frozen_netloc, frozen_path_of, netloc, path_of, Upto, From

LEMMA CapsAre == \A i \in 1..3 : Caps[i] \in Nat
<1>1. Caps \in Seq(Nat) /\ Len(Caps) = 3
  BY SelectionAssumption, WatchAssumption
<1> QED
  BY <1>1, LenProperties

LEMMA RulesAlike == FrozenRank = Rank /\ FrozenIdentity = Identity
  BY ReadAlike DEF FrozenRank, Rank, FrozenIdentity, Identity

\* The choice of 0028 is the best ones too, as many as its own cap.
LEMMA CapByRoleIs ==
  ASSUME NEW S \in SUBSET Pages, NEW n \in Nat
  PROVE  /\ CapByRole(n, S) = Best(n, S) /\ CapByRole(n, S) \subseteq S
         /\ Cardinality(CapByRole(n, S)) <= n
<1>1. CapByRole(n, S) = Range(UpTo(n, Watchable(S, Rank, Identity)))
  BY RulesAlike DEF CapByRole
<1> QED
  BY <1>1, ChoosesBest, WatchableIs, UpToIs

-----------------------------------------------------------------------------
(* What lies between the steps of requests and of a discovery.             *)

ReqType == [pc : {"idle", "arm", "drop", "own"}, page : Pages \cup OwnPages \cup {NoPage}]
DiscType == [pc : {"idle", "insert", "choose", "flag", "commit", "reread", "arm"},
             new : SUBSET Pages, watched : SUBSET Pages, others : SUBSET Pages,
             on : SUBSET Pages, off : SUBSET Pages, seen : SUBSET Pages]

Requested == \A r \in Requests :
    /\ req[r].pc \in {"idle", "own"} => req[r].page = NoPage
    /\ req[r].pc \in {"arm", "drop"} => req[r].page \in used

\* What a discovery under way knows, whatever its rivals do.  A page of its
\* choice that was active when it looked is in off, or a rival switched it on.
Sound(x) ==
    /\ x.pc = "idle" => x = IdleDisc
    /\ x.new \cup x.watched \cup x.others \subseteq used
    /\ x.pc \in {"insert", "choose"} => x.watched = {} /\ x.others = {}
    /\ x.watched \cap x.others = {}
    /\ x.pc \in {"flag", "commit"} => /\ x.new \cap rows \subseteq x.watched \cup x.others
                                      /\ x.seen \subseteq x.watched \cup x.others
                                      /\ Cardinality(x.watched) <= Cap
    /\ x.pc = "commit" => x.on \subseteq x.watched /\ x.seen \cap x.others \cap active \subseteq x.off
    /\ x.pc \in {"reread", "arm"} => x.new = {}
Discovered == \A d \in Discoveries : Sound(disc[d])

\* Nobody has the pages that a discovery is about to insert.
Unborn == \A d, e \in Discoveries :
    disc[d].pc = "insert" =>
      /\ disc[d].new \cap rows = {}
      /\ d # e => disc[d].new \cap (disc[e].new \cup disc[e].watched \cup disc[e].others) = {}

Before28 == ~Up => /\ rows \subseteq Pages /\ missed = {}
                   /\ req = [r \in Requests |-> IdleReq]
                   /\ disc = [d \in Discoveries |-> IdleDisc]

IInv == TypeOK /\ Requested /\ Discovered /\ Unborn /\ Before28

LEMMA InitIInv == Init => IInv
<1> SUFFICES ASSUME Init PROVE IInv
  OBVIOUS
<1> USE WatchAssumption DEF Init, IdleReq, IdleDisc
<1>1. TypeOK
  BY DEF TypeOK
<1>2. Requested /\ Unborn
  BY DEF Requested, Unborn
<1>3. Discovered
  BY DEF Discovered, Sound
<1>4. Before28
  BY DEF Before28, Up
<1> QED
  BY <1>1, <1>2, <1>3, <1>4 DEF IInv

\* A step of one discovery.
LEMMA StepIs ==
  ASSUME IInv, NEW d \in Discoveries, NEW pc, NEW next \in DiscType, Step(d, pc, next)
  PROVE  /\ disc \in [Discoveries -> DiscType] /\ disc' \in [Discoveries -> DiscType]
         /\ disc[d].pc = pc /\ disc'[d] = next
         /\ \A e \in Discoveries \ {d} : disc'[e] = disc[e]
<1>1. disc \in [Discoveries -> DiscType]
  BY DEF IInv, TypeOK, DiscType
<1> QED
  BY <1>1 DEF Step

\* Requests and deletions take nothing from what the discoveries know.
LEMMA Aside ==
  ASSUME IInv, UNCHANGED disc, used \subseteq used', active' \cap used \subseteq active,
         rows' \cap used \subseteq rows
  PROVE  Discovered' /\ Unborn'
<1>1. disc \in [Discoveries -> DiscType]
  BY DEF IInv, TypeOK, DiscType
<1>2. ASSUME NEW d \in Discoveries PROVE Sound(disc[d])'
  <2>1. Sound(disc[d]) /\ disc[d] \in DiscType /\ disc'[d] = disc[d]
    BY <1>1 DEF IInv, Discovered
  <2> QED
    BY <2>1 DEF Sound, DiscType, IdleDisc
<1>3. Unborn'
  <2> SUFFICES ASSUME NEW d \in Discoveries, NEW e \in Discoveries, disc[d].pc = "insert"
               PROVE  /\ disc[d].new \cap rows' = {}
                      /\ d # e => disc[d].new \cap (disc[e].new \cup disc[e].watched \cup disc[e].others) = {}
    BY DEF Unborn
  <2>1. disc[d].new \subseteq used
    BY DEF IInv, Discovered, Sound
  <2> QED
    BY <2>1 DEF IInv, Unborn
<1> QED
  BY <1>2, <1>3 DEF Discovered

\* What a step of one discovery has to show.
LEMMA OneStep ==
  ASSUME IInv, NEW d \in Discoveries, disc' \in [Discoveries -> DiscType],
         \A e \in Discoveries \ {d} : disc'[e] = disc[e],
         used \subseteq used', Sound(disc[d])',
         active' \ active \subseteq disc[d].new, rows' \ rows \subseteq disc[d].new,
         active' # active => disc[d].pc = "insert",
         rows' # rows => disc[d].pc = "insert",
         disc'[d].new \cap used \subseteq disc[d].new,
         disc'[d].watched \cup disc'[d].others \subseteq rows \cup disc[d].watched \cup disc[d].others,
         disc'[d].pc = "insert" => disc[d].pc = "idle" /\ disc'[d].new \cap used = {},
         rows \subseteq rows', rows \subseteq used
  PROVE  Discovered' /\ Unborn'
<1>1. disc \in [Discoveries -> DiscType]
  BY DEF IInv, TypeOK, DiscType
<1>2. ASSUME NEW e \in Discoveries \ {d} PROVE Sound(disc[e])'
  <2>1. Sound(disc[e]) /\ disc[e] \in DiscType /\ disc'[e] = disc[e]
    BY <1>1 DEF IInv, Discovered
  <2>2. /\ (active' \ active) \cap (disc[e].new \cup disc[e].watched \cup disc[e].others) = {}
        /\ (rows' \ rows) \cap disc[e].new = {}
    BY DEF IInv, Unborn
  <2> QED
    BY <2>1, <2>2 DEF Sound, DiscType, IdleDisc
<1>3. Unborn'
  <2> SUFFICES ASSUME NEW b \in Discoveries, NEW e \in Discoveries, disc'[b].pc = "insert"
               PROVE  /\ disc'[b].new \cap rows' = {}
                      /\ b # e => disc'[b].new \cap (disc'[e].new \cup disc'[e].watched \cup disc'[e].others) = {}
    BY DEF Unborn
  <2>1. \A e1 \in Discoveries : disc[e1].new \cup disc[e1].watched \cup disc[e1].others \subseteq used
    BY DEF IInv, Discovered, Sound
  <2>2. CASE b = d
    <3>1. disc[d].pc = "idle" /\ disc'[d].new \cap used = {} /\ rows' = rows
      BY <2>2
    <3> QED
      BY <2>1, <2>2, <3>1
  <2>3. CASE b # d
    <3>1. disc'[b] = disc[b] /\ disc[b].pc = "insert" /\ disc[b].new \cap rows = {}
      BY <2>3 DEF IInv, Unborn
    <3>2. disc[b].new \cap (disc[d].new \cup disc[d].watched \cup disc[d].others) = {}
      BY <2>3, <3>1 DEF IInv, Unborn
    <3>3. disc[b].new \cap rows' = {}
      BY <3>1, <3>2
    <3>4. CASE e = d
      BY <2>1, <3>1, <3>2, <3>3, <3>4
    <3>5. CASE e # d
      BY <2>3, <3>1, <3>3, <3>5 DEF IInv, Unborn
    <3> QED
      BY <3>4, <3>5
  <2> QED
    BY <2>2, <2>3
<1> QED
  BY <1>2, <1>3 DEF Discovered

LEMMA IdleIs == [IdleDisc EXCEPT !.seen = {}] = IdleDisc
<1>1. [IdleDisc EXCEPT !.seen = {}] =
        [pc |-> "idle", new |-> {}, watched |-> {}, others |-> {}, on |-> {}, off |-> {}, seen |-> {}]
  BY DEF IdleDisc
<1> QED
  BY <1>1 DEF IdleDisc

LEMMA IInvStep == IInv /\ [Next]_vars => IInv'
<1> SUFFICES ASSUME IInv, [Next]_vars PROVE IInv'
  OBVIOUS
<1> USE WatchAssumption DEF IInv, TypeOK, Requested, Before28, IdleReq, Up
<1>t. disc \in [Discoveries -> DiscType]
  BY DEF DiscType
<1>i. IdleDisc \in DiscType
  BY DEF IdleDisc, DiscType
<1>1. CASE Upgrade
  <2>1. schema \in 25..27 /\ schema' \in 26..28 /\ rows \in SUBSET Pages /\ active \in SUBSET rows
    BY <1>1 DEF Upgrade
  <2>2. active' = Upgraded(schema', rows, active)
    BY <1>1 DEF Upgrade
  <2>c. \A i \in 1..3 : Caps[i] \in Nat
    BY CapsAre
  <2>3. active' \subseteq rows
    <3>1. CASE schema' = 28
      BY <2>1, <2>2, <2>c, <3>1, CapByRoleIs DEF Upgraded
    <3>2. CASE schema' \in 26..27
      <4>1. schema' - 25 \in 1..3
        BY <3>2
      <4>2. active' = CapByType(Caps[schema' - 25], active)
        BY <2>2, <3>2 DEF Upgraded
      <4> QED
        BY <2>1, <2>c, <4>1, <4>2, CapByTypeIs
    <3> QED
      BY <2>1, <3>1, <3>2
  <2>4. /\ loose' \subseteq active' /\ loose' \subseteq Pages /\ armed' \subseteq Pages
        /\ UNCHANGED <<there, used, rows, queue, req, disc, missed, edits>>
    BY <1>1, <2>1, <2>3 DEF Upgrade
  <2>5. missed \subseteq active'
    BY <2>1
  <2>6. TypeOK'
    BY <2>1, <2>3, <2>4, <2>5
  <2>7. disc = [d \in Discoveries |-> IdleDisc] /\ disc' = disc
    BY <2>1, <2>4
  <2>8. Discovered' /\ Unborn'
    BY <2>7 DEF Discovered, Unborn, Sound, IdleDisc
  <2> QED
    BY <2>1, <2>3, <2>4, <2>6, <2>8
<1>2. CASE Restart
  <2>1. CASE queue
    <3>1. UNCHANGED <<disc, site>>
      BY <1>2, <2>1 DEF Restart
    <3>2. Discovered' /\ Unborn'
      BY <3>1, Aside DEF site
    <3> QED
      BY <1>2, <3>1, <3>2 DEF Restart, site
  <2>2. CASE ~queue
    <3>1. disc' = [d \in Discoveries |-> IdleDisc]
      BY <1>2, <2>2 DEF Restart
    <3>2. Discovered' /\ Unborn'
      BY <3>1 DEF Discovered, Unborn, Sound, IdleDisc
    <3>3. disc' \in [Discoveries -> DiscType]
      BY <1>i, <3>1
    <3>4. TypeOK'
      BY <1>2, <3>3 DEF Restart, site, DiscType
    <3> QED
      BY <1>2, <3>1, <3>2, <3>4 DEF Restart, site
  <2> QED
    BY <2>1, <2>2
<1>3. ASSUME NEW r \in Requests, NEW p \in Pages, AddPage(r, p) PROVE IInv'
  <2>1. Discovered' /\ Unborn'
    BY <1>3, Aside DEF AddPage
  <2> QED
    BY <1>3, <2>1 DEF AddPage, Begin, At, Turn
<1>4. ASSUME NEW r \in Requests, NEW p \in Pages, DisarmPage(r, p) PROVE IInv'
  <2>1. Discovered' /\ Unborn'
    BY <1>4, Aside DEF DisarmPage, site
  <2> QED
    BY <1>4, <2>1 DEF DisarmPage, Begin, At, Turn, site
<1>5. ASSUME NEW r \in Requests, NEW o \in OwnPages, InsertOwn(r, o) PROVE IInv'
  <2>1. Discovered' /\ Unborn'
    BY <1>5, Aside DEF InsertOwn
  <2> QED
    BY <1>5, <2>1 DEF InsertOwn, At, Turn
<1>6. ASSUME NEW r \in Requests, ArmPage(r) PROVE IInv'
  <2>1. Discovered' /\ Unborn'
    BY <1>6, Aside DEF ArmPage, site
  <2> QED
    BY <1>6, <2>1 DEF ArmPage, At, Turn, site
<1>7. ASSUME NEW r \in Requests, DropPage(r) PROVE IInv'
  <2>1. Discovered' /\ Unborn'
    BY <1>7, Aside DEF DropPage, Gone
  <2> QED
    BY <1>7, <2>1 DEF DropPage, At, Turn, Gone, Refused
<1>8. ASSUME NEW r \in Requests, SetOwn(r) PROVE IInv'
  <2>1. Discovered' /\ Unborn'
    BY <1>8, Aside DEF SetOwn, site
  <2> QED
    BY <1>8, <2>1 DEF SetOwn, Begin, At, Turn, Own, site
<1>9. ASSUME NEW d \in Discoveries, Discovery(d) PROVE IInv'
  <2> DEFINE now == disc[d]
  <2>s. Sound(now) /\ now \in DiscType
    BY <1>t DEF Discovered
  <2>1. ASSUME NEW found \in Listings, Look(d, found) PROVE IInv'
    <3> DEFINE new == Fresh(found)
               next == [IdleDisc EXCEPT !.pc = "insert", !.new = new]
    <3>1. new \subseteq Pages /\ new \cap used = {}
      BY DEF Fresh
    <3>2. /\ next.pc = "insert" /\ next.new = new /\ next.watched = {} /\ next.others = {}
          /\ next \in DiscType
      BY <3>1 DEF IdleDisc, DiscType
    <3>3. /\ Step(d, "idle", next) /\ used' = used \cup new /\ Up
          /\ edits < MaxEdits /\ edits' = edits + 1
          /\ UNCHANGED <<there, rows, active, armed, queue, req, schema, loose, missed>>
      BY <2>1 DEF Look, Begin
    <3>4. /\ disc' \in [Discoveries -> DiscType] /\ now.pc = "idle" /\ disc'[d] = next
          /\ \A e \in Discoveries \ {d} : disc'[e] = disc[e]
      BY <3>2, <3>3, StepIs
    <3> HIDE DEF new, next
    <3>5. TypeOK'
      BY <3>1, <3>3, <3>4 DEF DiscType
    <3>6. Sound(disc[d])'
      BY <3>1, <3>2, <3>3, <3>4 DEF Sound
    <3>7. Discovered' /\ Unborn'
      BY <3>1, <3>2, <3>3, <3>4, <3>6, OneStep
    <3> QED
      BY <3>3, <3>5, <3>7
  <2>2. CASE Insert(d)
    <3> DEFINE next == [disc[d] EXCEPT !.pc = "choose"]
    <3>1. /\ next.pc = "choose" /\ next.new = now.new /\ next.watched = now.watched
          /\ next.others = now.others /\ next \in DiscType
      BY <2>s DEF DiscType
    <3>2. /\ Step(d, "insert", next)
          /\ rows' = rows \cup now.new /\ active' = active \cup now.new /\ loose' = loose \cup now.new
          /\ UNCHANGED <<there, used, armed, queue, req, schema, missed, edits>>
      BY <2>2 DEF Insert
    <3>3. /\ disc' \in [Discoveries -> DiscType] /\ now.pc = "insert" /\ disc'[d] = next
          /\ \A e \in Discoveries \ {d} : disc'[e] = disc[e]
      BY <3>1, <3>2, StepIs
    <3> HIDE DEF next
    <3>4. now.new \subseteq used /\ now.new \subseteq Pages
      BY <2>s DEF Sound, DiscType
    <3>5. TypeOK'
      BY <3>2, <3>3, <3>4 DEF DiscType
    <3>6. Sound(disc[d])'
      BY <2>s, <3>1, <3>2, <3>3 DEF Sound
    <3>7. Discovered' /\ Unborn'
      BY <3>1, <3>2, <3>3, <3>6, OneStep
    <3>8. Up
      BY <3>3 DEF IdleDisc
    <3> QED
      BY <3>2, <3>5, <3>7, <3>8
  <2>3. CASE Choose(d)
    <3> DEFINE all == rows \cap Pages
               next == [disc[d] EXCEPT !.pc = "flag", !.watched = Watched(all),
                                       !.others = all \ Watched(all), !.seen = rows \cap Pages]
    <3>1. Watched(all) \subseteq all /\ Cardinality(Watched(all)) <= Cap
      BY WatchedIs
    <3>2. /\ next.pc = "flag" /\ next.new = now.new /\ next.watched = Watched(all)
          /\ next.others = all \ Watched(all) /\ next.seen = all /\ next \in DiscType
      BY <2>s, <3>1 DEF DiscType
    <3>3. Step(d, "choose", next) /\ UNCHANGED <<site, armed, queue, req, schema, loose, missed, edits>>
      BY <2>3 DEF Choose, Chosen
    <3>4. /\ disc' \in [Discoveries -> DiscType] /\ now.pc = "choose" /\ disc'[d] = next
          /\ \A e \in Discoveries \ {d} : disc'[e] = disc[e]
      BY <3>2, <3>3, StepIs
    <3> HIDE DEF next
    <3>5. TypeOK'
      BY <3>3, <3>4 DEF DiscType, site
    <3>6. Sound(disc[d])'
      <4>1. now.new \subseteq Pages /\ now.new \subseteq used /\ all \subseteq used
        BY <2>s DEF Sound, DiscType
      <4>2. UNCHANGED <<used, rows, active>> /\ now.new \cap rows \subseteq all
        BY <3>3, <4>1 DEF site
      <4> HIDE DEF all
      <4> QED
        BY <3>1, <3>2, <3>4, <4>1, <4>2 DEF Sound
    <3>7. Discovered' /\ Unborn'
      BY <3>1, <3>2, <3>3, <3>4, <3>6, OneStep DEF site
    <3>8. Up
      BY <3>4 DEF IdleDisc
    <3> QED
      BY <3>3, <3>5, <3>7, <3>8 DEF site
  <2>4. CASE Flag(d)
    <3> DEFINE next == [disc[d] EXCEPT !.pc = "commit", !.off = disc[d].others \cap active,
                                       !.on = (disc[d].watched \cap rows) \ active]
    <3>1. /\ next.pc = "commit" /\ next.new = now.new /\ next.watched = now.watched
          /\ next.others = now.others /\ next.seen = now.seen /\ next \in DiscType
          /\ next.off = now.others \cap active /\ next.on = (now.watched \cap rows) \ active
      BY <2>s DEF DiscType
    <3>2. Step(d, "flag", next) /\ UNCHANGED <<site, armed, queue, req, schema, loose, missed, edits>>
      BY <2>4 DEF Flag
    <3>3. /\ disc' \in [Discoveries -> DiscType] /\ now.pc = "flag" /\ disc'[d] = next
          /\ \A e \in Discoveries \ {d} : disc'[e] = disc[e]
      BY <3>1, <3>2, StepIs
    <3> HIDE DEF next
    <3>4. TypeOK'
      BY <3>2, <3>3 DEF DiscType, site
    <3>5. Sound(disc[d])'
      BY <2>s, <3>1, <3>2, <3>3 DEF Sound, site
    <3>6. Discovered' /\ Unborn'
      BY <3>1, <3>2, <3>3, <3>5, OneStep DEF site
    <3>7. Up
      BY <3>3 DEF IdleDisc
    <3> QED
      BY <3>2, <3>4, <3>6, <3>7 DEF site
  <2>5. CASE Commit(d)
    <3>1. /\ now.pc = "commit"
          /\ active' = (active \ now.off) \cup (now.on \cap rows)
          /\ loose' = (active' \cap Pages) \ (now.seen \cup now.watched)
          /\ missed' = (missed \cap active') \cup ((now.others \cap active') \ armed)
          /\ disc' = [e \in Discoveries |->
                        IF e = d THEN [now EXCEPT !.pc = "reread", !.new = {},
                                         !.on = {}, !.off = {}, !.seen = {}]
                        ELSE [disc[e] EXCEPT !.seen = @ \ now.on]]
          /\ UNCHANGED <<there, used, rows, armed, queue, req, schema, edits>>
      BY <2>5 DEF Commit
    <3>2. /\ disc'[d].pc = "reread" /\ disc'[d].new = {} /\ disc'[d] \in DiscType
          /\ disc'[d].watched = now.watched /\ disc'[d].others = now.others
      BY <2>s, <3>1 DEF DiscType
    <3>3. ASSUME NEW e \in Discoveries \ {d}
          PROVE  /\ disc'[e] = [disc[e] EXCEPT !.seen = disc[e].seen \ now.on]
                 /\ disc'[e] \in DiscType
                 /\ disc'[e].pc = disc[e].pc /\ disc'[e].new = disc[e].new
                 /\ disc'[e].watched = disc[e].watched /\ disc'[e].others = disc[e].others
                 /\ disc'[e].on = disc[e].on /\ disc'[e].off = disc[e].off
                 /\ disc'[e].seen = disc[e].seen \ now.on
      BY <1>t, <3>1 DEF DiscType
    <3>4. disc' \in [Discoveries -> DiscType]
      BY <3>1, <3>2, <3>3
    <3>5. TypeOK'
      BY <3>1, <3>4 DEF DiscType
    <3>6. Sound(disc[d])'
      BY <2>s, <3>1, <3>2 DEF Sound
    <3>7. ASSUME NEW e \in Discoveries \ {d} PROVE Sound(disc[e])'
      <4>1. Sound(disc[e]) /\ disc[e] \in DiscType
        BY <1>t DEF Discovered
      <4>2. disc[e].pc = "idle" => disc'[e] = IdleDisc
        <5> SUFFICES ASSUME disc[e].pc = "idle" PROVE disc'[e] = IdleDisc
          OBVIOUS
        <5>1. disc[e] = IdleDisc
          BY <4>1 DEF Sound
        <5>2. disc[e].seen \ now.on = {}
          BY <5>1 DEF IdleDisc
        <5>3. disc'[e] = [IdleDisc EXCEPT !.seen = {}]
          BY <3>3, <5>1, <5>2
        <5> QED
          BY <5>3, IdleIs
      <4> QED
        BY <3>1, <3>3, <4>1, <4>2 DEF Sound
    <3>8. Unborn'
      <4>1. \A e \in Discoveries :
              /\ disc'[e].pc = "insert" => disc[e].pc = "insert"
              /\ disc'[e].new \subseteq disc[e].new
              /\ disc'[e].watched = disc[e].watched /\ disc'[e].others = disc[e].others
        BY <3>2, <3>3
      <4> QED
        BY <3>1, <4>1 DEF Unborn
    <3>9. Up
      BY <3>1 DEF IdleDisc
    <3> QED
      BY <3>1, <3>5, <3>6, <3>7, <3>8, <3>9 DEF Discovered
  <2>6. CASE Reread(d)
    <3> DEFINE next == [disc[d] EXCEPT !.pc = "arm", !.watched = disc[d].watched \cap rows]
    <3>1. /\ next.pc = "arm" /\ next.new = now.new /\ next.watched = now.watched \cap rows
          /\ next.others = now.others /\ next \in DiscType
      BY <2>s DEF DiscType
    <3>2. Step(d, "reread", next) /\ UNCHANGED <<site, armed, queue, req, schema, loose, missed, edits>>
      BY <2>6 DEF Reread
    <3>3. /\ disc' \in [Discoveries -> DiscType] /\ now.pc = "reread" /\ disc'[d] = next
          /\ \A e \in Discoveries \ {d} : disc'[e] = disc[e]
      BY <3>1, <3>2, StepIs
    <3> HIDE DEF next
    <3>4. TypeOK'
      BY <3>2, <3>3 DEF DiscType, site
    <3>5. Sound(disc[d])'
      BY <2>s, <3>1, <3>2, <3>3 DEF Sound, site
    <3>6. Discovered' /\ Unborn'
      BY <3>1, <3>2, <3>3, <3>5, OneStep DEF site
    <3>7. Up
      BY <3>3 DEF IdleDisc
    <3> QED
      BY <3>2, <3>4, <3>6, <3>7 DEF site
  <2>7. ASSUME disc' = [disc EXCEPT ![d] = IdleDisc], now.pc # "idle",
               armed' \subseteq Pages \cup OwnPages, missed' \subseteq active,
               UNCHANGED <<site, queue, req, schema, loose, edits>>
        PROVE  IInv'
    <3>1. Step(d, now.pc, IdleDisc)
      BY <2>7 DEF Step
    <3>2. /\ disc' \in [Discoveries -> DiscType] /\ disc'[d] = IdleDisc
          /\ \A e \in Discoveries \ {d} : disc'[e] = disc[e]
      BY <1>i, <3>1, StepIs
    <3>3. TypeOK'
      BY <2>7, <3>2 DEF DiscType, site
    <3>4. Sound(disc[d])' /\ IdleDisc.new = {} /\ IdleDisc.watched = {} /\ IdleDisc.others = {} /\ IdleDisc.pc = "idle"
      BY <3>2 DEF Sound, IdleDisc
    <3>5. Discovered' /\ Unborn'
      BY <2>7, <3>2, <3>4, OneStep DEF site
    <3>6. Up
      BY <2>7 DEF IdleDisc
    <3> QED
      BY <2>7, <3>3, <3>5, <3>6 DEF site
  <2>8. CASE Arm(d)
    <3>1. disc' = [disc EXCEPT ![d] = IdleDisc] /\ now.pc = "arm" /\ now.watched \subseteq Pages
      BY <2>8, <2>s DEF Arm, Armed, Step, DiscType
    <3>2. armed' \subseteq Pages \cup OwnPages /\ missed' \subseteq active
      BY <2>8, <3>1 DEF Arm, Armed, Refused
    <3> QED
      BY <2>7, <2>8, <3>1, <3>2 DEF Arm, Armed
  <2>9. CASE FailDiscovery(d)
    BY <2>7, <2>9 DEF FailDiscovery, Refused
  <2> QED
    BY <1>9, <2>1, <2>2, <2>3, <2>4, <2>5, <2>6, <2>8, <2>9 DEF Discovery
<1>16. ASSUME NEW set \in SUBSET rows, DropAll(set) PROVE IInv'
  <2>1. /\ armed' = armed \ set /\ UNCHANGED <<used, queue, req, disc, schema>>
        /\ Up /\ edits' = edits + 1 /\ edits < MaxEdits
    BY <1>16 DEF DropAll, Begin
  <2>2. CASE Gone(set) /\ there' = (there /\ set \subseteq OwnPages)
    <3>1. /\ rows' = rows \ set /\ active' = active \ set /\ loose' = loose \ set
          /\ missed' = missed \ set /\ there' \in BOOLEAN
      BY <2>2 DEF Gone
    <3>2. TypeOK'
      BY <2>1, <3>1
    <3>3. Discovered' /\ Unborn'
      BY <2>1, <3>1, Aside
    <3> QED
      BY <2>1, <3>1, <3>2, <3>3
  <2>3. CASE missed' = missed \cup (set \cap active) /\ UNCHANGED <<there, rows, active, loose>>
    <3>1. Discovered' /\ Unborn'
      BY <2>1, <2>3, Aside
    <3> QED
      BY <2>1, <2>3, <3>1
  <2> QED
    BY <1>16, <2>2, <2>3 DEF DropAll
<1>17. CASE UNCHANGED vars
  <2>1. Discovered' /\ Unborn'
    BY <1>17, Aside DEF vars, site
  <2> QED
    BY <1>17, <2>1 DEF vars, site
<1>18. CASE Delete
  <2>1. rows \cap Pages \in SUBSET rows /\ \A o \in Own : {o} \in SUBSET rows
    BY DEF Own
  <2> QED
    BY <1>16, <1>18, <2>1 DEF Delete
<1> QED
  BY <1>1, <1>2, <1>3, <1>4, <1>5, <1>6, <1>7, <1>8, <1>9, <1>17, <1>18 DEF Next, Request

LEMMA IInvHolds == Spec => []IInv
  BY InitIInv, IInvStep, PTL DEF Spec

\* Rows, jobs and the steps under way keep their types; only pages that are there
\* are active.
THEOREM TypeCorrect == Spec => []TypeOK
<1>1. IInv => TypeOK
  BY DEF IInv
<1> QED
  BY IInvHolds, <1>1, PTL

-----------------------------------------------------------------------------
(* The cap.                                                                *)

Counted == (active \cap Pages) \ loose

\* Before the database is up to date nothing but the upgrade runs.
LEMMA StepsUp == ASSUME IInv, Next PROVE Up \/ Upgrade
<1> SUFFICES ASSUME ~Up, ~Upgrade PROVE FALSE
  OBVIOUS
<1>1. \A r \in Requests : req[r].pc = "idle"
  BY DEF IInv, Before28, IdleReq
<1>2. \A d \in Discoveries : disc[d].pc = "idle"
  BY DEF IInv, Before28, IdleDisc
<1>3. \A r \in Requests : ~Request(r)
  BY <1>1 DEF Request, AddPage, DisarmPage, InsertOwn, ArmPage, DropPage, SetOwn, Begin, At
<1>4. \A d \in Discoveries : ~Discovery(d)
  BY <1>2 DEF Discovery, Look, Insert, Choose, Chosen, Flag, Commit, Reread, Arm, Armed,
              FailDiscovery, Begin, Step
<1> QED
  BY <1>3, <1>4 DEF Next, Restart, Delete, DropAll, Begin

LEMMA CapStep == IInv /\ IInv' /\ CapKept /\ [Next]_vars => CapKept'
<1> SUFFICES ASSUME IInv, IInv', CapKept, [Next]_vars, Up' PROVE Cardinality(Counted') <= Cap
  BY DEF CapKept, Counted, Up
<1> USE DEF Counted, site
<1>1. ASSUME NEW S \in SUBSET Pages, Cardinality(S) <= Cap, Counted' \subseteq S
      PROVE  Cardinality(Counted') <= Cap
  <2>1. IsFiniteSet(S)
    BY SelectionAssumption, FS_Subset
  <2>2. Cardinality(Counted') <= Cardinality(S)
    BY <1>1, <2>1, FS_Subset
  <2>3. Cardinality(S) \in Nat /\ IsFiniteSet(Counted')
    BY <1>1, <2>1, FS_Subset, FS_CardinalityType
  <2>4. Cardinality(Counted') \in Nat
    BY <2>3, FS_CardinalityType
  <2> QED
    BY <1>1, <2>2, <2>3, <2>4, SelectionAssumption
<1>2. CASE Upgrade
  <2>1. schema' = 28 /\ rows \in SUBSET Pages /\ Caps[3] \in Nat /\ Caps[3] <= Cap /\ Cap \in Nat
    BY <1>2, SelectionAssumption, WatchAssumption DEF Upgrade, Up, IInv, Before28
  <2>2. active' = CapByRole(Caps[3], rows)
    BY <1>2, <2>1 DEF Upgrade, Upgraded
  <2>3. active' \subseteq rows /\ Cardinality(active') <= Caps[3]
    BY <2>1, <2>2, CapByRoleIs
  <2>4. Cardinality(active') \in Nat
    BY <2>1, <2>3, SelectionAssumption, FS_Subset, FS_CardinalityType
  <2>5. Cardinality(active') <= Cap
    BY <2>1, <2>3, <2>4
  <2> QED
    BY <1>1, <2>1, <2>3, <2>5
<1>3. ASSUME NEW d \in Discoveries, Commit(d) PROVE Cardinality(Counted') <= Cap
  <2>1. /\ disc[d].pc = "commit" /\ disc[d] \in DiscType /\ Sound(disc[d])
        /\ active' = (active \ disc[d].off) \cup (disc[d].on \cap rows)
        /\ loose' = (active' \cap Pages) \ (disc[d].seen \cup disc[d].watched)
    BY <1>3 DEF Commit, IInv, TypeOK, DiscType, Discovered
  <2>2. /\ disc[d].seen \subseteq disc[d].watched \cup disc[d].others /\ disc[d].on \subseteq disc[d].watched
        /\ disc[d].seen \cap disc[d].others \cap active \subseteq disc[d].off
        /\ Cardinality(disc[d].watched) <= Cap /\ disc[d].watched \subseteq Pages
    BY <2>1 DEF Sound, DiscType
  <2>3. Counted' \subseteq disc[d].watched
    BY <2>1, <2>2
  <2> QED
    BY <1>1, <2>2, <2>3
<1>4. ASSUME Up, Counted' \subseteq Counted PROVE Cardinality(Counted') <= Cap
  BY <1>1, <1>4 DEF CapKept
<1>5. ASSUME NEW r \in Requests, Request(r) PROVE Counted' \subseteq Counted
  BY <1>5, WatchAssumption
  DEF Request, AddPage, DisarmPage, InsertOwn, ArmPage, DropPage, SetOwn, Gone
<1>6. ASSUME NEW d \in Discoveries, Discovery(d), ~Commit(d) PROVE Counted' \subseteq Counted
  BY <1>6 DEF Discovery, Look, Insert, Choose, Chosen, Flag, Reread, Arm, Armed, FailDiscovery
<1>7. CASE Delete
  BY <1>4, <1>7 DEF Delete, DropAll, Begin, Gone
<1>8. CASE Restart \/ UNCHANGED vars
  BY <1>4, <1>8 DEF Restart, vars, Up
<1>9. Up \/ Upgrade
  BY StepsUp DEF vars, Up
<1> QED
  BY <1>2, <1>3, <1>4, <1>5, <1>6, <1>7, <1>8, <1>9 DEF Next

\* However discoveries overlap with each other and with requests, deletions and
\* restarts, and whatever revision the database comes from: of the pages there
\* when the choice last committed was made, no more than the cap are active, but
\* for those a discovery overlapping it switched on
\* (competitor_discovery_service.py:92-134).
THEOREM CapIsKept == Spec => []CapKept
<1>1. Init => CapKept
  <2> SUFFICES ASSUME Init PROVE Cardinality((active \cap Pages) \ loose) <= Cap
    BY DEF CapKept
  <2>1. (active \cap Pages) \ loose = {}
    BY DEF Init
  <2>2. Cardinality({}) = 0
    BY FS_EmptySet
  <2>3. Cap \in Nat
    BY SelectionAssumption
  <2> QED
    BY <2>1, <2>2, <2>3
<1> QED
  BY <1>1, IInvHolds, CapStep, PTL DEF Spec

-----------------------------------------------------------------------------
(* Jobs of the scheduler.                                                  *)

LEMMA TurnKeeps ==
  ASSUME IInv, NEW r \in Requests, NEW pc, NEW p, Turn(r, pc, p), disc' = disc
  PROVE  /\ p \in Coming'
         /\ Coming \subseteq Coming' \cup {req[r].page}
<1>1. req \in [Requests -> ReqType]
  BY DEF IInv, TypeOK, ReqType
<1>2. req'[r].page = p /\ \A s \in Requests \ {r} : req'[s] = req[s]
  BY <1>1 DEF Turn
<1> QED
  BY <1>2 DEF Coming

LEMMA RequestStep ==
  ASSUME IInv, ActiveHasJob, Up, NEW r \in Requests, Request(r)
  PROVE  active' \subseteq armed' \cup missed' \cup Coming'
<1> USE WatchAssumption DEF site, At
<1>1. active \subseteq armed \cup missed \cup Coming
  BY DEF ActiveHasJob
<1>2. NoPage \notin active /\ (req[r].pc \in {"idle", "own"} => req[r].page = NoPage)
  BY DEF IInv, TypeOK, Requested
<1>3. ASSUME NEW p \in Pages, AddPage(r, p) PROVE active' \subseteq armed' \cup missed' \cup Coming'
  BY <1>1, <1>2, <1>3, TurnKeeps DEF AddPage
<1>4. ASSUME NEW p \in Pages, DisarmPage(r, p) PROVE active' \subseteq armed' \cup missed' \cup Coming'
  BY <1>1, <1>2, <1>4, TurnKeeps DEF DisarmPage
<1>5. ASSUME NEW o \in OwnPages, InsertOwn(r, o) PROVE active' \subseteq armed' \cup missed' \cup Coming'
  BY <1>1, <1>2, <1>5, TurnKeeps DEF InsertOwn
<1>6. CASE ArmPage(r)
  BY <1>1, <1>2, <1>6, TurnKeeps DEF ArmPage
<1>7. CASE DropPage(r)
  BY <1>1, <1>2, <1>7, TurnKeeps DEF DropPage, Gone, Refused
<1>8. CASE SetOwn(r)
  <2>1. CASE Turn(r, "own", NoPage) /\ UNCHANGED armed
    BY <1>1, <1>2, <1>8, <2>1, TurnKeeps DEF SetOwn
  <2>2. ASSUME NEW o \in Own, armed' = armed \ {o}, Turn(r, "arm", o)
        PROVE  active' \subseteq armed' \cup missed' \cup Coming'
    BY <1>1, <1>2, <1>8, <2>2, TurnKeeps DEF SetOwn
  <2> QED
    BY <1>8, <2>1, <2>2 DEF SetOwn
<1> QED
  BY <1>3, <1>4, <1>5, <1>6, <1>7, <1>8 DEF Request

LEMMA DiscoveryStep ==
  ASSUME IInv, ActiveHasJob, Up, NEW d \in Discoveries, Discovery(d)
  PROVE  active' \subseteq armed' \cup missed' \cup Coming'
<1> DEFINE asked == {req[r].page : r \in Requests}
           now == disc[d]
           Of(x) == x.new \cup x.watched
<1> USE DEF site
<1>1. active \subseteq armed \cup missed \cup asked \cup UNION {Of(disc[e]) : e \in Discoveries}
  BY DEF ActiveHasJob, Coming
<1>2. active \subseteq rows /\ disc \in [Discoveries -> DiscType] /\ Sound(now) /\ now \in DiscType
  BY DEF IInv, TypeOK, Discovered, DiscType
\* It is enough to see to the pages this discovery was to arm.
<1>3. ASSUME UNCHANGED req, \A e \in Discoveries \ {d} : Of(disc'[e]) = Of(disc[e]),
             active' \subseteq active \cup Of(disc'[d]),
             \A p \in active' : p \in armed \cup missed \cup Of(now) => p \in armed' \cup missed' \cup Of(disc'[d])
      PROVE  active' \subseteq armed' \cup missed' \cup Coming'
  <2> SUFFICES ASSUME NEW p \in active', p \notin armed' \cup missed' \cup Of(disc'[d])
               PROVE  p \in Coming'
    BY DEF Coming
  <2>1. p \in active /\ p \notin armed \cup missed \cup Of(now)
    BY <1>3
  <2>2. p \in asked \/ \E e \in Discoveries : p \in Of(disc[e])
    BY <1>1, <2>1
  <2>3. CASE p \in asked
    BY <1>3, <2>3 DEF Coming
  <2>4. ASSUME NEW e \in Discoveries, p \in Of(disc[e]) PROVE p \in Coming'
    <3>1. e # d
      BY <2>1, <2>4
    <3>2. p \in disc'[e].new \cup disc'[e].watched
      BY <1>3, <2>4, <3>1
    <3> QED
      BY <3>2 DEF Coming
  <2> QED
    BY <2>2, <2>3, <2>4
<1>4. ASSUME NEW pc, NEW next, Step(d, pc, next)
      PROVE  /\ now.pc = pc /\ disc'[d] = next
             /\ \A e \in Discoveries \ {d} : Of(disc'[e]) = Of(disc[e])
  BY <1>2, <1>4 DEF Step
<1> HIDE DEF asked
<1>5. ASSUME NEW found \in Listings, Look(d, found)
      PROVE  active' \subseteq armed' \cup missed' \cup Coming'
  <2> DEFINE next == [IdleDisc EXCEPT !.pc = "insert", !.new = Fresh(found)]
  <2>1. Step(d, "idle", next)
    BY <1>5 DEF Look
  <2>2. now.pc = "idle" /\ Of(now) = {}
    BY <1>2, <1>4, <2>1 DEF Sound, IdleDisc
  <2> QED
    BY <1>3, <1>4, <1>5, <2>1, <2>2 DEF Look
<1>6. CASE Insert(d)
  <2>1. PICK next : Step(d, "insert", next) /\ next.new = now.new /\ next.watched = now.watched
    BY <1>2, <1>6 DEF Insert, DiscType
  <2> QED
    BY <1>3, <1>4, <1>6, <2>1 DEF Insert
<1>7. CASE Choose(d)
  <2> DEFINE all == rows \cap Pages
             next == [disc[d] EXCEPT !.pc = "flag", !.watched = Watched(all),
                                     !.others = all \ Watched(all), !.seen = rows \cap Pages]
  <2>1. Step(d, "choose", next) /\ next.new = now.new
    BY <1>2, <1>7 DEF Choose, Chosen, DiscType
  <2> HIDE DEF next
  <2>2. now.watched = {}
    BY <1>2, <1>4, <2>1 DEF Sound
  <2> QED
    BY <1>3, <1>4, <1>7, <2>1, <2>2 DEF Choose, Chosen
<1>8. CASE Flag(d)
  <2> DEFINE next == [disc[d] EXCEPT !.pc = "commit", !.off = disc[d].others \cap active,
                                     !.on = (disc[d].watched \cap rows) \ active]
  <2>1. Step(d, "flag", next) /\ next.new = now.new /\ next.watched = now.watched
    BY <1>2, <1>8 DEF Flag, DiscType
  <2> HIDE DEF next
  <2> QED
    BY <1>3, <1>4, <1>8, <2>1 DEF Flag
<1>9. CASE Commit(d)
  <2>1. /\ now.pc = "commit" /\ disc'[d].watched = now.watched
        /\ \A e \in Discoveries \ {d} : Of(disc'[e]) = Of(disc[e])
    BY <1>2, <1>9 DEF Commit, DiscType
  <2>2. /\ active' = (active \ now.off) \cup (now.on \cap rows)
        /\ missed' = (missed \cap active') \cup ((now.others \cap active') \ armed)
        /\ UNCHANGED <<armed, req>>
    BY <1>9 DEF Commit
  <2>3. now.on \subseteq now.watched /\ now.new \cap rows \subseteq now.watched \cup now.others
    BY <1>2, <2>1 DEF Sound
  <2>4. active' \subseteq rows
    BY <1>2, <2>2
  <2> QED
    BY <1>3, <2>1, <2>2, <2>3, <2>4
<1>10. CASE Reread(d)
  <2> DEFINE next == [disc[d] EXCEPT !.pc = "arm", !.watched = disc[d].watched \cap rows]
  <2>1. Step(d, "reread", next) /\ next.new = now.new /\ next.watched = now.watched \cap rows
    BY <1>2, <1>10 DEF Reread, DiscType
  <2> HIDE DEF next
  <2> QED
    BY <1>2, <1>3, <1>4, <1>10, <2>1 DEF Reread
<1>11. CASE Arm(d)
  <2>1. Step(d, "arm", IdleDisc) /\ UNCHANGED <<site, req>>
    BY <1>11 DEF Arm, Armed
  <2>2. now.new = {} /\ now.watched \cap now.others = {}
    BY <1>2, <1>4, <2>1 DEF Sound
  <2> QED
    BY <1>3, <1>4, <1>11, <2>1, <2>2 DEF Arm, Armed, Refused
<1>12. CASE FailDiscovery(d)
  <2>1. Step(d, now.pc, IdleDisc)
    BY <1>12 DEF FailDiscovery, Step
  <2> QED
    BY <1>3, <1>4, <1>12, <2>1 DEF FailDiscovery, Refused
<1> QED
  BY <1>5, <1>6, <1>7, <1>8, <1>9, <1>10, <1>11, <1>12 DEF Discovery

LEMMA JobStep == IInv /\ ActiveHasJob /\ [Next]_vars => ActiveHasJob'
<1> SUFFICES ASSUME IInv, ActiveHasJob, [Next]_vars, Up'
             PROVE  active' \subseteq armed' \cup missed' \cup Coming'
  BY DEF ActiveHasJob, Up
<1>1. CASE Upgrade
  BY <1>1 DEF Upgrade, Up
<1>2. CASE Restart
  BY <1>2 DEF Restart, site
<1>u. Up \/ Upgrade
  BY StepsUp DEF vars, Up
<1>3. ASSUME NEW r \in Requests, Request(r) PROVE active' \subseteq armed' \cup missed' \cup Coming'
  BY <1>1, <1>3, <1>u, RequestStep
<1>4. ASSUME NEW d \in Discoveries, Discovery(d)
      PROVE  active' \subseteq armed' \cup missed' \cup Coming'
  BY <1>1, <1>4, <1>u, DiscoveryStep
<1>5. ASSUME NEW set, DropAll(set) PROVE active' \subseteq armed' \cup missed' \cup Coming'
  BY <1>5 DEF DropAll, Begin, Gone, Up, ActiveHasJob, Coming
<1>6. CASE UNCHANGED vars
  BY <1>6 DEF vars, site, Up, ActiveHasJob, Coming
<1> QED
  BY <1>1, <1>2, <1>3, <1>4, <1>5, <1>6 DEF Next, Delete

\* A page is not active without a job but where a delete was refused, where a
\* discovery could give it none, where overlapping discoveries decided
\* differently, or while the step that arms it is to come
\* (routers/surfaces.py:144-231, competitor_discovery_service.py:95-134).
THEOREM ActiveHaveJobs == Spec => []ActiveHasJob
<1>1. Init => ActiveHasJob
  BY DEF Init, ActiveHasJob, Up
<1> QED
  BY <1>1, IInvHolds, JobStep, PTL DEF Spec

-----------------------------------------------------------------------------
(* The choice.                                                             *)

LEMMA ChoiceStep == IInv /\ ChoiceIsBest /\ [Next]_vars => ChoiceIsBest'
<1> SUFFICES ASSUME IInv, ChoiceIsBest, [Next]_vars, NEW d \in Discoveries, disc'[d].pc = "flag"
             PROVE  disc'[d].watched = Best(Cap, disc'[d].watched \cup disc'[d].others)
  BY DEF ChoiceIsBest
<1>1. disc \in [Discoveries -> DiscType]
  BY DEF IInv, TypeOK, DiscType
<1>2. CASE /\ disc'[d].pc = disc[d].pc /\ disc'[d].watched = disc[d].watched
           /\ disc'[d].others = disc[d].others
  BY <1>2 DEF ChoiceIsBest
<1>3. CASE Choose(d)
  <2> DEFINE all == rows \cap Pages
  <2>1. disc'[d].watched = Watched(all) /\ disc'[d].others = all \ Watched(all)
    BY <1>1, <1>3 DEF Choose, Chosen, Step, DiscType
  <2>2. Watched(all) \cup (all \ Watched(all)) = all /\ Watched(all) = Best(Cap, all)
    BY WatchedIs, ChoosesBest, SelectionAssumption DEF Watched
  <2> QED
    BY <2>1, <2>2
<1>4. ASSUME NEW r \in Requests, Request(r) PROVE disc' = disc
  BY <1>4 DEF Request, AddPage, DisarmPage, InsertOwn, ArmPage, DropPage, SetOwn
<1>5. ASSUME NEW e \in Discoveries, e # d, Discovery(e)
      PROVE  /\ disc'[d].pc = disc[d].pc /\ disc'[d].watched = disc[d].watched
             /\ disc'[d].others = disc[d].others
  <2>1. CASE Commit(e)
    BY <1>1, <1>5, <2>1 DEF Commit, DiscType
  <2>2. CASE ~Commit(e)
    BY <1>1, <1>5, <2>2 DEF Discovery, Look, Insert, Choose, Chosen, Flag, Reread, Arm, Armed,
                            FailDiscovery, Step
  <2> QED
    BY <2>1, <2>2
<1>6. ASSUME Discovery(d), ~Choose(d) PROVE FALSE
  <2>1. ASSUME NEW found \in Listings, Look(d, found) PROVE disc'[d].pc = "insert"
    BY <1>1, <2>1 DEF Look, Step, IdleDisc
  <2>2. Insert(d) \/ Flag(d) \/ Commit(d) \/ Reread(d) => disc'[d].pc \in {"choose", "commit", "reread", "arm"}
    BY <1>1 DEF Insert, Flag, Commit, Reread, Step, DiscType
  <2>3. Arm(d) \/ FailDiscovery(d) => disc'[d].pc = "idle"
    BY <1>1 DEF Arm, Armed, FailDiscovery, Step, IdleDisc
  <2> QED
    BY <1>6, <2>1, <2>2, <2>3 DEF Discovery
<1>7. CASE Restart
  BY <1>2, <1>7 DEF Restart, IdleDisc
<1>8. CASE Upgrade \/ Delete \/ UNCHANGED vars
  BY <1>2, <1>8 DEF Upgrade, Delete, DropAll, vars
<1> QED
  BY <1>2, <1>3, <1>4, <1>5, <1>6, <1>7, <1>8 DEF Next

\* A discovery chooses the best pages of the competitor, none excluded, one per
\* address, whatever pages there are (surface_selection.py:261-300).
THEOREM ChoosesTheBest == Spec => []ChoiceIsBest
<1>1. Init => ChoiceIsBest
  BY DEF Init, ChoiceIsBest, IdleDisc
<1> QED
  BY <1>1, IInvHolds, ChoiceStep, PTL DEF Spec

\* A database upgraded from before the cap watches the best pages there are by
\* the discovery's rules: the frozen copy in the migration 0028, which reads an
\* address in another way (0028:109-130), agrees with surface_selection.py where a
\* slash follows the host.
THEOREM UpgradesToTheBest == Spec => UpgradeIsBest
<1>1. IInv /\ [Next]_vars => [schema = 27 => active' = Best(Caps[3], rows)]_vars
  <2> SUFFICES ASSUME IInv, Next, schema = 27 PROVE active' = Best(Caps[3], rows)
    BY DEF vars
  <2>1. ~Up /\ rows \in SUBSET Pages /\ req = [r \in Requests |-> IdleReq]
    BY DEF IInv, Before28, Up
  <2>2. Upgrade
    BY <2>1, StepsUp
  <2>3. schema' = 28 /\ active' = CapByRole(Caps[3], rows)
    BY <2>2 DEF Upgrade, Upgraded
  <2>4. Caps[3] \in Nat
    BY SelectionAssumption, WatchAssumption
  <2> QED
    BY <2>1, <2>3, <2>4, CapByRoleIs
<1> QED
  BY <1>1, IInvHolds, PTL DEF Spec, UpgradeIsBest

=============================================================================
