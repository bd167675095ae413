------------------------- MODULE PageDiscoveryProofs -------------------------
(***************************************************************************)
(* Theorems of PageDiscovery, for every site, every order of its sitemaps  *)
(* and all budgets.                                                        *)
(***************************************************************************)
EXTENDS PageDiscovery, FiniteSetTheorems, FunctionTheorems, SequenceTheorems, WellFoundedInduction, TLAPS

-----------------------------------------------------------------------------
(* Counting up.                                                            *)

LEMMA Smallest ==
  ASSUME NEW T \in SUBSET Nat, T # {}
  PROVE  \E i \in T : \A j \in T : i <= j
<1>1. PICK i \in T : \A j \in T : <<j, i>> \notin OpToRel(<, Nat)
  BY NatLessThanWellFounded, WFMin
<1>2. \A j \in T : ~(j < i)
  BY <1>1 DEF OpToRel
<1> QED
  BY <1>2

\* Induction up to n, over a set.
LEMMA Upwards ==
  ASSUME NEW n \in Nat, NEW T, 0 \in T, \A k \in 0..(n - 1) : k \in T => k + 1 \in T
  PROVE  \A k \in 0..n : k \in T
<1> DEFINE D == {k \in 0..n : k \notin T}
<1> SUFFICES ASSUME D # {} PROVE FALSE
  OBVIOUS
<1>1. PICK m \in D : \A j \in D : m <= j
  <2> D \in SUBSET Nat
    OBVIOUS
  <2> HIDE DEF D
  <2> QED
    BY Smallest
<1>2. m # 0 /\ m - 1 \in 0..(n - 1) /\ m - 1 \in T
  BY <1>1
<1> QED
  BY <1>1, <1>2

-----------------------------------------------------------------------------
(* Reading a sitemap, entry by entry.                                      *)

LEMMA EntriesIs ==
  ASSUME NEW start, NEW entries, NEW n \in Nat, Len(entries) = n
  PROVE  \E read : /\ read[0] = start /\ Entries(start, entries) = read[n]
                   /\ \A k \in 1..n : read[k] = Entry(read[k - 1], entries[k])
<1> DEFINE Steps(k, h) == h = [i \in 0..k |-> IF i = 0 THEN start ELSE Entry(h[i - 1], entries[i])]
           T == {k \in 0..n : \E h : Steps(k, h)}
           F == CHOOSE f : Steps(n, f)
<1>1. Entries(start, entries) = F[n]
  BY DEF Entries
<1>2. 0 \in T
  <2>1. Steps(0, [i \in 0..0 |-> start])
    OBVIOUS
  <2>2. 0 \in 0..n
    OBVIOUS
  <2> HIDE DEF Steps
  <2> QED
    BY <2>1, <2>2
<1>3. ASSUME NEW k \in 0..(n - 1), k \in T PROVE k + 1 \in T
  <2>1. PICK h : Steps(k, h)
    BY <1>3
  <2> DEFINE g == [i \in 0..(k + 1) |-> IF i = k + 1 THEN Entry(h[k], entries[k + 1]) ELSE h[i]]
  <2>2. \A i \in 0..k : g[i] = h[i]
    OBVIOUS
  <2>3. g[k + 1] = Entry(h[k], entries[k + 1])
    OBVIOUS
  <2>4. \A i \in 0..k : h[i] = IF i = 0 THEN start ELSE Entry(h[i - 1], entries[i])
    BY <2>1
  <2>5. g = [i \in 0..(k + 1) |-> g[i]]
    OBVIOUS
  <2> HIDE DEF g
  <2>6. \A i \in 0..(k + 1) : g[i] = IF i = 0 THEN start ELSE Entry(g[i - 1], entries[i])
    <3> SUFFICES ASSUME NEW i \in 0..(k + 1)
                 PROVE  g[i] = IF i = 0 THEN start ELSE Entry(g[i - 1], entries[i])
      OBVIOUS
    <3>1. CASE i = 0
      BY <2>2, <2>4, <3>1
    <3>2. CASE i = k + 1
      BY <2>2, <2>3, <3>2
    <3>3. CASE i \in 1..k
      <4>1. g[i] = h[i] /\ g[i - 1] = h[i - 1]
        BY <2>2, <3>3
      <4> QED
        BY <2>4, <3>3, <4>1
    <3> QED
      BY <3>1, <3>2, <3>3
  <2>7. Steps(k + 1, g)
    BY <2>5, <2>6
  <2>8. k + 1 \in 0..n
    OBVIOUS
  <2> HIDE DEF Steps
  <2> QED
    BY <2>7, <2>8
<1>4. Steps(n, F)
  <2>1. \A k \in 0..n : k \in T
    <3> HIDE DEF T
    <3> QED
      BY <1>2, <1>3, Upwards
  <2> HIDE DEF Steps
  <2> QED
    BY <2>1
<1> HIDE DEF F
<1>5. F[0] = start /\ \A k \in 1..n : F[k] = Entry(F[k - 1], entries[k])
  BY <1>4
<1> QED
  BY <1>1, <1>5

\* What is appended comes last, and all else stays.
Appended(S, s, e, new) ==
    /\ new \in Seq(S) /\ Len(s) \in Nat /\ Len(new) = Len(s) + 1
    /\ \A i \in 1..Len(s) : new[i] = s[i]
    /\ new[Len(s) + 1] = e /\ Range(new) = Range(s) \cup {e}

LEMMA AppendIs ==
  ASSUME NEW S, NEW s \in Seq(S), NEW e \in S
  PROVE  Appended(S, s, e, Append(s, e))
<1>0. PICK new : new = Append(s, e)
  OBVIOUS
<1>1. /\ new \in Seq(S) /\ Len(s) \in Nat /\ Len(new) = Len(s) + 1
      /\ \A i \in 1..Len(s) : new[i] = s[i]
      /\ new[Len(s) + 1] = e
  BY <1>0, AppendProperties, LenProperties
<1>2. DOMAIN new = 1..(Len(s) + 1) /\ DOMAIN s = 1..Len(s)
  BY <1>1, LenProperties
<1>3. Range(new) = Range(s) \cup {e}
  <2>1. \A x \in Range(new) : x \in Range(s) \cup {e}
    <3> SUFFICES ASSUME NEW i \in 1..(Len(s) + 1) PROVE new[i] \in Range(s) \cup {e}
      BY <1>2 DEF Range
    <3>1. i \in 1..Len(s) \/ i = Len(s) + 1
      BY <1>1
    <3> QED
      BY <1>1, <1>2, <3>1 DEF Range
  <2>2. \A x \in Range(s) : x \in Range(new)
    <3> SUFFICES ASSUME NEW i \in 1..Len(s) PROVE s[i] \in Range(new)
      BY <1>2 DEF Range
    <3>1. i \in 1..(Len(s) + 1)
      BY <1>1
    <3> QED
      BY <1>1, <1>2, <3>1 DEF Range
  <2>3. e \in Range(new)
    <3>1. Len(s) + 1 \in 1..(Len(s) + 1)
      BY <1>1
    <3> QED
      BY <1>1, <1>2, <3>1 DEF Range
  <2> QED
    BY <2>1, <2>2, <2>3
<1> QED
  BY <1>0, <1>1, <1>3 DEF Appended

\* What has been read after k entries: pages not listed before, each once, and,
\* short of the budget and with no address malformed, all there is to read.
So(q, g, known, fails) == [queue |-> q, group |-> g, seen |-> known, fails |-> fails]
Unread(first, known) == So(first, <<>>, known, FALSE)
SoFar(k, q, g, known, fails, first, entries) ==
    /\ q \in Seq(Sitemaps) /\ g \in Seq(Urls) /\ fails \in BOOLEAN
    /\ Range(first) \subseteq Range(q)
    /\ \A i, j \in 1..Len(g) : g[i] = g[j] => i = j
    /\ \A i \in 1..Len(g) : g[i] \notin Listed
    /\ Cardinality(Listed) + Len(g) <= MaxUrls
    /\ ~fails /\ Cardinality(Listed) + Len(g) < MaxUrls =>
         \A m \in 1..k :
             IF entries[m].kind = "sitemap" THEN entries[m].url \in known \cup Range(q)
             ELSE /\ Url[entries[m].url].page # Malformed
                  /\ same_site(entries[m].url) => entries[m].url \in Listed \cup Range(g)

EntryTypes == [kind : {"sitemap"}, url : Sitemaps] \cup [kind : {"url"}, url : Urls]

LEMMA SoFarStep ==
  ASSUME NEW entries \in Seq(EntryTypes), NEW k \in 0..(Len(entries) - 1),
         NEW q, NEW g, NEW known, NEW fails, NEW first,
         SoFar(k, q, g, known, fails, first, entries), Cardinality(Listed) \in Nat
  PROVE  \E q2, g2, f2 : /\ Entry(So(q, g, known, fails), entries[k + 1]) = So(q2, g2, known, f2)
                         /\ SoFar(k + 1, q2, g2, known, f2, first, entries)
<1> DEFINE read == So(q, g, known, fails)
           Done(q2, g2, f2) == /\ Entry(read, entries[k + 1]) = So(q2, g2, known, f2)
                               /\ SoFar(k + 1, q2, g2, known, f2, first, entries)
<1>1. PICK e \in EntryTypes : e = entries[k + 1]
  OBVIOUS
<1>2. PICK c \in Nat : c = Cardinality(Listed)
  OBVIOUS
<1>3. q \in Seq(Sitemaps) /\ g \in Seq(Urls) /\ Len(g) \in Nat /\ MaxUrls \in Nat
  BY DiscoveryAssumption, LenProperties DEF SoFar
<1>4. \A m \in 1..(k + 1) : m \in 1..k \/ entries[m] = e
  BY <1>1
<1>a. read.group = g /\ read.queue = q /\ read.seen = known /\ read.fails = fails /\ fails \in BOOLEAN
  BY DEF So, SoFar
<1>5. CASE fails \/ c + Len(g) >= MaxUrls
  <2>1. Entry(read, e) = read
    BY <1>2, <1>5, <1>a DEF Entry
  <2>2. SoFar(k + 1, q, g, known, fails, first, entries)
    BY <1>2, <1>3, <1>5 DEF SoFar
  <2>3. Done(q, g, fails)
    BY <1>1, <2>1, <2>2
  <2> QED
    BY <2>3
<1>6. CASE ~fails /\ c + Len(g) < MaxUrls /\ e.kind = "sitemap" /\ e.url \notin known
  <2>1. PICK new : new = Append(q, e.url)
    OBVIOUS
  <2>2. Entry(read, e) = So(new, g, known, fails)
    <3>1. Entry(read, e) = [read EXCEPT !.queue = Append(@, e.url)]
      BY <1>2, <1>3, <1>6, <1>a DEF Entry, Enqueue
    <3> QED
      BY <2>1, <3>1 DEF So
  <2>3. e.url \in Sitemaps
    BY <1>6 DEF EntryTypes
  <2>4. new \in Seq(Sitemaps) /\ Range(new) = Range(q) \cup {e.url}
    <3>1. Appended(Sitemaps, q, e.url, new)
      BY <1>3, <2>1, <2>3, AppendIs
    <3> QED
      BY <3>1 DEF Appended
  <2>5. SoFar(k + 1, new, g, known, fails, first, entries)
    BY <1>2, <1>4, <1>6, <2>4 DEF SoFar
  <2>6. Done(new, g, fails)
    BY <1>1, <2>2, <2>5
  <2> QED
    BY <2>6
<1>7. CASE ~fails /\ c + Len(g) < MaxUrls /\ e.kind = "sitemap" /\ e.url \in known
  <2>1. Entry(read, e) = read
    BY <1>2, <1>3, <1>7, <1>a DEF Entry, Enqueue
  <2>2. SoFar(k + 1, q, g, known, fails, first, entries)
    BY <1>2, <1>4, <1>7 DEF SoFar
  <2>3. Done(q, g, fails)
    BY <1>1, <2>1, <2>2
  <2> QED
    BY <2>3
<1>7a. CASE ~fails /\ c + Len(g) < MaxUrls /\ e.kind # "sitemap" /\ Url[e.url].page = Malformed
  <2>1. Entry(read, e) = So(q, g, known, TRUE)
    <3>1. Entry(read, e) = [read EXCEPT !.fails = TRUE]
      BY <1>2, <1>3, <1>7a, <1>a DEF Entry, ListPage
    <3> QED
      BY <3>1 DEF So
  <2>2. SoFar(k + 1, q, g, known, TRUE, first, entries)
    BY <1>2 DEF SoFar
  <2>3. Done(q, g, TRUE)
    BY <1>1, <2>1, <2>2
  <2> QED
    BY <2>3
<1>8. CASE /\ ~fails /\ c + Len(g) < MaxUrls /\ e.kind # "sitemap"
           /\ Url[e.url].page # Malformed /\ (~same_site(e.url) \/ e.url \in Listed \cup Range(g))
  <2>1. Entry(read, e) = read
    BY <1>2, <1>3, <1>8, <1>a DEF Entry, ListPage
  <2>2. SoFar(k + 1, q, g, known, fails, first, entries)
    BY <1>2, <1>4, <1>8 DEF SoFar
  <2>3. Done(q, g, fails)
    BY <1>1, <2>1, <2>2
  <2> QED
    BY <2>3
<1>9. CASE /\ ~fails /\ c + Len(g) < MaxUrls /\ e.kind # "sitemap"
           /\ Url[e.url].page # Malformed /\ same_site(e.url) /\ e.url \notin Listed \cup Range(g)
  <2>1. PICK new : new = Append(g, e.url)
    OBVIOUS
  <2>2. Entry(read, e) = So(q, new, known, fails)
    <3>1. Entry(read, e) = [read EXCEPT !.group = Append(@, e.url)]
      BY <1>2, <1>3, <1>9, <1>a DEF Entry, ListPage
    <3> QED
      BY <2>1, <3>1 DEF So
  <2>3. e.url \in Urls
    BY <1>9 DEF EntryTypes
  <2>4. /\ new \in Seq(Urls) /\ Len(new) = Len(g) + 1
        /\ \A i \in 1..Len(g) : new[i] = g[i]
        /\ new[Len(g) + 1] = e.url /\ Range(new) = Range(g) \cup {e.url}
    <3>1. Appended(Urls, g, e.url, new)
      BY <1>3, <2>1, <2>3, AppendIs
    <3> QED
      BY <3>1 DEF Appended
  <2>5. \A i \in 1..Len(g) : g[i] # e.url
    BY <1>3, <1>9 DEF Range
  <2>6. /\ \A i, j \in 1..Len(g) : g[i] = g[j] => i = j
        /\ \A i \in 1..Len(g) : g[i] \notin Listed
    BY DEF SoFar
  <2>7. \A i, j \in 1..Len(new) : new[i] = new[j] => i = j
    <3> SUFFICES ASSUME NEW i \in 1..Len(new), NEW j \in 1..Len(new), new[i] = new[j] PROVE i = j
      OBVIOUS
    <3>1. (i \in 1..Len(g) \/ i = Len(g) + 1) /\ (j \in 1..Len(g) \/ j = Len(g) + 1)
      BY <1>3, <2>4
    <3> QED
      BY <2>4, <2>5, <2>6, <3>1
  <2>8. \A i \in 1..Len(new) : new[i] \notin Listed
    <3> SUFFICES ASSUME NEW i \in 1..Len(new) PROVE new[i] \notin Listed
      OBVIOUS
    <3>1. i \in 1..Len(g) \/ i = Len(g) + 1
      BY <1>3, <2>4
    <3> QED
      BY <1>9, <2>4, <2>6, <3>1
  <2>9. SoFar(k + 1, q, new, known, fails, first, entries)
    BY <1>2, <1>3, <1>4, <1>9, <2>4, <2>7, <2>8 DEF SoFar
  <2>10. Done(q, new, fails)
    BY <1>1, <2>2, <2>9
  <2> QED
    BY <2>10
<1> QED
  BY <1>2, <1>3, <1>5, <1>6, <1>7, <1>7a, <1>8, <1>9, <1>a

LEMMA EntriesSound ==
  ASSUME NEW entries \in Seq(EntryTypes), NEW first \in Seq(Sitemaps), NEW known,
         Cardinality(Listed) \in Nat, Cardinality(Listed) < MaxUrls
  PROVE  \E q, g, fails : /\ Entries(Unread(first, known), entries) = So(q, g, known, fails)
                          /\ SoFar(Len(entries), q, g, known, fails, first, entries)
<1>1. Len(entries) \in Nat
  BY LenProperties
<1>2. PICK n \in Nat : n = Len(entries)
  BY <1>1
<1>a. PICK start : start = Unread(first, known)
  OBVIOUS
<1>b. \E read : /\ read[0] = start /\ Entries(start, entries) = read[n]
               /\ \A k \in 1..n : read[k] = Entry(read[k - 1], entries[k])
  <2>1. Len(entries) = n
    BY <1>2
  <2> QED
    BY <2>1, EntriesIs, SMTT(30)
<1>3. PICK read : /\ read[0] = Unread(first, known)
                  /\ Entries(Unread(first, known), entries) = read[n]
                  /\ \A k \in 1..n : read[k] = Entry(read[k - 1], entries[k])
  BY <1>a, <1>b
<1> DEFINE T == {k \in 0..n : \E q, g, fails : /\ read[k] = So(q, g, known, fails)
                                        /\ SoFar(k, q, g, known, fails, first, entries)}
<1>4. 0 \in T
  <2>1. <<>> \in Seq(Urls) /\ Len(<<>>) = 0
    OBVIOUS
  <2>2. PICK g : g = <<>>
    OBVIOUS
  <2>3. g \in Seq(Urls) /\ Len(g) = 0
    BY <2>1, <2>2
  <2>4. SoFar(0, first, g, known, FALSE, first, entries)
    BY <2>3, DiscoveryAssumption DEF SoFar
  <2>5. read[0] = So(first, g, known, FALSE)
    BY <1>3, <2>2 DEF Unread
  <2>6. \E q, h, fails : read[0] = So(q, h, known, fails) /\ SoFar(0, q, h, known, fails, first, entries)
    BY <2>4, <2>5, Zenon
  <2> QED
    BY <2>6
<1>5. ASSUME NEW k \in 0..(n - 1), k \in T PROVE k + 1 \in T
  <2>1. PICK q, g, fails : read[k] = So(q, g, known, fails) /\ SoFar(k, q, g, known, fails, first, entries)
    BY <1>5
  <2>2. k \in 0..(Len(entries) - 1) /\ k + 1 \in 1..n /\ (k + 1) - 1 = k
    BY <1>2
  <2>3. \E q2, g2, f2 : /\ Entry(So(q, g, known, fails), entries[k + 1]) = So(q2, g2, known, f2)
                    /\ SoFar(k + 1, q2, g2, known, f2, first, entries)
    BY <2>1, <2>2, SoFarStep
  <2>4. read[k + 1] = Entry(So(q, g, known, fails), entries[k + 1])
    BY <1>3, <2>1, <2>2
  <2> QED
    BY <2>2, <2>3, <2>4
<1>6. \A k \in 0..n : k \in T
  <2> HIDE DEF T
  <2> QED
    BY <1>4, <1>5, Upwards
<1>7. n \in T
  BY <1>6
<1> QED
  BY <1>2, <1>3, <1>7

-----------------------------------------------------------------------------
(* The queue.                                                              *)

LEMMA RemoveIs ==
  ASSUME NEW S, NEW s \in Seq(S), NEW i \in 1..Len(s)
  PROVE  RemoveAt(s, i) \in Seq(S) /\ Range(s) = Range(RemoveAt(s, i)) \cup {s[i]}
<1>1. PICK n \in Nat : n = Len(s)
  BY LenProperties
<1>2. i \in 1..n /\ DOMAIN s = 1..n /\ \A j \in 1..n : s[j] \in S
  BY <1>1, LenProperties
<1>3. PICK a : a = SubSeq(s, 1, i - 1)
  OBVIOUS
<1>4. PICK b : b = SubSeq(s, i + 1, n)
  OBVIOUS
<1>5. /\ a \in Seq(S) /\ Len(a) = i - 1
      /\ \A j \in 1..(i - 1) : a[j] = s[j]
  <2>1. 1 \in Int /\ i - 1 \in Int /\ \A j \in 1..(i - 1) : s[j] \in S
    BY <1>2
  <2>2. /\ SubSeq(s, 1, i - 1) \in Seq(S)
        /\ Len(SubSeq(s, 1, i - 1)) = IF 1 <= i - 1 THEN (i - 1) - 1 + 1 ELSE 0
        /\ \A j \in 1..((i - 1) - 1 + 1) : SubSeq(s, 1, i - 1)[j] = s[1 + j - 1]
    BY <2>1, SubSeqProperties
  <2> QED
    BY <1>2, <1>3, <2>2
<1>6. /\ b \in Seq(S) /\ Len(b) = n - i
      /\ \A j \in 1..(n - i) : b[j] = s[i + j]
  <2>1. i + 1 \in Int /\ n \in Int /\ \A j \in (i + 1)..n : s[j] \in S
    BY <1>2
  <2>2. /\ SubSeq(s, i + 1, n) \in Seq(S)
        /\ Len(SubSeq(s, i + 1, n)) = IF i + 1 <= n THEN n - (i + 1) + 1 ELSE 0
        /\ \A j \in 1..(n - (i + 1) + 1) : SubSeq(s, i + 1, n)[j] = s[(i + 1) + j - 1]
    BY <2>1, SubSeqProperties
  <2> QED
    BY <1>2, <1>4, <2>2
<1>7. PICK r : r = RemoveAt(s, i)
  OBVIOUS
<1>8. /\ r \in Seq(S) /\ Len(r) = (i - 1) + (n - i)
      /\ \A j \in 1..(i - 1) + (n - i) : r[j] = IF j <= i - 1 THEN a[j] ELSE b[j - (i - 1)]
  <2>1. r = a \o b
    BY <1>1, <1>3, <1>4, <1>7 DEF RemoveAt
  <2> QED
    BY <1>5, <1>6, <2>1, ConcatProperties
<1>9. DOMAIN r = 1..(n - 1) /\ \A j \in 1..(n - 1) : r[j] = IF j < i THEN s[j] ELSE s[j + 1]
  <2>1. Len(r) = n - 1
    BY <1>2, <1>8
  <2>2. DOMAIN r = 1..(n - 1)
    BY <1>8, <2>1, LenProperties
  <2> QED
    BY <1>2, <1>5, <1>6, <1>8, <2>2
<1>10. \A x \in Range(s) : x \in Range(r) \cup {s[i]}
  <2> SUFFICES ASSUME NEW j \in 1..n PROVE s[j] \in Range(r) \cup {s[i]}
    BY <1>2 DEF Range
  <2>1. CASE j < i
    <3>1. j \in 1..(n - 1) /\ r[j] = s[j]
      BY <1>2, <1>9, <2>1
    <3> QED
      BY <1>9, <3>1 DEF Range
  <2>2. CASE j > i
    <3>1. j - 1 \in 1..(n - 1) /\ r[j - 1] = s[j]
      BY <1>2, <1>9, <2>2
    <3> QED
      BY <1>9, <3>1 DEF Range
  <2> QED
    BY <1>2, <2>1, <2>2
<1>11. \A x \in Range(r) : x \in Range(s)
  <2> SUFFICES ASSUME NEW j \in 1..(n - 1) PROVE r[j] \in Range(s)
    BY <1>9 DEF Range
  <2>1. j \in 1..n /\ j + 1 \in 1..n /\ (r[j] = s[j] \/ r[j] = s[j + 1])
    BY <1>2, <1>9
  <2> QED
    BY <1>2, <2>1 DEF Range
<1>12. s[i] \in Range(s)
  BY <1>2 DEF Range
<1> QED
  BY <1>7, <1>8, <1>10, <1>11, <1>12

LEMMA BestIs ==
  ASSUME queue \in Seq(Sitemaps), queue # <<>>
  PROVE  BestQueued \in 1..Len(queue) /\ queue[BestQueued] \in Sitemaps
<1>1. PICK n \in Nat : n = Len(queue) /\ n # 0
  BY EmptySeq
<1>2. DOMAIN queue = 1..n /\ \A i \in 1..n : queue[i] \in Sitemaps /\ Tier[queue[i]] \in 0..3
  BY <1>1, LenProperties, DiscoveryAssumption
<1> DEFINE tiers == {Tier[queue[i]] : i \in 1..n}
<1>3. PICK t \in tiers : \A u \in tiers : t <= u
  <2>1. tiers \in SUBSET Nat /\ tiers # {}
    BY <1>1, <1>2
  <2> HIDE DEF tiers
  <2> QED
    BY <2>1, Smallest
<1> DEFINE first == {i \in 1..n : Tier[queue[i]] = t}
<1>4. PICK i \in first : \A j \in first : i <= j
  <2>1. first \in SUBSET Nat /\ first # {}
    BY <1>1, <1>2, <1>3
  <2> HIDE DEF first
  <2> QED
    BY <2>1, Smallest
<1>5. i \in 1..n /\ \A j \in 1..n : \/ Tier[queue[i]] < Tier[queue[j]]
                                    \/ Tier[queue[i]] = Tier[queue[j]] /\ i <= j
  <2> SUFFICES ASSUME NEW j \in 1..n
               PROVE  \/ Tier[queue[i]] < Tier[queue[j]]
                      \/ Tier[queue[i]] = Tier[queue[j]] /\ i <= j
    BY <1>4
  <2>1. Tier[queue[i]] = t /\ t <= Tier[queue[j]] /\ t \in 0..3 /\ Tier[queue[j]] \in 0..3
    BY <1>2, <1>3, <1>4
  <2>2. CASE Tier[queue[j]] = t
    BY <1>4, <2>1, <2>2
  <2> QED
    BY <2>1, <2>2
<1>6. BestQueued \in 1..n
  BY <1>2, <1>5 DEF BestQueued
<1> QED
  BY <1>1, <1>2, <1>6

-----------------------------------------------------------------------------
(* The walk.                                                               *)

Group == [tier : 0..3, urls : Seq(Urls) \ {<<>>}]
Page(at) == groups[at[1]].urls[at[2]]

Types ==
    /\ site \in Sites /\ queue \in Seq(Sitemaps) /\ seen \in SUBSET Sitemaps
    /\ groups \in Seq(Group)

Budgets ==
    /\ fetches = Cardinality(seen) /\ fetches <= MaxFetches
    /\ IsFiniteSet(Listed) /\ Cardinality(Listed) <= MaxUrls
    /\ \A i \in DOMAIN groups : Len(groups[i].urls) <= MaxUrls

ListedOnce == \A a, b \in Listings : Page(a) = Page(b) => a = b

\* What robots.txt declares, and what a sitemap that was read names, is seen or
\* will be, and each of its pages is listed.
Begun ==
    IF pc = "robots" THEN seen = {} /\ groups = <<>>
    ELSE pc = "failed" \/ \E declared \in {Conventional, site.robots} :
             declared # <<>> /\ Range(declared) \subseteq seen \cup Range(queue)
NothingLost ==
    Cardinality(Listed) < MaxUrls =>
        \A s \in seen \ missed : \A entry \in Range(site.doc[s]) :
            IF entry.kind = "sitemap" THEN entry.url \in seen \cup Range(queue)
            ELSE /\ Url[entry.url].page # Malformed
                 /\ same_site(entry.url) => entry.url \in Listed
Ended == Walked => queue = <<>> \/ fetches >= MaxFetches \/ Cardinality(Listed) >= MaxUrls

WalkInv == Types /\ Budgets /\ ListedOnce /\ Begun /\ NothingLost /\ Ended

LEMMA EmptyListed ==
  ASSUME groups = <<>>
  PROVE  Listed = {} /\ Listings = {} /\ DOMAIN groups = {}
<1>1. DOMAIN groups = {}
  OBVIOUS
<1> QED
  BY <1>1 DEF Listed, Listings

LEMMA InitWalks == Init => WalkInv
<1> SUFFICES ASSUME Init PROVE WalkInv
  OBVIOUS
<1> USE DEF Init
<1>1. Listed = {} /\ Listings = {} /\ DOMAIN groups = {}
  BY EmptyListed
<1>2. Types
  <2>1. <<>> \in Seq(Sitemaps) /\ <<>> \in Seq(Group)
    OBVIOUS
  <2> QED
    BY <2>1 DEF Types
<1>3. Budgets
  BY <1>1, FS_EmptySet, DiscoveryAssumption DEF Budgets
<1>4. ListedOnce /\ Begun /\ NothingLost /\ Ended
  BY <1>1 DEF ListedOnce, Begun, NothingLost, Ended, Walked
<1> QED
  BY <1>2, <1>3, <1>4 DEF WalkInv

\* The rest of the discovery leaves what the walk keeps alone.
LEMMA WalkQuiet ==
  ASSUME WalkInv, UNCHANGED <<site, queue, seen, fetches, groups, missed>>,
         pc' # "robots", pc = "robots" => pc' = "failed",
         pc = "failed" => pc' = "failed", Walked' => Walked \/ (~Walking /\ pc = "walk")
  PROVE  WalkInv'
<1>1. Listed' = Listed /\ Listings' = Listings
  BY DEF Listed, Listings
<1>2. Types' /\ Budgets'
  BY <1>1 DEF WalkInv, Types, Budgets
<1>3. ListedOnce' /\ NothingLost'
  BY <1>1 DEF WalkInv, ListedOnce, Page, NothingLost, same_site
<1>4. Begun'
  BY DEF WalkInv, Begun, Walked
<1>5. Ended'
  <2>1. PICK c : c = Cardinality(Listed)
    OBVIOUS
  <2>2. c \in Nat /\ fetches \in Nat /\ MaxFetches \in Nat /\ MaxUrls \in Nat
    <3>1. IsFiniteSet(Listed) /\ IsFiniteSet(seen) /\ fetches = Cardinality(seen)
      BY FS_Subset, DiscoveryAssumption DEF WalkInv, Types, Budgets
    <3> QED
      BY <2>1, <3>1, FS_CardinalityType, DiscoveryAssumption
  <2> QED
    BY <1>1, <2>1, <2>2 DEF WalkInv, Ended, Walked, Walking
<1> QED
  BY <1>2, <1>3, <1>4, <1>5 DEF WalkInv

LEMMA RobotsWalks == ASSUME WalkInv, Robots PROVE WalkInv'
<1> USE DEF Robots
<1>1. Listed' = Listed /\ Listings' = Listings
  BY DEF Listed, Listings
<1>2. PICK declared \in {Conventional, site.robots} : declared # <<>> /\ queue' = declared
  BY DiscoveryAssumption
<1>3. declared \in Seq(Sitemaps)
  BY DiscoveryAssumption DEF WalkInv, Types
<1>4. Types' /\ Budgets'
  BY <1>1, <1>2, <1>3 DEF WalkInv, Types, Budgets
<1>5. seen = {}
  BY DEF WalkInv, Begun
<1>6. ListedOnce' /\ NothingLost' /\ Begun' /\ Ended'
  BY <1>1, <1>2, <1>5 DEF WalkInv, ListedOnce, Page, NothingLost, Begun, Ended, Walked
<1> QED
  BY <1>4, <1>6 DEF WalkInv

\* A sitemap leaves the queue.
LEMMA Popped ==
  ASSUME WalkInv, Walking, NEW sitemap, sitemap = queue[BestQueued]
  PROVE  /\ sitemap \in Sitemaps /\ RemoveAt(queue, BestQueued) \in Seq(Sitemaps)
         /\ Range(queue) = Range(RemoveAt(queue, BestQueued)) \cup {sitemap}
<1>1. BestQueued \in 1..Len(queue) /\ queue[BestQueued] \in Sitemaps /\ queue \in Seq(Sitemaps)
  BY BestIs DEF WalkInv, Types, Walking
<1>2. PICK i : i = BestQueued
  OBVIOUS
<1>3. RemoveAt(queue, i) \in Seq(Sitemaps) /\ Range(queue) = Range(RemoveAt(queue, i)) \cup {queue[i]}
  BY <1>1, <1>2, RemoveIs
<1> QED
  BY <1>1, <1>2, <1>3

LEMMA SkipWalks == ASSUME WalkInv, Skip PROVE WalkInv'
<1> USE DEF Skip
<1>1. Listed' = Listed /\ Listings' = Listings
  BY DEF Listed, Listings
<1>2. PICK sitemap : sitemap = queue[BestQueued]
  OBVIOUS
<1>3. queue' \in Seq(Sitemaps) /\ Range(queue) = Range(queue') \cup {sitemap} /\ sitemap \in seen
  BY <1>2, Popped
<1>4. Types' /\ Budgets'
  BY <1>1, <1>3 DEF WalkInv, Types, Budgets
<1>5. seen \cup Range(queue') = seen \cup Range(queue)
  BY <1>3
<1>6. pc = "walk" /\ pc' = "walk"
  BY DEF Walking
<1>7. ListedOnce' /\ NothingLost' /\ Begun' /\ Ended'
  BY <1>1, <1>5, <1>6 DEF WalkInv, ListedOnce, Page, NothingLost, Begun, Ended, Walked, same_site
<1> QED
  BY <1>4, <1>7 DEF WalkInv

\* One more is seen, within the budget.
LEMMA OneMoreSeen ==
  ASSUME WalkInv, Walking, NEW sitemap \in Sitemaps, sitemap \notin seen,
         seen' = seen \cup {sitemap}, fetches' = fetches + 1
  PROVE  fetches' = Cardinality(seen') /\ fetches' <= MaxFetches
<1>1. IsFiniteSet(seen) /\ fetches = Cardinality(seen)
  BY FS_Subset, DiscoveryAssumption DEF WalkInv, Types, Budgets
<1>2. fetches \in Nat /\ Cardinality(seen \cup {sitemap}) = fetches + 1
  BY <1>1, FS_CardinalityType, FS_AddElement
<1> QED
  BY <1>2, DiscoveryAssumption DEF Walking

LEMMA MissWalks == ASSUME WalkInv, Miss PROVE WalkInv'
<1>1. Listed' = Listed /\ Listings' = Listings
  BY DEF Listed, Listings, Miss
<1>2. PICK sitemap : sitemap = queue[BestQueued]
  OBVIOUS
<1>3. /\ Walking /\ sitemap \notin seen /\ queue' = RemoveAt(queue, BestQueued)
      /\ seen' = seen \cup {sitemap} /\ missed' = missed \cup {sitemap}
      /\ fetches' = fetches + 1 /\ UNCHANGED <<site, pc, groups>>
  BY <1>2 DEF Miss
<1>4. queue' \in Seq(Sitemaps) /\ Range(queue) = Range(queue') \cup {sitemap} /\ sitemap \in Sitemaps
  BY <1>2, <1>3, Popped
<1>5. Types'
  BY <1>3, <1>4 DEF WalkInv, Types
<1>6. Budgets'
  BY <1>1, <1>3, <1>4, OneMoreSeen DEF WalkInv, Budgets
<1>7. seen' \cup Range(queue') = seen \cup Range(queue) /\ seen' \ missed' \subseteq seen \ missed
  BY <1>3, <1>4
<1>8. pc = "walk" /\ pc' = "walk"
  BY <1>3 DEF Walking
<1>9. ListedOnce' /\ Begun' /\ Ended'
  BY <1>1, <1>3, <1>7, <1>8 DEF WalkInv, ListedOnce, Page, Begun, Ended, Walked
<1>10. NothingLost'
  BY <1>1, <1>3, <1>7 DEF WalkInv, NothingLost, same_site
<1> QED
  BY <1>5, <1>6, <1>9, <1>10 DEF WalkInv

LEMMA RangeCounts ==
  ASSUME NEW S, NEW g \in Seq(S), \A i, j \in 1..Len(g) : g[i] = g[j] => i = j
  PROVE  IsFiniteSet(Range(g)) /\ Cardinality(Range(g)) = Len(g)
<1>1. PICK n \in Nat : n = Len(g)
  BY LenProperties
<1>2. g \in [1..n -> S] /\ DOMAIN g = 1..n
  BY <1>1, LenProperties
<1>3. IsFiniteSet(1..n) /\ Cardinality(1..n) = n
  <2>1. 1 \in Int /\ n \in Int
    OBVIOUS
  <2>2. IsFiniteSet(1..n) /\ Cardinality(1..n) = IF 1 > n THEN 0 ELSE n - 1 + 1
    BY <2>1, FS_Interval
  <2> QED
    BY <2>2
<1>4. g \in [1..n -> Range(g)] /\ \A x \in Range(g) : \E i \in 1..n : g[i] = x
  BY <1>2 DEF Range
<1>5. g \in Surjection(1..n, Range(g)) /\ g \in Injection(1..n, Range(g))
  BY <1>1, <1>2, <1>4 DEF Surjection, Injection, IsInjective
<1>6. ExistsBijection(1..n, Range(g))
  BY <1>5 DEF ExistsBijection, Bijection
<1> QED
  BY <1>1, <1>3, <1>6, FS_Bijection

\* What a new group lists.
LEMMA NewGroup ==
  ASSUME groups \in Seq(Group), NEW new \in Group, Appended(Group, groups, new, groups')
  PROVE  /\ Listed' = Listed \cup Range(new.urls)
         /\ DOMAIN groups' = DOMAIN groups \cup {Len(groups) + 1}
         /\ groups'[Len(groups) + 1] = new
         /\ \A i \in DOMAIN groups : groups'[i] = groups[i] /\ i # Len(groups) + 1
<1>1. PICK n \in Nat : n = Len(groups)
  BY LenProperties
<1>2. /\ DOMAIN groups = 1..n /\ groups' \in Seq(Group) /\ Len(groups') = n + 1
      /\ \A i \in 1..n : groups'[i] = groups[i]
      /\ groups'[n + 1] = new
  BY <1>1, LenProperties DEF Appended
<1>3. DOMAIN groups' = 1..(n + 1) /\ 1..(n + 1) = 1..n \cup {n + 1}
  BY <1>2, LenProperties
<1>4. Listed' = Listed \cup Range(new.urls)
  <2>1. Listed' = UNION {Range(groups'[i].urls) : i \in 1..n \cup {n + 1}}
    BY <1>3 DEF Listed
  <2>2. \A i \in 1..n : Range(groups'[i].urls) = Range(groups[i].urls)
    BY <1>2
  <2>3. Range(groups'[n + 1].urls) = Range(new.urls)
    BY <1>2
  <2>4. Listed = UNION {Range(groups[i].urls) : i \in 1..n}
    BY <1>2 DEF Listed
  <2> QED
    BY <2>1, <2>2, <2>3, <2>4
<1> QED
  BY <1>1, <1>2, <1>3, <1>4

LEMMA PlacesAre ==
  \A at \in Listings : /\ at = <<at[1], at[2]>> /\ at[1] \in DOMAIN groups
                       /\ at[2] \in 1..MaxUrls /\ at[2] <= Len(groups[at[1]].urls)
BY DEF Listings

LEMMA PagesAreListed ==
  ASSUME groups \in Seq(Group), NEW at \in Listings
  PROVE  Page(at) \in Listed
<1>1. PICK i, k : i = at[1] /\ k = at[2]
  OBVIOUS
<1>2. i \in DOMAIN groups /\ k \in 1..MaxUrls /\ k <= Len(groups[i].urls)
  BY <1>1, PlacesAre
<1>3. PICK urls : urls = groups[i].urls
  OBVIOUS
<1>4. urls \in Seq(Urls)
  <2>1. groups[i] \in Group
    BY <1>2, LenProperties
  <2> QED
    BY <1>3, <2>1 DEF Group
<1>5. k \in DOMAIN urls
  <2>1. Len(urls) \in Nat /\ DOMAIN urls = 1..Len(urls)
    BY <1>4, LenProperties
  <2> QED
    BY <1>2, <1>3, <2>1, DiscoveryAssumption
<1>6. urls[k] \in Range(groups[i].urls)
  BY <1>3, <1>5 DEF Range
<1> QED
  BY <1>1, <1>2, <1>3, <1>6 DEF Page, Listed

\* A group of pages that are new, each once.
LEMMA GroupKeeps ==
  ASSUME WalkInv, NEW new \in Group, Appended(Group, groups, new, groups'),
         \A i, j \in 1..Len(new.urls) : new.urls[i] = new.urls[j] => i = j,
         \A i \in 1..Len(new.urls) : new.urls[i] \notin Listed,
         Cardinality(Listed) + Len(new.urls) <= MaxUrls
  PROVE  /\ Listed' = Listed \cup Range(new.urls)
         /\ IsFiniteSet(Listed') /\ Cardinality(Listed') = Cardinality(Listed) + Len(new.urls)
         /\ \A i \in DOMAIN groups' : Len(groups'[i].urls) <= MaxUrls
         /\ ListedOnce'
<1>1. PICK g \in Seq(Urls) : g = new.urls
  BY DEF Group
<1>2. Len(g) \in Nat /\ DOMAIN g = 1..Len(g)
  BY LenProperties
<1>3. groups \in Seq(Group)
  BY DEF WalkInv, Types
<1>4. /\ Listed' = Listed \cup Range(g)
      /\ DOMAIN groups' = DOMAIN groups \cup {Len(groups) + 1}
      /\ groups'[Len(groups) + 1] = new
      /\ \A i \in DOMAIN groups : groups'[i] = groups[i] /\ i # Len(groups) + 1
  BY <1>1, <1>3, NewGroup
<1>5. IsFiniteSet(Range(g)) /\ Cardinality(Range(g)) = Len(g)
  BY <1>1, RangeCounts
<1>6. IsFiniteSet(Listed) /\ Cardinality(Listed) \in Nat
  BY FS_CardinalityType DEF WalkInv, Budgets
<1>7. Listed \cap Range(g) = {}
  BY <1>1, <1>2 DEF Range
<1>8. IsFiniteSet(Listed') /\ Cardinality(Listed') = Cardinality(Listed) + Len(g)
  <2>1. PICK old, more : old = Listed /\ more = Range(g)
    OBVIOUS
  <2>2. IsFiniteSet(old) /\ IsFiniteSet(more) /\ old \cap more = {}
    BY <1>5, <1>6, <1>7, <2>1
  <2>3. /\ IsFiniteSet(old \cup more)
        /\ Cardinality(old \cup more) = Cardinality(old) + Cardinality(more) - Cardinality(old \cap more)
    BY <2>2, FS_Union
  <2>4. Cardinality(old \cap more) = 0
    BY <2>2, FS_EmptySet
  <2>5. Listed' = old \cup more /\ Cardinality(old) = Cardinality(Listed) /\ Cardinality(more) = Len(g)
    BY <1>4, <1>5, <2>1
  <2> QED
    BY <1>2, <1>6, <2>3, <2>4, <2>5
<1>9. \A i \in DOMAIN groups' : Len(groups'[i].urls) <= MaxUrls
  <2>1. Len(g) <= MaxUrls
    BY <1>1, <1>2, <1>6, DiscoveryAssumption
  <2>2. \A i \in DOMAIN groups : Len(groups[i].urls) <= MaxUrls
    BY DEF WalkInv, Budgets
  <2> QED
    BY <1>1, <1>4, <2>1, <2>2
<1>10. ListedOnce'
  <2> DEFINE P(at) == groups'[at[1]].urls[at[2]]
             Old(at) == at \in Listings /\ P(at) = Page(at)
             New(at) == at[1] = Len(groups) + 1 /\ at[2] \in 1..Len(g) /\ P(at) = g[at[2]]
  <2>1. \A at \in Listings' : at = <<at[1], at[2]>> /\ (Old(at) \/ New(at))
    <3> SUFFICES ASSUME NEW at \in Listings'
                 PROVE  at = <<at[1], at[2]>> /\ (Old(at) \/ New(at))
      OBVIOUS
    <3>1. /\ at = <<at[1], at[2]>> /\ at[1] \in DOMAIN groups'
          /\ at[2] \in 1..MaxUrls /\ at[2] <= Len(groups'[at[1]].urls)
      BY DEF Listings
    <3>2. CASE at[1] \in DOMAIN groups
      <4>1. groups'[at[1]] = groups[at[1]]
        BY <1>4, <3>2
      <4>2. at \in Listings
        BY <3>1, <3>2, <4>1 DEF Listings
      <4> QED
        BY <3>1, <4>1, <4>2 DEF Page
    <3>3. CASE at[1] = Len(groups) + 1
      <4>1. groups'[at[1]] = new
        BY <1>4, <3>3
      <4>2. at[2] \in 1..Len(g)
        BY <1>1, <1>2, <3>1, <4>1, DiscoveryAssumption
      <4> QED
        BY <1>1, <3>1, <3>3, <4>1, <4>2
    <3> QED
      BY <1>4, <3>1, <3>2, <3>3
  <2>2. \A at \in Listings : Page(at) \in Listed
    BY <1>3, PagesAreListed
  <2>3. \A a, b \in Listings : Page(a) = Page(b) => a = b
    BY DEF WalkInv, ListedOnce
  <2>4. \A i, j \in 1..Len(g) : g[i] = g[j] => i = j
    BY <1>1
  <2>5. \A i \in 1..Len(g) : g[i] \notin Listed
    BY <1>1
  <2>6. ASSUME NEW a \in Listings', NEW b \in Listings', P(a) = P(b) PROVE a = b
    <3>1. /\ a = <<a[1], a[2]>> /\ (Old(a) \/ New(a))
          /\ b = <<b[1], b[2]>> /\ (Old(b) \/ New(b))
      BY <2>1
    <3>2. CASE Old(a) /\ Old(b)
      BY <2>3, <2>6, <3>2
    <3>3. CASE (Old(a) /\ New(b)) \/ (New(a) /\ Old(b))
      BY <2>2, <2>5, <2>6, <3>3
    <3>4. CASE New(a) /\ New(b)
      <4>1. a[1] = b[1] /\ a[2] = b[2]
        BY <2>4, <2>6, <3>4
      <4> QED
        BY <3>1, <4>1
    <3> HIDE DEF Old, New
    <3> QED
      BY <3>1, <3>2, <3>3, <3>4
  <2> QED
    BY <2>6 DEF ListedOnce, Page
<1> QED
  BY <1>1, <1>4, <1>8, <1>9, <1>10

LEMMA ReadWalks == ASSUME WalkInv, Read PROVE WalkInv'
<1>1. PICK sitemap : sitemap = queue[BestQueued]
  OBVIOUS
<1>2. PICK first : first = RemoveAt(queue, BestQueued)
  OBVIOUS
<1>3. PICK known : known = seen \cup {sitemap}
  OBVIOUS
<1>4. PICK entries : entries = site.doc[sitemap]
  OBVIOUS
<1>5. PICK read : read = Entries(Unread(first, known), entries)
  OBVIOUS
<1>6. /\ Walking /\ sitemap \notin seen /\ ~read.fails
      /\ queue' = read.queue /\ seen' = read.seen /\ fetches' = fetches + 1
      /\ groups' = IF read.group = <<>> THEN groups
                   ELSE Append(groups, [tier |-> Tier[sitemap], urls |-> read.group])
      /\ UNCHANGED <<site, pc, missed>>
  BY <1>1, <1>2, <1>3, <1>4, <1>5 DEF Read, ReadOf, So, Unread
<1>7. /\ first \in Seq(Sitemaps) /\ sitemap \in Sitemaps
      /\ Range(queue) = Range(first) \cup {sitemap}
  BY <1>1, <1>2, <1>6, Popped
<1>8. entries \in Seq(EntryTypes)
  BY <1>4, <1>7, DiscoveryAssumption DEF WalkInv, Types, EntryTypes
<1>9. IsFiniteSet(Listed) /\ Cardinality(Listed) \in Nat /\ Cardinality(Listed) < MaxUrls
  BY <1>6, FS_CardinalityType DEF WalkInv, Budgets, Walking
<1>10. PICK q, g, fails : /\ read = So(q, g, known, fails)
                         /\ SoFar(Len(entries), q, g, known, fails, first, entries)
  <2>1. \E q, g, fails : /\ Entries(Unread(first, known), entries) = So(q, g, known, fails)
                         /\ SoFar(Len(entries), q, g, known, fails, first, entries)
    BY <1>7, <1>8, <1>9, EntriesSound
  <2> QED
    BY <1>5, <2>1
<1>11. read.queue = q /\ read.group = g /\ read.seen = known /\ ~fails
  BY <1>6, <1>10 DEF So
<1>12. /\ q \in Seq(Sitemaps) /\ g \in Seq(Urls)
       /\ Range(first) \subseteq Range(q)
       /\ \A i, j \in 1..Len(g) : g[i] = g[j] => i = j
       /\ \A i \in 1..Len(g) : g[i] \notin Listed
       /\ Cardinality(Listed) + Len(g) <= MaxUrls
  BY <1>10 DEF SoFar
<1>13. seen' = seen \cup {sitemap} /\ queue' = q
  BY <1>3, <1>6, <1>11
<1>14. PICK new : new = [tier |-> Tier[sitemap], urls |-> g]
  OBVIOUS
<1>15. g # <<>> => new \in Group /\ new.urls = g
  BY <1>7, <1>12, <1>14, DiscoveryAssumption DEF Group
<1>16. groups \in Seq(Group)
  BY DEF WalkInv, Types
<1>17. /\ groups' \in Seq(Group) /\ Listed' = Listed \cup Range(g)
       /\ IsFiniteSet(Listed') /\ Cardinality(Listed') = Cardinality(Listed) + Len(g)
       /\ \A i \in DOMAIN groups' : Len(groups'[i].urls) <= MaxUrls
       /\ ListedOnce'
  <2>1. CASE g = <<>>
    <3>1. groups' = groups /\ Listed' = Listed /\ Listings' = Listings
      BY <1>6, <1>11, <2>1 DEF Listed, Listings
    <3>2. Len(g) = 0 /\ Range(g) = {}
      BY <2>1 DEF Range
    <3> QED
      BY <1>9, <1>16, <3>1, <3>2 DEF WalkInv, Budgets, ListedOnce, Page
  <2>2. CASE g # <<>>
    <3>1. groups' = Append(groups, new)
      BY <1>6, <1>11, <1>14, <2>2
    <3>2. Appended(Group, groups, new, groups')
      BY <1>15, <1>16, <2>2, <3>1, AppendIs
    <3>3. groups' \in Seq(Group)
      BY <3>2 DEF Appended
    <3> QED
      BY <1>12, <1>15, <2>2, <3>2, <3>3, GroupKeeps
  <2> QED
    BY <2>1, <2>2
<1>18. Types'
  BY <1>6, <1>7, <1>12, <1>13, <1>17 DEF WalkInv, Types
<1>19. Budgets'
  <2>1. fetches' = Cardinality(seen') /\ fetches' <= MaxFetches
    BY <1>6, <1>7, <1>13, OneMoreSeen
  <2> QED
    BY <1>12, <1>17, <2>1 DEF Budgets
<1>20. seen \cup Range(queue) \subseteq seen' \cup Range(queue')
  BY <1>7, <1>12, <1>13
<1>21. pc = "walk" /\ pc' = "walk"
  BY <1>6 DEF Walking
<1>22. Begun' /\ Ended'
  BY <1>6, <1>20, <1>21 DEF WalkInv, Begun, Ended, Walked
<1>23. NothingLost'
  <2> SUFFICES ASSUME Cardinality(Listed') < MaxUrls,
                      NEW s \in (seen' \ missed'), NEW entry \in Range(site'.doc[s])
               PROVE  IF entry.kind = "sitemap" THEN entry.url \in seen' \cup Range(queue')
                      ELSE /\ Url[entry.url].page # Malformed
                           /\ same_site(entry.url) => entry.url \in Listed'
    BY DEF NothingLost, same_site
  <2>1. Cardinality(Listed) + Len(g) < MaxUrls /\ Len(g) \in Nat
    BY <1>12, <1>17, LenProperties
  <2>2. CASE s \in seen
    <3>1. s \in seen \ missed /\ entry \in Range(site.doc[s]) /\ Cardinality(Listed) < MaxUrls
      BY <1>6, <1>9, <2>2
    <3>2. IF entry.kind = "sitemap" THEN entry.url \in seen \cup Range(queue)
          ELSE /\ Url[entry.url].page # Malformed
               /\ same_site(entry.url) => entry.url \in Listed
      BY <3>1 DEF WalkInv, NothingLost
    <3> QED
      BY <1>17, <1>20, <3>2
  <2>3. CASE s = sitemap
    <3>1. entry \in Range(entries)
      BY <1>4, <1>6, <2>3
    <3>2. PICK m \in 1..Len(entries) : entry = entries[m]
      BY <1>8, <3>1, LenProperties DEF Range
    <3>3. IF entries[m].kind = "sitemap" THEN entries[m].url \in known \cup Range(q)
          ELSE /\ Url[entries[m].url].page # Malformed
               /\ same_site(entries[m].url) => entries[m].url \in Listed \cup Range(g)
      BY <1>10, <1>11, <2>1 DEF SoFar
    <3> QED
      BY <1>3, <1>13, <1>17, <3>2, <3>3
  <2> QED
    BY <1>13, <2>2, <2>3
<1> QED
  BY <1>17, <1>18, <1>19, <1>22, <1>23 DEF WalkInv

LEMMA WalkStep == WalkInv /\ [Next]_vars => WalkInv'
<1> SUFFICES ASSUME WalkInv, [Next]_vars PROVE WalkInv'
  OBVIOUS
<1>1. ASSUME BreakOff \/ Merge \/ KeepUrl \/ Browse \/ KeepLink \/ StumbleOnLink \/ Return
      PROVE  WalkInv'
  <2>1. UNCHANGED <<site, queue, seen, fetches, groups, missed>>
    BY <1>1 DEF BreakOff, Fail, Merge, KeepUrl, Browse, KeepLink, StumbleOnLink, Return
  <2>a. Walking => pc = "walk"
    BY DEF Walking
  <2>2. /\ pc' # "robots" /\ (pc = "robots" => pc' = "failed")
        /\ pc # "failed" /\ (Walked' => Walked \/ (~Walking /\ pc = "walk"))
    BY <1>1, <2>a DEF BreakOff, Fail, Merge, KeepUrl, Browse, KeepLink, StumbleOnLink, Return, Walked
  <2> QED
    BY <2>1, <2>2, WalkQuiet
<1>2. ASSUME UNCHANGED vars PROVE WalkInv'
  <2>1. Listed' = Listed /\ Listings' = Listings
    BY <1>2 DEF vars, Listed, Listings
  <2> QED
    BY <1>2, <2>1 DEF vars, WalkInv, Types, Budgets, ListedOnce, Page, Begun, NothingLost, Ended,
                      Walked, same_site
<1> QED
  BY <1>1, <1>2, RobotsWalks, SkipWalks, MissWalks, ReadWalks DEF Next

\* Every place lists a page of its own.
LEMMA AsManyPlaces ==
  ASSUME WalkInv
  PROVE  Cardinality(Listings) = Cardinality(Listed)
<1>1. groups \in Seq(Group) /\ IsFiniteSet(Listed) /\ \A i \in DOMAIN groups : Len(groups[i].urls) <= MaxUrls
  BY DEF WalkInv, Types, Budgets
<1>2. PICK f : f = [at \in Listings |-> Page(at)]
  OBVIOUS
<1>3. f \in [Listings -> Listed] /\ DOMAIN f = Listings /\ \A at \in Listings : f[at] = Page(at)
  <2>1. \A at \in Listings : Page(at) \in Listed
    BY <1>1, PagesAreListed
  <2> QED
    BY <1>2, <2>1
<1>4. f \in Injection(Listings, Listed)
  <2>1. \A a, b \in Listings : f[a] = f[b] => a = b
    BY <1>3 DEF WalkInv, ListedOnce
  <2> QED
    BY <1>3, <2>1 DEF Injection, IsInjective
<1>5. f \in Surjection(Listings, Listed)
  <2>1. ASSUME NEW x \in Listed PROVE \E at \in Listings : f[at] = x
    <3>1. PICK i \in DOMAIN groups : x \in Range(groups[i].urls)
      BY DEF Listed
    <3>2. PICK urls \in Seq(Urls) : urls = groups[i].urls
      <4>1. groups[i] \in Group
        BY <1>1, <3>1, LenProperties
      <4> QED
        BY <4>1 DEF Group
    <3>3. PICK k \in 1..Len(urls) : x = urls[k]
      BY <3>1, <3>2, LenProperties DEF Range
    <3>4. k \in 1..MaxUrls /\ k <= Len(urls)
      <4>1. Len(urls) <= MaxUrls /\ Len(urls) \in Nat
        BY <1>1, <3>2, LenProperties
      <4> QED
        BY <4>1, DiscoveryAssumption
    <3>5. PICK at : at = <<i, k>>
      OBVIOUS
    <3>6. at[1] = i /\ at[2] = k /\ at \in (DOMAIN groups) \X (1..MaxUrls)
      BY <3>1, <3>4, <3>5
    <3>7. at \in Listings
      BY <3>2, <3>4, <3>6 DEF Listings
    <3>8. f[at] = x
      BY <1>3, <3>2, <3>3, <3>6, <3>7 DEF Page
    <3> QED
      BY <3>7, <3>8
  <2> QED
    BY <1>3, <2>1 DEF Surjection
<1> QED
  BY <1>1, <1>4, <1>5, FS_Injection

LEMMA WalkSuffices == WalkInv => WalkIsComplete
<1> SUFFICES ASSUME WalkInv PROVE WalkIsComplete
  OBVIOUS
<1>1. /\ fetches = Cardinality(seen) /\ fetches <= MaxFetches
      /\ Cardinality(Listings) = Cardinality(Listed) /\ Cardinality(Listed) <= MaxUrls
  BY AsManyPlaces DEF WalkInv, Budgets
<1>2. ASSUME Walked, fetches < MaxFetches, Cardinality(Listed) < MaxUrls
      PROVE  /\ \E declared \in {Conventional, site.robots} :
                    declared # <<>> /\ Range(declared) \subseteq seen
             /\ \A s \in seen \ missed : \A entry \in Range(site.doc[s]) :
                    IF entry.kind = "sitemap" THEN entry.url \in seen
                    ELSE /\ Url[entry.url].page # Malformed
                         /\ same_site(entry.url) => entry.url \in Listed
  <2>1. fetches \in Nat /\ Cardinality(Listed) \in Nat /\ MaxFetches \in Nat /\ MaxUrls \in Nat
    <3>1. IsFiniteSet(seen) /\ IsFiniteSet(Listed)
      BY FS_Subset, DiscoveryAssumption DEF WalkInv, Types, Budgets
    <3> QED
      BY <1>1, <3>1, FS_CardinalityType, DiscoveryAssumption
  <2>2. queue = <<>>
    BY <1>2, <2>1 DEF WalkInv, Ended
  <2>3. seen \cup Range(queue) = seen
    BY <2>2 DEF Range
  <2>4. pc # "robots" /\ pc # "failed"
    BY <1>2 DEF Walked
  <2> QED
    BY <1>2, <2>3, <2>4 DEF WalkInv, Begun, NothingLost
<1> QED
  BY <1>1, <1>2 DEF WalkIsComplete

\* Whatever sitemaps a site has and whichever indexes name each other: the walk
\* asks for none twice, lists no page twice and keeps both budgets, and short of
\* them it misses no sitemap that one it read names, and no page of the site.
THEOREM WalkCompletes == Spec => []WalkIsComplete
<1>1. Init => WalkInv
  BY InitWalks
<1>2. WalkInv /\ [Next]_vars => WalkInv'
  BY WalkStep
<1>3. WalkInv => WalkIsComplete
  BY WalkSuffices
<1> QED
  BY <1>1, <1>2, <1>3, PTL DEF Spec

-----------------------------------------------------------------------------
(* The merge.                                                              *)

LEMMA FlattenSteps ==
  ASSUME NEW S, NEW pieces \in Seq(Seq(S))
  PROVE  \E h : /\ h[0] = <<>> /\ FlattenSeq(pieces) = h[Len(pieces)]
               /\ \A k \in 1..Len(pieces) : h[k] = h[k - 1] \o pieces[k]
<1> DEFINE n == Len(pieces)
           Then(sofar, i) == sofar \o pieces[i]
           Steps(k, h) == h = [i \in 1..k |-> IF i = 1 THEN pieces[i] ELSE Then(h[i - 1], i)]
           T == {k \in 0..n : \E h : Steps(k, h)}
           F == CHOOSE f : Steps(n, f)
<1>1. n \in Nat /\ (n = 0 => pieces = <<>>)
  OBVIOUS
<1>2. n # 0 => FlattenSeq(pieces) = F[n]
  BY DEF FlattenSeq
<1>3. \A i \in 1..n : pieces[i] \in Seq(S)
  OBVIOUS
<1>4. /\ \A sofar, i : Then(sofar, i) = sofar \o pieces[i]
      /\ \A i \in 1..n : <<>> \o pieces[i] = pieces[i]
  BY <1>3, ConcatEmptySeq
<1>5. n = 0 => FlattenSeq(pieces) = <<>>
  BY <1>1 DEF FlattenSeq
<1> HIDE DEF n, Then
<1>6. 0 \in T
  <2>1. Steps(0, [i \in 1..0 |-> pieces[i]])
    OBVIOUS
  <2>2. 0 \in 0..n
    BY <1>1
  <2> HIDE DEF Steps
  <2> QED
    BY <2>1, <2>2
<1>7. ASSUME NEW k \in 0..(n - 1), k \in T PROVE k + 1 \in T
  <2>1. PICK h : Steps(k, h)
    BY <1>7
  <2> DEFINE last == IF k = 0 THEN pieces[1] ELSE Then(h[k], k + 1)
             g == [i \in 1..(k + 1) |-> IF i = k + 1 THEN last ELSE h[i]]
  <2>2. \A i \in 1..k : g[i] = h[i]
    BY <1>1
  <2>3. g[k + 1] = last
    BY <1>1
  <2>4. \A i \in 1..k : h[i] = IF i = 1 THEN pieces[i] ELSE Then(h[i - 1], i)
    BY <2>1
  <2>5. g = [i \in 1..(k + 1) |-> g[i]]
    OBVIOUS
  <2> HIDE DEF g
  <2>6. \A i \in 1..(k + 1) : g[i] = IF i = 1 THEN pieces[i] ELSE Then(g[i - 1], i)
    <3> SUFFICES ASSUME NEW i \in 1..(k + 1)
                 PROVE  g[i] = IF i = 1 THEN pieces[i] ELSE Then(g[i - 1], i)
      OBVIOUS
    <3>1. CASE i = 1
      BY <1>1, <2>2, <2>3, <2>4, <3>1
    <3>2. CASE i # 1 /\ i = k + 1
      BY <1>1, <2>2, <2>3, <3>2
    <3>3. CASE i \in 2..k
      <4>1. g[i] = h[i] /\ g[i - 1] = h[i - 1]
        BY <1>1, <2>2, <3>3
      <4> QED
        BY <2>4, <3>3, <4>1
    <3> QED
      BY <1>1, <3>1, <3>2, <3>3
  <2>7. Steps(k + 1, g)
    BY <2>5, <2>6
  <2>8. k + 1 \in 0..n
    BY <1>1
  <2> HIDE DEF Steps
  <2> QED
    BY <2>7, <2>8
<1>8. Steps(n, F)
  <2>1. \A k \in 0..n : k \in T
    <3> HIDE DEF T
    <3> QED
      BY <1>1, <1>6, <1>7, Upwards
  <2>2. n \in 0..n
    BY <1>1
  <2> HIDE DEF Steps
  <2> QED
    BY <2>1, <2>2
<1> HIDE DEF F
<1> DEFINE h == [k \in 0..n |-> IF k = 0 THEN <<>> ELSE F[k]]
<1>9. h[0] = <<>> /\ h[0] \in Seq(S)
  BY <1>1
<1>10. FlattenSeq(pieces) = h[n]
  BY <1>1, <1>2, <1>5
<1>11. ASSUME NEW k \in 1..n PROVE h[k] = Then(h[k - 1], k)
  <2>1. CASE k = 1
    <3>1. F[1] = pieces[1]
      BY <1>8, <2>1
    <3>2. h[1] = pieces[1] /\ h[0] = <<>>
      BY <1>1, <2>1, <3>1
    <3>3. Then(<<>>, 1) = pieces[1]
      <4>1. 1 \in 1..n
        BY <1>1, <2>1
      <4>2. <<>> \o pieces[1] = pieces[1]
        BY <1>4, <4>1
      <4> QED
        BY <1>4, <4>2
    <3>4. k - 1 = 0
      BY <2>1
    <3> QED
      BY <2>1, <3>2, <3>3, <3>4
  <2>2. CASE k # 1
    <3>1. F[k] = Then(F[k - 1], k)
      BY <1>8, <2>2
    <3>2. h[k] = F[k] /\ h[k - 1] = F[k - 1]
      BY <1>1, <2>2
    <3> QED
      BY <3>1, <3>2
  <2> QED
    BY <2>1, <2>2
<1> HIDE DEF h
<1>12. \A k \in 1..n : h[k] = h[k - 1] \o pieces[k]
  BY <1>4, <1>11
<1> QED
  BY <1>9, <1>10, <1>12 DEF n

\* All that is in the first n pieces comes, each element after those of earlier
\* pieces and after those before it in its own.
Flattens(S, pieces, n, flat) ==
    /\ flat \in Seq(S)
    /\ \A i \in 1..n : \A m \in 1..Len(pieces[i]) :
           \E p \in 1..Len(flat) : flat[p] = pieces[i][m]
    /\ \A p \in 1..Len(flat) : \E i \in 1..n : \E m \in 1..Len(pieces[i]) :
           /\ flat[p] = pieces[i][m]
           /\ \A l \in 1..(m - 1) : \E q \in 1..(p - 1) : flat[q] = pieces[i][l]
           /\ \A j \in 1..(i - 1) : \A l \in 1..Len(pieces[j]) :
                  \E q \in 1..(p - 1) : flat[q] = pieces[j][l]

LEMMA FlattensMore ==
  ASSUME NEW S, NEW pieces \in Seq(Seq(S)), NEW n \in 0..(Len(pieces) - 1), NEW flat,
         Flattens(S, pieces, n, flat)
  PROVE  Flattens(S, pieces, n + 1, flat \o pieces[n + 1])
<1>1. PICK c \in Nat : c = Len(flat)
  BY LenProperties DEF Flattens
<1>2. PICK more \in Seq(S) : more = pieces[n + 1]
  <2>1. n + 1 \in 1..Len(pieces)
    BY LenProperties
  <2> QED
    BY <2>1, ElementOfSeq
<1>3. PICK d \in Nat : d = Len(more)
  BY LenProperties
<1>4. PICK new : new = flat \o more
  OBVIOUS
<1>5. /\ new \in Seq(S) /\ Len(new) = c + d
      /\ \A p \in 1..c : new[p] = flat[p]
      /\ \A m \in 1..d : new[c + m] = more[m]
  <2>1. /\ new \in Seq(S) /\ Len(new) = c + d
        /\ \A p \in 1..(c + d) : new[p] = IF p <= c THEN flat[p] ELSE more[p - c]
    <3>1. /\ flat \o more \in Seq(S)
          /\ Len(flat \o more) = Len(flat) + Len(more)
          /\ \A i \in 1..Len(flat) + Len(more) : (flat \o more)[i] =
                 IF i <= Len(flat) THEN flat[i] ELSE more[i - Len(flat)]
      BY ConcatProperties DEF Flattens
    <3> QED
      BY <1>1, <1>3, <1>4, <3>1
  <2>2. \A p \in 1..c : new[p] = flat[p]
    BY <2>1
  <2>3. ASSUME NEW m \in 1..d PROVE new[c + m] = more[m]
    <3>1. c + m \in 1..(c + d) /\ ~(c + m <= c) /\ (c + m) - c = m
      OBVIOUS
    <3> QED
      BY <2>1, <3>1
  <2> QED
    BY <2>1, <2>2, <2>3
<1>6. n \in Nat
  OBVIOUS
<1>7. \A i \in 1..n : \A m \in 1..Len(pieces[i]) : \E p \in 1..c : new[p] = pieces[i][m]
  BY <1>1, <1>5 DEF Flattens
<1>8. ASSUME NEW i \in 1..(n + 1), NEW m \in 1..Len(pieces[i])
      PROVE  \E p \in 1..Len(new) : new[p] = pieces[i][m]
  <2>1. CASE i \in 1..n
    <3>1. PICK p \in 1..c : new[p] = pieces[i][m]
      BY <1>7, <2>1
    <3>2. p \in 1..Len(new)
      BY <1>5
    <3> QED
      BY <3>1, <3>2
  <2>2. CASE i = n + 1
    <3>1. m \in 1..d /\ pieces[i][m] = more[m] /\ c + m \in 1..Len(new)
      BY <1>2, <1>3, <1>5, <2>2
    <3> QED
      BY <1>5, <3>1
  <2> QED
    BY <1>6, <2>1, <2>2
<1>9. ASSUME NEW p \in 1..Len(new)
      PROVE  \E i \in 1..(n + 1) : \E m \in 1..Len(pieces[i]) :
               /\ new[p] = pieces[i][m]
               /\ \A l \in 1..(m - 1) : \E q \in 1..(p - 1) : new[q] = pieces[i][l]
               /\ \A j \in 1..(i - 1) : \A l \in 1..Len(pieces[j]) :
                      \E q \in 1..(p - 1) : new[q] = pieces[j][l]
  <2>1. CASE p \in 1..c
    <3>0. PICK i \in 1..n : \E m \in 1..Len(pieces[i]) :
            /\ flat[p] = pieces[i][m]
            /\ \A l \in 1..(m - 1) : \E q \in 1..(p - 1) : flat[q] = pieces[i][l]
            /\ \A j \in 1..(i - 1) : \A l \in 1..Len(pieces[j]) :
                   \E q \in 1..(p - 1) : flat[q] = pieces[j][l]
      BY <1>1, <2>1 DEF Flattens
    <3>1. PICK m \in 1..Len(pieces[i]) :
            /\ flat[p] = pieces[i][m]
            /\ \A l \in 1..(m - 1) : \E q \in 1..(p - 1) : flat[q] = pieces[i][l]
            /\ \A j \in 1..(i - 1) : \A l \in 1..Len(pieces[j]) :
                   \E q \in 1..(p - 1) : flat[q] = pieces[j][l]
      BY <3>0
    <3>2. \A q \in 1..(p - 1) : new[q] = flat[q]
      BY <1>5, <2>1
    <3>3. \A l \in 1..(m - 1) : \E q \in 1..(p - 1) : new[q] = pieces[i][l]
      BY <3>1, <3>2
    <3>4. \A j \in 1..(i - 1) : \A l \in 1..Len(pieces[j]) :
              \E q \in 1..(p - 1) : new[q] = pieces[j][l]
      BY <3>1, <3>2
    <3>5. new[p] = pieces[i][m] /\ i \in 1..(n + 1)
      BY <1>5, <1>6, <2>1, <3>1
    <3> QED
      BY <3>3, <3>4, <3>5
  <2>2. CASE p \notin 1..c
    <3>1. PICK m : m = p - c
      OBVIOUS
    <3>2. m \in 1..d /\ p = c + m /\ p \in Int
      BY <1>5, <2>2, <3>1
    <3>3. PICK i \in 1..(n + 1) : i = n + 1
      BY <1>6
    <3>4. m \in 1..Len(pieces[i]) /\ new[p] = pieces[i][m]
      BY <1>2, <1>3, <1>5, <3>2, <3>3
    <3>5. \A l \in 1..(m - 1) : \E q \in 1..(p - 1) : new[q] = pieces[i][l]
      <4> SUFFICES ASSUME NEW l \in 1..(m - 1) PROVE \E q \in 1..(p - 1) : new[q] = pieces[i][l]
        OBVIOUS
      <4>1. l \in 1..d /\ c + l \in 1..(p - 1)
        BY <3>2
      <4>2. new[c + l] = pieces[i][l]
        BY <1>2, <1>5, <3>3, <4>1
      <4> QED
        BY <4>1, <4>2
    <3>6. \A j \in 1..(i - 1) : \A l \in 1..Len(pieces[j]) :
              \E q \in 1..(p - 1) : new[q] = pieces[j][l]
      <4> SUFFICES ASSUME NEW j \in 1..(i - 1), NEW l \in 1..Len(pieces[j])
                   PROVE  \E q \in 1..(p - 1) : new[q] = pieces[j][l]
        OBVIOUS
      <4>1. j \in 1..n
        BY <1>6, <3>3
      <4>2. PICK q \in 1..c : new[q] = pieces[j][l]
        BY <1>7, <4>1
      <4>3. q \in 1..(p - 1)
        BY <3>2
      <4> QED
        BY <4>2, <4>3
    <3> QED
      BY <3>4, <3>5, <3>6
  <2> QED
    BY <2>1, <2>2
<1>10. Flattens(S, pieces, n + 1, new)
  BY <1>5, <1>8, <1>9 DEF Flattens
<1> QED
  BY <1>2, <1>4, <1>10

LEMMA FlattenIs ==
  ASSUME NEW S, NEW pieces \in Seq(Seq(S))
  PROVE  Flattens(S, pieces, Len(pieces), FlattenSeq(pieces))
<1>1. PICK h : /\ h[0] = <<>> /\ FlattenSeq(pieces) = h[Len(pieces)]
               /\ \A k \in 1..Len(pieces) : h[k] = h[k - 1] \o pieces[k]
  BY FlattenSteps
<1>2. PICK n \in Nat : n = Len(pieces)
  BY LenProperties
<1> DEFINE T == {k \in 0..n : Flattens(S, pieces, k, h[k])}
<1>3. 0 \in T
  <2>1. <<>> \in Seq(S) /\ Len(<<>>) = 0
    BY EmptySeq
  <2>2. PICK f : f = <<>>
    OBVIOUS
  <2>3. f \in Seq(S) /\ Len(f) = 0
    BY <2>1, <2>2
  <2>4. Flattens(S, pieces, 0, f)
    BY <2>3 DEF Flattens
  <2> QED
    BY <1>1, <2>2, <2>4
<1>4. ASSUME NEW k \in 0..(n - 1), k \in T PROVE k + 1 \in T
  <2>1. Flattens(S, pieces, k + 1, h[k] \o pieces[k + 1])
    BY <1>2, <1>4, FlattensMore
  <2>2. k + 1 \in 1..n /\ (k + 1) - 1 = k
    OBVIOUS
  <2>3. h[k + 1] = h[k] \o pieces[k + 1]
    BY <1>1, <1>2, <2>2
  <2>4. Flattens(S, pieces, k + 1, h[k + 1])
    BY <2>1, <2>3
  <2>5. k + 1 \in 0..n
    BY <2>2
  <2> QED
    BY <2>4, <2>5
<1>5. \A k \in 0..n : k \in T
  <2> HIDE DEF T
  <2> QED
    BY <1>3, <1>4, Upwards
<1>6. n \in T
  BY <1>5
<1> QED
  BY <1>1, <1>2, <1>6

\* The groups and their tiers, as the walk leaves them.
Grouped == groups \in Seq(Group) /\ \A i \in DOMAIN groups : Len(groups[i].urls) <= MaxUrls

TierAt(at) == groups[at[1]].tier

LEMMA GroupsAre ==
  ASSUME Grouped, NEW i \in DOMAIN groups
  PROVE  /\ groups[i].tier \in 0..3 /\ groups[i].urls \in Seq(Urls)
         /\ Len(groups[i].urls) \in 1..MaxUrls
<1>1. groups[i] \in Group
  BY LenProperties DEF Grouped
<1>2. groups[i].tier \in 0..3 /\ groups[i].urls \in Seq(Urls) /\ groups[i].urls # <<>>
  BY <1>1 DEF Group
<1>3. Len(groups[i].urls) \in Nat \ {0}
  BY <1>2, EmptySeq
<1> QED
  BY <1>2, <1>3, DiscoveryAssumption DEF Grouped

LEMMA PlaceIs ==
  ASSUME Grouped, NEW i \in DOMAIN groups, NEW k \in 1..Len(groups[i].urls)
  PROVE  \E at \in Listings : /\ at[1] = i /\ at[2] = k /\ TierAt(at) = groups[i].tier
                              /\ Page(at) = groups[i].urls[k]
<1>1. PICK at : at = <<i, k>>
  OBVIOUS
<1>2. at[1] = i /\ at[2] = k
  BY <1>1
<1>3. k \in 1..MaxUrls /\ k <= Len(groups[i].urls)
  BY GroupsAre, DiscoveryAssumption
<1>4. at \in (DOMAIN groups) \X (1..MaxUrls)
  BY <1>1, <1>3
<1>5. at \in Listings
  BY <1>2, <1>3, <1>4 DEF Listings
<1> QED
  BY <1>2, <1>5 DEF TierAt, Page

LEMMA ColumnIs ==
  ASSUME Grouped, NEW t \in 0..3, NEW k \in 1..MaxUrls
  PROVE  /\ Column(t, k) \in Seq(Urls)
         /\ \A at \in Listings : TierAt(at) = t /\ at[2] = k =>
                \E p \in 1..Len(Column(t, k)) : Column(t, k)[p] = Page(at)
         /\ \A p \in 1..Len(Column(t, k)) :
                \E at \in Listings : TierAt(at) = t /\ at[2] = k /\ Page(at) = Column(t, k)[p]
<1> DEFINE Longer(i) == groups[i].tier = t /\ k <= Len(groups[i].urls)
           Piece(i) == IF Longer(i) THEN <<groups[i].urls[k]>> ELSE <<>>
<1>1. PICK n \in Nat : n = Len(groups) /\ DOMAIN groups = 1..n
  BY LenProperties DEF Grouped
<1>2. PICK pieces : pieces = [i \in DOMAIN groups |-> Piece(i)]
  OBVIOUS
<1>3. \A i \in 1..n : pieces[i] = Piece(i)
  BY <1>1, <1>2
<1>4. ASSUME NEW i \in 1..n
      PROVE  /\ pieces[i] \in Seq(Urls)
             /\ Longer(i) => /\ Len(pieces[i]) = 1 /\ pieces[i][1] = groups[i].urls[k]
                             /\ k \in 1..Len(groups[i].urls)
             /\ ~Longer(i) => Len(pieces[i]) = 0
  <2>1. CASE Longer(i)
    <3>1. groups[i].urls \in Seq(Urls) /\ k \in 1..Len(groups[i].urls)
      BY <1>1, <2>1, GroupsAre, DiscoveryAssumption
    <3>2. PICK url \in Urls : url = groups[i].urls[k]
      BY <3>1, ElementOfSeq
    <3>3. pieces[i] = <<url>>
      BY <1>3, <2>1, <3>2
    <3> QED
      BY <2>1, <3>1, <3>2, <3>3
  <2>2. CASE ~Longer(i)
    <3>1. pieces[i] = <<>>
      BY <1>3, <2>2
    <3>2. <<>> \in Seq(Urls) /\ Len(<<>>) = 0
      BY EmptySeq
    <3> QED
      BY <2>2, <3>1, <3>2
  <2> QED
    BY <2>1, <2>2
<1>5. pieces \in Seq(Seq(Urls)) /\ Len(pieces) = n
  <2>1. pieces \in [1..n -> Seq(Urls)]
    BY <1>1, <1>2, <1>4
  <2> QED
    BY <1>1, <2>1
<1>6. PICK column : column = Column(t, k)
  OBVIOUS
<1>7. Flattens(Urls, pieces, n, column)
  <2>1. column = FlattenSeq(pieces)
    BY <1>2, <1>6 DEF Column
  <2> QED
    BY <1>5, <2>1, FlattenIs
<1>8. ASSUME NEW at \in Listings, TierAt(at) = t, at[2] = k
      PROVE  \E p \in 1..Len(column) : column[p] = Page(at)
  <2>1. PICK i \in 1..n : i = at[1]
    BY <1>1, PlacesAre
  <2>2. Longer(i) /\ Page(at) = groups[i].urls[k]
    BY <1>8, <2>1, PlacesAre DEF TierAt, Page
  <2>3. 1 \in 1..Len(pieces[i]) /\ pieces[i][1] = Page(at)
    BY <1>4, <2>2
  <2>4. \E p \in 1..Len(column) : column[p] = pieces[i][1]
    BY <1>7, <2>3 DEF Flattens
  <2> QED
    BY <2>3, <2>4
<1>9. ASSUME NEW p \in 1..Len(column)
      PROVE  \E at \in Listings : TierAt(at) = t /\ at[2] = k /\ Page(at) = column[p]
  <2>1. PICK i \in 1..n : \E m \in 1..Len(pieces[i]) : column[p] = pieces[i][m]
    BY <1>7 DEF Flattens
  <2>2. PICK m \in 1..Len(pieces[i]) : column[p] = pieces[i][m]
    BY <2>1
  <2>3. Longer(i) /\ m = 1
    BY <1>4, <2>2
  <2>4. /\ i \in DOMAIN groups /\ k \in 1..Len(groups[i].urls)
        /\ groups[i].tier = t /\ column[p] = groups[i].urls[k]
    BY <1>1, <1>4, <2>2, <2>3
  <2> QED
    BY <2>4, PlaceIs
<1>10. column \in Seq(Urls)
  BY <1>7 DEF Flattens
<1> QED
  BY <1>6, <1>8, <1>9, <1>10

\* Rows in order: each page comes after all that are higher up in its tier.
LEMMA RoundRobinIs ==
  ASSUME Grouped, NEW t \in 0..3
  PROVE  /\ RoundRobin(t) \in Seq(Urls)
         /\ \A at \in Listings : TierAt(at) = t =>
                \E p \in 1..Len(RoundRobin(t)) : RoundRobin(t)[p] = Page(at)
         /\ \A p \in 1..Len(RoundRobin(t)) : \E b \in Listings :
                /\ TierAt(b) = t /\ Page(b) = RoundRobin(t)[p]
                /\ \A a \in Listings : TierAt(a) = t /\ a[2] < b[2] =>
                       \E q \in 1..(p - 1) : RoundRobin(t)[q] = Page(a)
<1>1. PICK columns : columns = [k \in 1..MaxUrls |-> Column(t, k)]
  OBVIOUS
<1>2. /\ MaxUrls \in Nat /\ columns \in Seq(Seq(Urls)) /\ Len(columns) = MaxUrls
      /\ \A k \in 1..MaxUrls : columns[k] = Column(t, k)
  <2>1. MaxUrls \in Nat
    BY DiscoveryAssumption
  <2>2. columns \in [1..MaxUrls -> Seq(Urls)]
    BY <1>1, ColumnIs
  <2> QED
    BY <1>1, <2>1, <2>2
<1>3. PICK turns : turns = RoundRobin(t)
  OBVIOUS
<1>4. Flattens(Urls, columns, MaxUrls, turns)
  <2>1. turns = FlattenSeq(columns)
    BY <1>1, <1>3 DEF RoundRobin
  <2> QED
    BY <1>2, <2>1, FlattenIs
<1>5. ASSUME NEW at \in Listings, TierAt(at) = t
      PROVE  at[2] \in 1..MaxUrls /\ \E m \in 1..Len(columns[at[2]]) : columns[at[2]][m] = Page(at)
  <2>1. PICK k \in 1..MaxUrls : k = at[2]
    BY PlacesAre
  <2>2. \E p \in 1..Len(Column(t, k)) : Column(t, k)[p] = Page(at)
    BY <1>5, <2>1, ColumnIs
  <2> QED
    BY <1>2, <2>1, <2>2
<1>6. ASSUME NEW at \in Listings, TierAt(at) = t
      PROVE  \E p \in 1..Len(turns) : turns[p] = Page(at)
  <2>1. PICK k \in 1..MaxUrls : \E m \in 1..Len(columns[k]) : columns[k][m] = Page(at)
    BY <1>5, <1>6
  <2>2. PICK m \in 1..Len(columns[k]) : columns[k][m] = Page(at)
    BY <2>1
  <2>3. \E p \in 1..Len(turns) : turns[p] = columns[k][m]
    BY <1>4 DEF Flattens
  <2> QED
    BY <2>2, <2>3
<1>7. ASSUME NEW p \in 1..Len(turns)
      PROVE  \E b \in Listings :
               /\ TierAt(b) = t /\ Page(b) = turns[p]
               /\ \A a \in Listings : TierAt(a) = t /\ a[2] < b[2] =>
                      \E q \in 1..(p - 1) : turns[q] = Page(a)
  <2>1. PICK k \in 1..MaxUrls : \E m \in 1..Len(columns[k]) :
          /\ turns[p] = columns[k][m]
          /\ \A j \in 1..(k - 1) : \A l \in 1..Len(columns[j]) :
                 \E q \in 1..(p - 1) : turns[q] = columns[j][l]
    BY <1>4 DEF Flattens
  <2>2. PICK m \in 1..Len(columns[k]) :
          /\ turns[p] = columns[k][m]
          /\ \A j \in 1..(k - 1) : \A l \in 1..Len(columns[j]) :
                 \E q \in 1..(p - 1) : turns[q] = columns[j][l]
    BY <2>1
  <2>3. PICK b \in Listings : TierAt(b) = t /\ b[2] = k /\ Page(b) = turns[p]
    <3>1. m \in 1..Len(Column(t, k)) /\ turns[p] = Column(t, k)[m]
      BY <1>2, <2>2
    <3> QED
      BY <3>1, ColumnIs
  <2>4. ASSUME NEW a \in Listings, TierAt(a) = t, a[2] < b[2]
        PROVE  \E q \in 1..(p - 1) : turns[q] = Page(a)
    <3>1. PICK j \in 1..MaxUrls : j = a[2] /\ \E l \in 1..Len(columns[j]) : columns[j][l] = Page(a)
      BY <1>5, <2>4
    <3>2. j \in 1..(k - 1)
      BY <2>3, <2>4, <3>1
    <3> QED
      BY <2>2, <3>1, <3>2
  <2> QED
    BY <2>3, <2>4
<1>8. turns \in Seq(Urls)
  BY <1>4 DEF Flattens
<1> QED
  BY <1>3, <1>6, <1>7, <1>8

\* Tiers in order: each page comes after all that are sooner.
LEMMA InterleavedIs ==
  ASSUME Grouped
  PROVE  /\ Interleaved \in Seq(Urls)
         /\ \A at \in Listings : \E p \in 1..Len(Interleaved) : Interleaved[p] = Page(at)
         /\ \A p \in 1..Len(Interleaved) : \E b \in Listings :
                /\ Page(b) = Interleaved[p]
                /\ \A a \in Listings : Sooner(a, b) =>
                       \E q \in 1..(p - 1) : Interleaved[q] = Page(a)
<1>1. PICK tiers : tiers = [t \in 1..4 |-> RoundRobin(t - 1)]
  OBVIOUS
<1>2. /\ tiers \in Seq(Seq(Urls)) /\ Len(tiers) = 4
      /\ \A t \in 1..4 : tiers[t] = RoundRobin(t - 1)
  <2>1. \A t \in 1..4 : RoundRobin(t - 1) \in Seq(Urls)
    <3> SUFFICES ASSUME NEW t \in 1..4 PROVE RoundRobin(t - 1) \in Seq(Urls)
      OBVIOUS
    <3>1. PICK u \in 0..3 : u = t - 1
      OBVIOUS
    <3> QED
      BY <3>1, RoundRobinIs
  <2>2. tiers \in [1..4 -> Seq(Urls)]
    BY <1>1, <2>1
  <2> QED
    BY <1>1, <2>2
<1>3. PICK all : all = Interleaved
  OBVIOUS
<1>4. Flattens(Urls, tiers, 4, all)
  <2>1. all = FlattenSeq(tiers)
    BY <1>1, <1>3 DEF Interleaved
  <2> QED
    BY <1>2, <2>1, FlattenIs
<1>5. ASSUME NEW at \in Listings
      PROVE  \E t \in 1..4 : /\ TierAt(at) = t - 1
                             /\ \E m \in 1..Len(tiers[t]) : tiers[t][m] = Page(at)
  <2>1. PICK u \in 0..3 : u = TierAt(at)
    BY PlacesAre, GroupsAre DEF TierAt
  <2>2. PICK t \in 1..4 : t = u + 1 /\ t - 1 = u
    OBVIOUS
  <2>3. \E m \in 1..Len(RoundRobin(u)) : RoundRobin(u)[m] = Page(at)
    BY <2>1, RoundRobinIs
  <2> QED
    BY <1>2, <2>1, <2>2, <2>3
<1>6. ASSUME NEW at \in Listings PROVE \E p \in 1..Len(all) : all[p] = Page(at)
  <2>1. PICK t \in 1..4 : \E m \in 1..Len(tiers[t]) : tiers[t][m] = Page(at)
    BY <1>5
  <2>2. PICK m \in 1..Len(tiers[t]) : tiers[t][m] = Page(at)
    BY <2>1
  <2>3. \E p \in 1..Len(all) : all[p] = tiers[t][m]
    BY <1>4 DEF Flattens
  <2> QED
    BY <2>2, <2>3
<1>7. ASSUME NEW p \in 1..Len(all)
      PROVE  \E b \in Listings :
               /\ Page(b) = all[p]
               /\ \A a \in Listings : Sooner(a, b) => \E q \in 1..(p - 1) : all[q] = Page(a)
  <2>1. PICK t \in 1..4 : \E m \in 1..Len(tiers[t]) :
          /\ all[p] = tiers[t][m]
          /\ \A l \in 1..(m - 1) : \E q \in 1..(p - 1) : all[q] = tiers[t][l]
          /\ \A j \in 1..(t - 1) : \A l \in 1..Len(tiers[j]) :
                 \E q \in 1..(p - 1) : all[q] = tiers[j][l]
    BY <1>4 DEF Flattens
  <2>2. PICK m \in 1..Len(tiers[t]) :
          /\ all[p] = tiers[t][m]
          /\ \A l \in 1..(m - 1) : \E q \in 1..(p - 1) : all[q] = tiers[t][l]
          /\ \A j \in 1..(t - 1) : \A l \in 1..Len(tiers[j]) :
                 \E q \in 1..(p - 1) : all[q] = tiers[j][l]
    BY <2>1
  <2>3. PICK u \in 0..3 : u = t - 1
    OBVIOUS
  <2>4. PICK b \in Listings :
          /\ TierAt(b) = u /\ Page(b) = all[p]
          /\ \A a \in Listings : TierAt(a) = u /\ a[2] < b[2] =>
                 \E l \in 1..(m - 1) : tiers[t][l] = Page(a)
    <3>1. tiers[t] = RoundRobin(u)
      BY <1>2, <2>3
    <3>2. m \in 1..Len(RoundRobin(u)) /\ RoundRobin(u)[m] = all[p]
      BY <2>2, <3>1
    <3>3. \E b \in Listings :
            /\ TierAt(b) = u /\ Page(b) = RoundRobin(u)[m]
            /\ \A a \in Listings : TierAt(a) = u /\ a[2] < b[2] =>
                   \E l \in 1..(m - 1) : RoundRobin(u)[l] = Page(a)
      BY <3>2, RoundRobinIs
    <3> QED
      BY <3>1, <3>2, <3>3
  <2>5. ASSUME NEW a \in Listings, Sooner(a, b)
        PROVE  \E q \in 1..(p - 1) : all[q] = Page(a)
    <3>1. CASE TierAt(a) < TierAt(b)
      <4>1. PICK j \in 1..4 : /\ TierAt(a) = j - 1
                              /\ \E l \in 1..Len(tiers[j]) : tiers[j][l] = Page(a)
        BY <1>5
      <4>2. j \in 1..(t - 1)
        BY <2>3, <2>4, <3>1, <4>1
      <4> QED
        BY <2>2, <4>1, <4>2
    <3>2. CASE TierAt(a) = TierAt(b) /\ a[2] < b[2]
      <4>1. PICK l \in 1..(m - 1) : tiers[t][l] = Page(a)
        BY <2>4, <3>2
      <4> QED
        BY <2>2, <4>1
    <3> QED
      BY <2>5, <3>1, <3>2 DEF Sooner, TierAt
  <2> QED
    BY <2>4, <2>5
<1>8. all \in Seq(Urls)
  BY <1>4 DEF Flattens
<1> QED
  BY <1>3, <1>6, <1>7, <1>8

\* Nothing to merge means that nothing was listed.
LEMMA NothingListed ==
  ASSUME Grouped, Interleaved = <<>>
  PROVE  groups = <<>>
<1> SUFFICES ASSUME groups # <<>> PROVE FALSE
  OBVIOUS
<1>1. 1 \in DOMAIN groups
  BY EmptySeq, LenProperties DEF Grouped
<1>2. 1 \in 1..Len(groups[1].urls)
  BY <1>1, GroupsAre
<1>3. PICK at : at \in Listings
  BY <1>1, <1>2, PlaceIs
<1>4. \E p \in 1..Len(Interleaved) : Interleaved[p] = Page(at)
  BY <1>3, InterleavedIs
<1>5. Len(<<>>) = 0
  OBVIOUS
<1> QED
  BY <1>4, <1>5

-----------------------------------------------------------------------------
(* The cut.                                                                *)

EachOnce ==
    /\ \E S : found \in Seq(S)
    /\ found # <<>> /\ found[1].name = "home"
    /\ \A i, j \in 1..Len(found) : i < j =>
         /\ found[i].page # found[j].page
         /\ found[i].name = found[j].name =>
              groups = <<>> /\ (found[j].name = None \/ found[j].name = "home")

\* The first c of the merged pages have been looked at, and the others are left.
Merged(c) ==
    /\ \A p \in 1..c : Taken(Surface(Interleaved[p]))
    /\ \A n \in 2..Len(found) : \E p \in 1..c : found[n] = Surface(Interleaved[p])
Left(c) ==
    /\ rest \in Seq(Urls) /\ Len(rest) = Len(Interleaved) - c
    /\ \A j \in 1..Len(rest) : rest[j] = Interleaved[c + j]

FoundInv ==
    /\ pc \in {"robots", "walk", "urls", "browse", "links", "done", "failed"}
    /\ pc \in {"robots", "walk", "browse", "failed"} => found = None
    /\ pc \in {"browse", "links"} => groups = <<>>
    /\ pc \in {"urls", "links"} => EachOnce
    /\ pc = "urls" => \E c \in 0..Len(Interleaved) : Merged(c) /\ Left(c)
    /\ pc = "done" /\ found # None =>
         EachOnce /\ (groups # <<>> => \E c \in 0..Len(Interleaved) : Merged(c))

LEMMA InitFound == Init => FoundInv
BY DEF Init, FoundInv

LEMMA WalkGroups == WalkInv => Grouped
BY DEF WalkInv, Types, Budgets, Grouped

\* A surface is kept at the end.
LEMMA KeepIs ==
  ASSUME EachOnce, NEW s, found' = Append(found, s)
  PROVE  /\ Len(found) \in Nat \ {0} /\ Len(found') = Len(found) + 1
         /\ \E S : found' \in Seq(S)
         /\ \A i \in 1..Len(found) : found'[i] = found[i]
         /\ found'[Len(found) + 1] = s
         /\ Pages(found') = Pages(found) \cup {s.page} /\ Names(found') = Names(found) \cup {s.name}
         /\ \A i \in 1..Len(found) : found[i].page \in Pages(found) /\ found[i].name \in Names(found)
<1>1. PICK S : found \in Seq(S)
  BY DEF EachOnce
<1>2. PICK T : T = S \cup {s}
  OBVIOUS
<1>3. found \in Seq(T) /\ s \in T
  BY <1>1, <1>2, SeqMonotonic
<1>4. Appended(T, found, s, found')
  BY <1>3, AppendIs
<1>5. PICK n \in Nat \ {0} : n = Len(found)
  BY <1>3, EmptySeq DEF EachOnce
<1>6. /\ found' \in Seq(T) /\ Len(found') = n + 1
      /\ \A i \in 1..n : found'[i] = found[i]
      /\ found'[n + 1] = s
  BY <1>4, <1>5 DEF Appended
<1>7. DOMAIN found = 1..n /\ DOMAIN found' = 1..n \cup {n + 1}
  BY <1>3, <1>5, <1>6, LenProperties
<1>8. Pages(found') = Pages(found) \cup {s.page} /\ Names(found') = Names(found) \cup {s.name}
  BY <1>6, <1>7 DEF Pages, Names
<1>9. \A i \in 1..n : found[i].page \in Pages(found) /\ found[i].name \in Names(found)
  BY <1>7 DEF Pages, Names
<1> QED
  BY <1>5, <1>6, <1>8, <1>9

\* ... and is the only one of its page, and of its name unless nothing was listed.
LEMMA KeepsEachOnce ==
  ASSUME EachOnce, NEW s, found' = Append(found, s), groups' = groups,
         s.page \notin Pages(found),
         \A i \in 1..Len(found) : found[i].name = s.name =>
             groups = <<>> /\ (s.name = None \/ s.name = "home")
  PROVE  EachOnce'
<1>1. /\ Len(found) \in Nat \ {0} /\ Len(found') = Len(found) + 1
      /\ \E S : found' \in Seq(S)
      /\ \A i \in 1..Len(found) : found'[i] = found[i]
      /\ found'[Len(found) + 1] = s
      /\ \A i \in 1..Len(found) : found[i].page \in Pages(found)
  BY KeepIs
<1>2. PICK n \in Nat \ {0} : n = Len(found)
  BY <1>1
<1>3. /\ Len(found') = n + 1 /\ found'[n + 1] = s
      /\ \A i \in 1..n : found'[i] = found[i] /\ found[i].page # s.page
  BY <1>1, <1>2
<1>4. found' # <<>> /\ found'[1].name = "home"
  <2>1. Len(<<>>) = 0
    OBVIOUS
  <2>2. found' # <<>>
    BY <1>3, <2>1
  <2>3. 1 \in 1..n
    OBVIOUS
  <2> QED
    BY <1>3, <2>2, <2>3 DEF EachOnce
<1>5. ASSUME NEW i \in 1..(n + 1), NEW j \in 1..(n + 1), i < j
      PROVE  /\ found'[i].page # found'[j].page
             /\ found'[i].name = found'[j].name =>
                  groups = <<>> /\ (found'[j].name = None \/ found'[j].name = "home")
  <2>1. i \in 1..n
    BY <1>5
  <2>2. CASE j \in 1..n
    <3>1. found'[i] = found[i] /\ found'[j] = found[j]
      BY <1>3, <2>1, <2>2
    <3> QED
      BY <1>2, <1>5, <2>1, <2>2, <3>1 DEF EachOnce
  <2>3. CASE j = n + 1
    <3>1. found'[i] = found[i] /\ found'[j] = s /\ found[i].page # s.page
      BY <1>3, <2>1, <2>3
    <3> QED
      BY <1>2, <2>1, <3>1
  <2>4. j \in 1..n \/ j = n + 1
    OBVIOUS
  <2> QED
    BY <2>2, <2>3, <2>4
<1> QED
  BY <1>1, <1>3, <1>4, <1>5 DEF EachOnce

LEMMA QuietOnce == ASSUME EachOnce, UNCHANGED <<found, groups>> PROVE EachOnce'
BY DEF EachOnce

LEMMA HomeOnce ==
  ASSUME NEW home, found' = <<HomeSurface(home)>>
  PROVE  EachOnce' /\ Len(found') = 1
<1>1. PICK s : s = HomeSurface(home)
  OBVIOUS
<1>2. found' \in Seq({s}) /\ Len(found') = 1 /\ found' # <<>> /\ found'[1] = s
  BY <1>1
<1>3. s.name = "home"
  BY <1>1 DEF HomeSurface
<1>4. \A i, j \in 1..Len(found') : ~(i < j)
  BY <1>2
<1>5. \E S : found' \in Seq(S)
  BY <1>2
<1> QED
  BY <1>2, <1>3, <1>4, <1>5 DEF EachOnce

LEMMA MergeFinds == ASSUME WalkInv, FoundInv, Merge PROVE FoundInv'
<1> USE DEF Merge
<1>1. Interleaved' = Interleaved
  BY DEF Interleaved, RoundRobin, Column
<1>2. found = None
  BY DEF FoundInv
<1>3. CASE Interleaved # <<>>
  <2>1. EachOnce' /\ Len(found') = 1
    BY <1>3, HomeOnce
  <2>2. Interleaved \in Seq(Urls)
    BY WalkGroups, InterleavedIs
  <2>3. Merged(0)'
    BY <2>1 DEF Merged
  <2>4. Left(0)' /\ 0 \in 0..Len(Interleaved')
    <3>1. rest' = Interleaved /\ Len(Interleaved) \in Nat
      BY <1>3, <2>2, LenProperties
    <3> QED
      BY <1>1, <2>2, <3>1 DEF Left
  <2> QED
    BY <1>3, <2>1, <2>3, <2>4 DEF FoundInv
<1>4. CASE Interleaved = <<>>
  <2>1. groups = <<>>
    BY <1>4, WalkGroups, NothingListed
  <2>2. found' = None /\ groups' = <<>> /\ pc' \in {"browse", "done"}
    BY <1>2, <1>4, <2>1
  <2> QED
    BY <2>2 DEF FoundInv
<1> QED
  BY <1>3, <1>4

\* What is taken stays taken.
LEMMA TakenStays ==
  ASSUME NEW s, Taken(s), Pages(found) \subseteq Pages(found'), Names(found) \subseteq Names(found')
  PROVE  Taken(s)'
BY DEF Taken

LEMMA KeepUrlFinds == ASSUME WalkInv, FoundInv, KeepUrl PROVE FoundInv'
<1>1. pc = "urls" /\ pc' = "urls" /\ rest # <<>> /\ rest' = Tail(rest) /\ groups' = groups
  BY DEF KeepUrl
<1>2. Interleaved' = Interleaved
  BY <1>1 DEF Interleaved, RoundRobin, Column
<1>3. EachOnce
  BY <1>1 DEF FoundInv
<1>4. PICK c \in 0..Len(Interleaved) : Merged(c) /\ Left(c)
  BY <1>1 DEF FoundInv
<1>5. PICK len \in Nat : len = Len(Interleaved)
  BY WalkGroups, InterleavedIs, LenProperties
<1>6. PICK s : s = Surface(Head(rest))
  OBVIOUS
<1>7. rest \in Seq(Urls) /\ Len(rest) = len - c /\ \A j \in 1..Len(rest) : rest[j] = Interleaved[c + j]
  BY <1>4, <1>5 DEF Left
<1>8. Len(rest) \in Nat \ {0}
  BY <1>1, <1>7, EmptySeq
<1>9. c + 1 \in 0..len /\ s = Surface(Interleaved[c + 1])
  <2>1. Head(rest) = rest[1] /\ 1 \in 1..Len(rest)
    BY <1>8
  <2> QED
    BY <1>5, <1>6, <1>7, <1>8, <2>1
<1>10. Left(c + 1)'
  <2>1. /\ Tail(rest) \in Seq(Urls) /\ Len(Tail(rest)) = Len(rest) - 1
        /\ \A j \in 1..Len(Tail(rest)) : Tail(rest)[j] = rest[j + 1]
    BY <1>1, <1>7, HeadTailProperties
  <2>2. \A j \in 1..Len(Tail(rest)) : j + 1 \in 1..Len(rest) /\ c + (j + 1) = (c + 1) + j
    BY <1>5, <1>8, <2>1
  <2>3. \A j \in 1..Len(Tail(rest)) : Tail(rest)[j] = Interleaved[(c + 1) + j]
    BY <1>7, <2>1, <2>2
  <2>4. Len(Tail(rest)) = len - (c + 1)
    BY <1>5, <1>7, <1>8, <2>1
  <2> QED
    BY <1>1, <1>2, <1>5, <2>1, <2>3, <2>4 DEF Left
<1>11. EachOnce' /\ Merged(c + 1)'
  <2>1. CASE Taken(s)
    <3>1. found' = found
      BY <1>6, <2>1 DEF KeepUrl
    <3>2. EachOnce'
      BY <1>1, <1>3, <3>1, QuietOnce
    <3>3. \A p \in 1..(c + 1) : Taken(Surface(Interleaved[p]))
      BY <1>4, <1>5, <1>9, <2>1 DEF Merged
    <3>4. \A n \in 2..Len(found) : \E p \in 1..(c + 1) : found[n] = Surface(Interleaved[p])
      <4>1. \A p \in 1..c : p \in 1..(c + 1)
        BY <1>5
      <4> QED
        BY <1>4, <4>1 DEF Merged
    <3>5. Merged(c + 1)'
      BY <1>2, <3>1, <3>3, <3>4 DEF Merged, Taken, Surface
    <3> QED
      BY <3>2, <3>5
  <2>2. CASE ~Taken(s)
    <3>1. found' = Append(found, s)
      BY <1>6, <2>2 DEF KeepUrl, Keep
    <3>2. /\ Len(found) \in Nat \ {0} /\ Len(found') = Len(found) + 1
          /\ \A i \in 1..Len(found) : found'[i] = found[i]
          /\ found'[Len(found) + 1] = s
          /\ Pages(found') = Pages(found) \cup {s.page} /\ Names(found') = Names(found) \cup {s.name}
          /\ \A i \in 1..Len(found) : found[i].name \in Names(found)
      BY <1>3, <3>1, KeepIs
    <3>3. s.page \notin Pages(found) /\ \A i \in 1..Len(found) : found[i].name # s.name
      BY <2>2, <3>2 DEF Taken
    <3>4. EachOnce'
      BY <1>1, <1>3, <3>1, <3>3, KeepsEachOnce
    <3>5. ASSUME NEW p \in 1..(c + 1) PROVE Taken(Surface(Interleaved[p]))'
      <4>1. CASE p \in 1..c
        <5>1. PICK x : x = Surface(Interleaved[p])
          OBVIOUS
        <5>2. Taken(x)
          BY <1>4, <4>1, <5>1 DEF Merged
        <5>3. Taken(x)'
          BY <3>2, <5>2, TakenStays
        <5> QED
          BY <1>2, <5>1, <5>3 DEF Surface, Taken
      <4>2. CASE p = c + 1
        <5>1. s.page \in Pages(found')
          BY <3>2
        <5> QED
          BY <1>2, <1>9, <4>2, <5>1 DEF Surface, Taken
      <4> QED
        BY <1>5, <4>1, <4>2
    <3>6. ASSUME NEW n \in 2..Len(found')
          PROVE  \E p \in 1..(c + 1) : found'[n] = Surface(Interleaved[p])
      <4>1. CASE n \in 2..Len(found)
        <5>1. PICK p \in 1..c : found[n] = Surface(Interleaved[p])
          BY <1>4, <4>1 DEF Merged
        <5>2. p \in 1..(c + 1) /\ found'[n] = found[n]
          BY <1>5, <3>2, <4>1
        <5> QED
          BY <5>1, <5>2
      <4>2. CASE n = Len(found) + 1
        <5>1. c + 1 \in 1..(c + 1)
          BY <1>5
        <5> QED
          BY <1>9, <3>2, <4>2, <5>1
      <4> QED
        BY <3>2, <4>1, <4>2
    <3>7. Merged(c + 1)'
      BY <1>2, <3>5, <3>6 DEF Merged, Surface
    <3> QED
      BY <3>4, <3>7
  <2> QED
    BY <2>1, <2>2
<1>12. c + 1 \in 0..Len(Interleaved')
  BY <1>2, <1>5, <1>9
<1> QED
  BY <1>1, <1>10, <1>11, <1>12 DEF FoundInv

LEMMA BrowseFinds == ASSUME FoundInv, Browse PROVE FoundInv'
<1>1. pc = "browse" /\ found = None /\ groups = <<>> /\ groups' = <<>>
  BY DEF Browse, FoundInv
<1>2. CASE pc' = "done" /\ UNCHANGED <<rest, found>>
  BY <1>1, <1>2 DEF FoundInv
<1>3. CASE pc' = "links" /\ rest' = site.links /\ found' = <<HomeSurface(site.final.page)>>
  <2>1. EachOnce'
    BY <1>3, HomeOnce
  <2> QED
    BY <1>1, <1>3, <2>1 DEF FoundInv
<1> QED
  BY <1>2, <1>3 DEF Browse

LEMMA KeepLinkFinds == ASSUME FoundInv, KeepLink PROVE FoundInv'
<1>1. pc = "links" /\ pc' = "links" /\ groups = <<>> /\ groups' = groups /\ EachOnce
  BY DEF KeepLink, FoundInv
<1>2. PICK link : link = Head(rest)
  OBVIOUS
<1>3. CASE found' = found
  BY <1>1, <1>3, QuietOnce DEF FoundInv
<1>4. CASE found' # found
  <2>1. /\ link.page \notin Pages(found) /\ link.name \notin Names(Tail(found)) \ {None}
        /\ found' = Append(found, [page |-> link.page, name |-> link.name])
    BY <1>2, <1>4 DEF KeepLink, Keep
  <2>2. PICK s : s = [page |-> link.page, name |-> link.name]
    OBVIOUS
  <2>3. s.page = link.page /\ s.name = link.name
    BY <2>2
  <2>4. ASSUME NEW i \in 1..Len(found), found[i].name = s.name
        PROVE  s.name = None \/ s.name = "home"
    <3>1. CASE i = 1
      BY <1>1, <2>4, <3>1 DEF EachOnce
    <3>2. CASE i # 1
      <4>1. PICK S : found \in Seq(S)
        BY <1>1 DEF EachOnce
      <4>2. PICK n \in Nat : n = Len(found)
        BY <4>1, LenProperties
      <4>3. PICK tail : tail = Tail(found)
        OBVIOUS
      <4>4. tail \in Seq(S) /\ Len(tail) = n - 1 /\ \A k \in 1..(n - 1) : tail[k] = found[k + 1]
        <5>1. found # <<>>
          BY <1>1 DEF EachOnce
        <5>2. /\ Tail(found) \in Seq(S) /\ Len(Tail(found)) = Len(found) - 1
              /\ \A k \in 1..Len(Tail(found)) : Tail(found)[k] = found[k + 1]
          BY <4>1, <5>1, HeadTailProperties
        <5> QED
          BY <4>2, <4>3, <5>2
      <4>5. i - 1 \in 1..(n - 1) /\ (i - 1) + 1 = i
        BY <3>2, <4>2
      <4>6. tail[i - 1].name = s.name /\ i - 1 \in DOMAIN tail
        BY <2>4, <4>4, <4>5, LenProperties
      <4>7. s.name \in Names(tail)
        BY <4>6 DEF Names
      <4> QED
        BY <2>1, <2>3, <4>3, <4>7
    <3> QED
      BY <3>1, <3>2
  <2>5. found' = Append(found, s) /\ s.page \notin Pages(found)
    BY <2>1, <2>2, <2>3
  <2>6. EachOnce'
    BY <1>1, <2>4, <2>5, KeepsEachOnce
  <2> QED
    BY <1>1, <2>6 DEF FoundInv
<1> QED
  BY <1>3, <1>4

\* The steps before the merge find nothing, and the last ones keep what there is.
LEMMA FoundStep == WalkInv /\ FoundInv /\ [Next]_vars => FoundInv'
<1> SUFFICES ASSUME WalkInv, FoundInv, [Next]_vars PROVE FoundInv'
  OBVIOUS
<1>1. ASSUME Robots \/ Skip \/ Miss \/ Read PROVE FoundInv'
  <2>1. pc \in {"robots", "walk"} /\ pc' = "walk" /\ found' = found
    BY <1>1 DEF Robots, Skip, Miss, Read, Walking
  <2> QED
    BY <2>1 DEF FoundInv
<1>2. ASSUME UNCHANGED <<groups, found, rest>>, Return \/ pc' = pc PROVE FoundInv'
  <2>1. Interleaved' = Interleaved
    BY <1>2 DEF Interleaved, RoundRobin, Column
  <2>2. EachOnce => EachOnce'
    BY <1>2, QuietOnce
  <2>3. \A c : (Merged(c) => Merged(c)') /\ (Left(c) => Left(c)')
    BY <1>2, <2>1 DEF Merged, Left, Taken, Surface
  <2>4. CASE pc' = pc
    BY <1>2, <2>1, <2>2, <2>3, <2>4 DEF FoundInv
  <2>5. CASE Return
    <3>1. pc \in {"urls", "links"} /\ pc' = "done"
      BY <2>5 DEF Return
    <3> QED
      BY <1>2, <2>1, <2>2, <2>3, <3>1 DEF FoundInv
  <2> QED
    BY <1>2, <2>4, <2>5
<1>4. ASSUME BreakOff \/ StumbleOnLink PROVE FoundInv'
  BY <1>4 DEF BreakOff, StumbleOnLink, Fail, FoundInv
<1>3. Return \/ UNCHANGED vars => UNCHANGED <<groups, found, rest>> /\ (Return \/ pc' = pc)
  BY DEF Return, vars
<1> QED
  BY <1>1, <1>2, <1>3, <1>4, MergeFinds, KeepUrlFinds, BrowseFinds, KeepLinkFinds DEF Next

LEMMA OnceSuffices == FoundInv => OneEach
<1> SUFFICES ASSUME FoundInv, found # None PROVE OneEach
  BY DEF OneEach
<1>1. EachOnce
  BY DEF FoundInv
<1>2. DOMAIN found = 1..Len(found)
  BY <1>1, LenProperties DEF EachOnce
<1> QED
  BY <1>1, <1>2 DEF EachOnce, OneEach

LEMMA NoCrowd == WalkInv /\ FoundInv => NoneIsCrowdedOut
<1> SUFFICES ASSUME WalkInv, FoundInv, pc = "done", found # None, groups # <<>>,
                    NEW n \in 2..Len(found)
             PROVE  \E b \in Listings :
                      /\ Surface(groups[b[1]].urls[b[2]]) = found[n]
                      /\ \A a \in Listings : Sooner(a, b) => Taken(Surface(groups[a[1]].urls[a[2]]))
  BY DEF NoneIsCrowdedOut
<1>1. PICK c \in 0..Len(Interleaved) : Merged(c)
  BY DEF FoundInv
<1>2. PICK p \in 1..c : found[n] = Surface(Interleaved[p])
  BY <1>1 DEF Merged
<1>3. Interleaved \in Seq(Urls) /\ Len(Interleaved) \in Nat
  BY WalkGroups, InterleavedIs, LenProperties
<1>4. p \in 1..Len(Interleaved)
  BY <1>3
<1>5. PICK b \in Listings :
        /\ Page(b) = Interleaved[p]
        /\ \A a \in Listings : Sooner(a, b) => \E q \in 1..(p - 1) : Interleaved[q] = Page(a)
  BY <1>4, WalkGroups, InterleavedIs
<1>6. ASSUME NEW a \in Listings, Sooner(a, b) PROVE Taken(Surface(Page(a)))
  <2>1. PICK q \in 1..(p - 1) : Interleaved[q] = Page(a)
    BY <1>5, <1>6
  <2>2. q \in 1..c
    BY <1>3
  <2>3. Taken(Surface(Interleaved[q]))
    BY <1>1, <2>2 DEF Merged
  <2> QED
    BY <2>1, <2>3
<1> QED
  BY <1>2, <1>5, <1>6 DEF Page

\* However the pages of a site are listed and named, and whatever its links: the
\* home page comes first, a page has one surface, and a name one page but for
\* what only the browser finds.
THEOREM SurfacesAreApart == Spec => []OneEach
<1>1. Init => WalkInv /\ FoundInv
  BY InitWalks, InitFound
<1>2. WalkInv /\ FoundInv /\ [Next]_vars => WalkInv' /\ FoundInv'
  BY WalkStep, FoundStep
<1>3. FoundInv => OneEach
  BY OnceSuffices
<1> QED
  BY <1>1, <1>2, <1>3, PTL DEF Spec

\* No page of a worse sitemap, nor one lower down in a sitemap as good, is kept
\* in the place of a page whose address and name are still free.
THEOREM BestComeFirst == Spec => []NoneIsCrowdedOut
<1>1. Init => WalkInv /\ FoundInv
  BY InitWalks, InitFound
<1>2. WalkInv /\ FoundInv /\ [Next]_vars => WalkInv' /\ FoundInv'
  BY WalkStep, FoundStep
<1>3. WalkInv /\ FoundInv => NoneIsCrowdedOut
  BY NoCrowd
<1> QED
  BY <1>1, <1>2, <1>3, PTL DEF Spec

=============================================================================
