-------------------------- MODULE SurfaceSelection --------------------------
(***************************************************************************)
(* Which of a competitor's pages are watched: surface_selection.py, and    *)
(* the three migrations that carry frozen copies of it.  A page's address  *)
(* is the sequence of its words and of "/", "?" and "#", in lower case and *)
(* without its scheme; the tables of words are cut down to words that tell *)
(* the rules apart.                                                        *)
(***************************************************************************)
EXTENDS Integers, FiniteSets, Sequences, SequencesExt

CONSTANTS
    Pages,       \* rows of the table surfaces, ordered by their ids
    Page,        \* page -> [id, url, name, type]
    Length(_),   \* characters of a path
    Tokens,      \* word of a path -> the tokens _tokens makes of it
    Phrases,     \* word of a path -> the phrases of _PHRASE_ROLES in it
    Cap,         \* max_active_surfaces_per_competitor (3)
    Caps         \* _CAP of the migrations 0026, 0027 and 0028 (10, 5, 3)

SurfaceTypes == <<"pricing", "product", "changelog", "blog", "jobs", "other">>

(***************************************************************************)
(* An address and its parts, as urlsplit finds them.                       *)
(***************************************************************************)

\* Where the first of the delimiters D is, or the end.
FirstOf(D, url) ==
    CHOOSE k \in 1..(Len(url) + 1) : /\ k \in DOMAIN url => url[k] \in D
                                     /\ \A j \in 1..(k - 1) : url[j] \notin D
Upto(D, url) == SubSeq(url, 1, FirstOf(D, url) - 1)
From(D, url) == SubSeq(url, FirstOf(D, url), Len(url))
Segments(path) == SelectSeq(path, LAMBDA w : w # "/")

netloc(url) == Upto({"/", "?", "#"}, url)
path_of(url) == Segments(Upto({"?", "#"}, From({"/", "?", "#"}, url)))

\* The frozen _path_of and _identity of 0028 go by the first "/" alone.
frozen_netloc(url) == Upto({"/"}, url)
frozen_path_of(url) == Segments(Upto({"?", "#"}, From({"/"}, url)))

ASSUME SelectionAssumption ==
    /\ IsFiniteSet(Pages) /\ Cap \in Nat /\ Caps \in Seq(Nat)
    /\ \A p \in Pages :
         /\ Page[p].url \in Seq(STRING) /\ Page[p].id \in Nat
         /\ Length(path_of(Page[p].url)) \in Nat
         /\ path_of(Page[p].url) \in Seq(DOMAIN Tokens) /\ Page[p].type \in Range(SurfaceTypes)
    /\ \A p, q \in Pages : Page[p].id = Page[q].id => p = q

\* HttpUrl and normalize_url write a "/" after the host of every address.
ASSUME AddressAssumption ==
    \A p \in Pages : \E k \in DOMAIN Page[p].url :
        Page[p].url[k] = "/" /\ \A j \in 1..(k - 1) : Page[p].url[j] \notin {"/", "?", "#"}

(***************************************************************************)
(* The role of a page.                                                     *)
(***************************************************************************)

homepage == 0
pricing == 1
products == 2
features == 3
sale == 4
new_arrivals == 5
category == 6
blog == 7
company == 8
unknown == 9
excluded == 99

ExcludedTokens == {"login", "policy", "test", "api"}
ListingSegments == {"collections", "shop"}
ItemSegments == {"product", "products", "p"}
RoleTokens == << [role |-> pricing, tokens |-> {"pricing", "plans"}],
                 [role |-> products, tokens |-> {"products", "shop"}],
                 [role |-> features, tokens |-> {"features", "product"}],
                 [role |-> sale, tokens |-> {"sale"}],
                 [role |-> new_arrivals, tokens |-> {"new"}],
                 [role |-> blog, tokens |-> {"blog"}],
                 [role |-> company, tokens |-> {"about", "store"}] >>
PhraseRoles == << [phrase |-> "how-it-works", role |-> features],
                  [phrase |-> "shop-by", role |-> category],
                  [phrase |-> "store-locator", role |-> company],
                  [phrase |-> "size-guide", role |-> excluded] >>

\* The first entry of a table that applies.
First(table, Applies(_)) ==
    table[CHOOSE i \in DOMAIN table : /\ Applies(table[i])
                                      /\ \A j \in 1..(i - 1) : ~Applies(table[j])].role
Some(table, Applies(_)) == \E i \in DOMAIN table : Applies(table[i])

PathTokens(path) == UNION {Tokens[w] : w \in Range(path)}
PathPhrases(path) == UNION {Phrases[w] : w \in Range(path)}

\* One product is not a page worth watching; the catalogue is.
IsItem(path) == \E i \in 1..(Len(path) - 1) : path[i] \in ItemSegments

classify_page_role(path, name) ==
    LET offered == PathTokens(path) \cup {Last(path)}
        InPath(e) == e.phrase \in PathPhrases(path)
        ByUrl(e) == offered \cap e.tokens # {}
        ByName(e) == name \cap e.tokens # {}
    IN IF path = <<>> THEN homepage
       ELSE IF PathTokens(path) \cap ExcludedTokens # {} \/ IsItem(path) THEN excluded
       ELSE IF Some(PhraseRoles, InPath) THEN First(PhraseRoles, InPath)
       ELSE IF Last(path) = "store" THEN products
       ELSE IF Some(RoleTokens, ByUrl) THEN First(RoleTokens, ByUrl)
       ELSE IF Head(path) \in ListingSegments THEN category
       ELSE IF Some(RoleTokens, ByName) THEN First(RoleTokens, ByName)
       ELSE unknown

(***************************************************************************)
(* The order of the pages and the cut.                                     *)
(***************************************************************************)

\* The order of tuples.
Less(a, b) == \E i \in DOMAIN a : a[i] < b[i] /\ \A j \in 1..(i - 1) : a[j] = b[j]

surface_rank(p, path) ==
    <<classify_page_role(path, Page[p].name), Len(path), Length(path), Page[p].id>>
Rank == [p \in Pages |-> surface_rank(p, path_of(Page[p].url))]
FrozenRank == [p \in Pages |-> surface_rank(p, frozen_path_of(Page[p].url))]

\* S in order; no two pages rank the same.
Ordered(S, rank) ==
    [i \in 1..Cardinality(S) |->
        CHOOSE p \in S : Cardinality({q \in S : Less(rank[q], rank[p])}) = i - 1]

Bare(host) == IF host # <<>> /\ Head(host) = "www." THEN Tail(host) ELSE host
IdentityOf(host, path) == <<Bare(host), path>>
Identity == [p \in Pages |-> IdentityOf(netloc(Page[p].url), path_of(Page[p].url))]

\* Mutant: the frozen copy does not see that two hosts are one.
FrozenByHost ==
    [p \in Pages |-> <<frozen_netloc(Page[p].url), frozen_path_of(Page[p].url)>>]

FrozenIdentity ==
    [p \in Pages |-> IdentityOf(frozen_netloc(Page[p].url), frozen_path_of(Page[p].url))]

\* Mutant: two rows of one page both take a place.
KeepTwins(list, p, rank, ident) ==
    IF rank[p][1] = excluded THEN list ELSE Append(list, p)

\* A page that is excluded, or whose twin has a place, has none.
Keep(list, p, rank, ident) ==
    IF rank[p][1] = excluded \/ \E q \in Range(list) : ident[p] = ident[q]
    THEN list ELSE Append(list, p)

\* Best first.
Walk(S, rank, ident) ==
    LET best == Ordered(S, rank)
        walk[i \in 0..Cardinality(S)] ==
            IF i = 0 THEN <<>> ELSE Keep(walk[i - 1], best[i], rank, ident)
    IN walk
Watchable(S, rank, ident) == Walk(S, rank, ident)[Cardinality(S)]

\* The first n.
UpTo(n, seq) == SubSeq(seq, 1, IF n < Len(seq) THEN n ELSE Len(seq))

\* partition_by_cap: the pages watched; the others of S are not.
Watched(S) == Range(UpTo(Cap, Watchable(S, Rank, Identity)))

(***************************************************************************)
(* What is promised: the best n pages that are not excluded, one per       *)
(* address.                                                                *)
(***************************************************************************)

Before(p, q) == Less(Rank[p], Rank[q])
Twins(p, q) == Identity[p] = Identity[q]
Worthy(S) == {p \in S : /\ Rank[p][1] # excluded
                        /\ \A q \in S : Twins(p, q) /\ p # q => Before(p, q)}
Best(n, S) == {p \in Worthy(S) : Cardinality({q \in Worthy(S) : Before(q, p)}) < n}

(***************************************************************************)
(* The migrations.  0026 and 0027 rank the watched pages by type and keep  *)
(* the first ones; 0028 chooses anew among all pages of the competitor, by *)
(* its own copy of the rules and its own cap.                              *)
(***************************************************************************)

TypePriority == [t \in Range(SurfaceTypes) |-> CHOOSE i \in 1..6 : SurfaceTypes[i] = t]

\* _is_homepage: nothing but slashes after the host, not even a query.
IsHomepage(url) ==
    \A i \in DOMAIN url : url[i] = "/" => \A j \in i..Len(url) : url[j] = "/"
TypeRank == [p \in Pages |->
    <<IF IsHomepage(Page[p].url) THEN 0 ELSE 1, TypePriority[Page[p].type], Page[p].id>>]

CapByType(n, active) == Range(UpTo(n, Ordered(active, TypeRank)))
CapByRole(n, rows) == Range(UpTo(n, Watchable(rows, FrozenRank, FrozenIdentity)))

\* The active pages once the database is at that revision.
Upgraded(revision, rows, active) ==
    IF revision < 28 THEN CapByType(Caps[revision - 25], active) ELSE CapByRole(Caps[3], rows)

=============================================================================
