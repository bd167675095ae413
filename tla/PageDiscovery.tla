--------------------------- MODULE PageDiscovery ---------------------------
(***************************************************************************)
(* How the pages of a new competitor are found: robots.txt, a walk over    *)
(* the sitemaps it names with a budget of fetches and of pages, the merge  *)
(* of what each of them lists, and the cut to the pages that are kept.     *)
(* The browser is tried where it is enabled and no sitemap lists a page.   *)
(* Most of what cannot be read is passed over; a body that is gzip cut     *)
(* short, or an address that cannot be parsed, ends the discovery.         *)
(***************************************************************************)
EXTENDS Integers, FiniteSets, Sequences, SequencesExt

CONSTANTS
    Sitemaps,        \* addresses of sitemaps
    Tier,            \* _priority of an address, 0 (best) to 3
    Conventional,    \* the two addresses tried when robots.txt names none
    Urls,            \* addresses of pages, as sitemaps and links have them
    Url,             \* address -> [page, host, name]: what normalize_url, the host
                     \* comparison and _name_from_url make of it
    Home,            \* the address the user typed
    None,            \* no normal form, no name
    Malformed,       \* urlsplit raises ValueError: the page of such an address
    Sites,           \* what a site may serve: [robots, doc, final, links]
    MaxFetches,      \* _MAX_SITEMAPS_FETCHED (12)
    MaxUrls,         \* _MAX_URLS (500)
    MaxDiscovered    \* _MAX_DISCOVERED (40)

ASSUME DiscoveryAssumption ==
    /\ IsFiniteSet(Sitemaps) /\ Tier \in [Sitemaps -> 0..3]
    /\ Conventional \in Seq(Sitemaps) /\ Conventional # <<>>
    /\ \A s \in Sites : /\ s.robots \in Seq(Sitemaps)
                        /\ s.doc \in [Sitemaps -> Seq([kind : {"sitemap"}, url : Sitemaps]
                                                     \cup [kind : {"url"}, url : Urls])]
    /\ Home \in Urls /\ Url[Home].page # Malformed
    /\ {MaxFetches, MaxUrls, MaxDiscovered} \subseteq Nat \ {0}

VARIABLES
    site,        \* what the site serves
    enabled,     \* enable_browser_discovery
    pc,          \* "robots", "walk", "urls", "browse", "links", "done", "failed"
    queue,       \* sitemaps to read
    seen,        \* seen_sitemaps
    fetches,
    groups,      \* what each sitemap listed, [tier, urls]
    found,       \* the surfaces, or None: SurfaceDiscoveryError, or what failed it
    rest,        \* urls or links the loop has yet to look at
    missed       \* bookkeeping: sitemaps that could not be fetched

vars == <<site, enabled, pc, queue, seen, fetches, groups, found, rest, missed>>

Init ==
    /\ site \in Sites /\ enabled \in BOOLEAN
    /\ pc = "robots" /\ queue = <<>> /\ seen = {} /\ fetches = 0
    /\ groups = <<>> /\ found = None /\ rest = <<>> /\ missed = {}

(***************************************************************************)
(* The walk.                                                               *)
(***************************************************************************)

\* robots.txt may be missing, or silent.
Robots ==
    /\ pc = "robots" /\ pc' = "walk"
    /\ queue' \in {Conventional, IF site.robots = <<>> THEN Conventional ELSE site.robots}
    /\ UNCHANGED <<site, enabled, seen, fetches, groups, found, rest, missed>>

Listed == UNION {Range(groups[i].urls) : i \in DOMAIN groups}

Walking == pc = "walk" /\ queue # <<>> /\ fetches < MaxFetches /\ Cardinality(Listed) < MaxUrls

\* The first of the best tier: the queue is sorted, stably, before each pop.
BestQueued ==
    CHOOSE i \in DOMAIN queue : \A j \in DOMAIN queue :
        \/ Tier[queue[i]] < Tier[queue[j]]
        \/ Tier[queue[i]] = Tier[queue[j]] /\ i <= j

\* Mutant: looked at, and left in the queue.
SkipPeek ==
    /\ Walking /\ queue[BestQueued] \in seen
    /\ UNCHANGED vars

\* Listed by two indexes before it was read.
Skip ==
    /\ Walking /\ queue[BestQueued] \in seen
    /\ queue' = RemoveAt(queue, BestQueued)
    /\ UNCHANGED <<site, enabled, pc, seen, fetches, groups, found, rest, missed>>

\* RequestException, a status that is not 200, too many bytes, or gzip that
\* begins badly: OSError.
Miss ==
    LET sitemap == queue[BestQueued]
    IN /\ Walking /\ sitemap \notin seen
       /\ queue' = RemoveAt(queue, BestQueued)
       /\ seen' = seen \cup {sitemap} /\ missed' = missed \cup {sitemap}
       /\ fetches' = fetches + 1
       /\ UNCHANGED <<site, enabled, pc, groups, found, rest>>

same_site(url) == Url[url].host = Url[Home].host

\* Mutant: an index is not read beyond its own pages.
EnqueueNone(read, sitemap) == read

Enqueue(read, sitemap) ==
    IF sitemap \in read.seen THEN read ELSE [read EXCEPT !.queue = Append(@, sitemap)]

ListPage(read, url) ==
    IF Url[url].page = Malformed THEN [read EXCEPT !.fails = TRUE]
    ELSE IF ~same_site(url) \/ url \in Listed \cup Range(read.group) THEN read
    ELSE [read EXCEPT !.group = Append(@, url)]

\* One entry of a sitemap; what follows the last page of the budget, or an
\* address that cannot be parsed, is not read.
Entry(read, entry) ==
    IF read.fails \/ Cardinality(Listed) + Len(read.group) >= MaxUrls THEN read
    ELSE IF entry.kind = "sitemap" THEN Enqueue(read, entry.url) ELSE ListPage(read, entry.url)

Entries(start, entries) ==
    LET read[k \in 0..Len(entries)] == IF k = 0 THEN start ELSE Entry(read[k - 1], entries[k])
    IN read[Len(entries)]

ReadOf(sitemap) ==
    Entries([queue |-> RemoveAt(queue, BestQueued), group |-> <<>>,
             seen |-> seen \cup {sitemap}, fails |-> FALSE], site.doc[sitemap])

\* A document that is malformed has no entries.
Read ==
    LET sitemap == queue[BestQueued]
        read == ReadOf(sitemap)
    IN /\ Walking /\ sitemap \notin seen /\ ~read.fails
       /\ queue' = read.queue /\ seen' = read.seen
       /\ fetches' = fetches + 1
       /\ groups' = IF read.group = <<>> THEN groups
                    ELSE Append(groups, [tier |-> Tier[sitemap], urls |-> read.group])
       /\ UNCHANGED <<site, enabled, pc, found, rest, missed>>

\* What was found so far is lost, and the browser is not tried.
Fail ==
    /\ pc' = "failed" /\ found' = None
    /\ UNCHANGED <<site, enabled, queue, seen, fetches, groups, rest, missed>>

\* What no handler on the way catches: EOFError or zlib.error of a gzip body that
\* is cut short or corrupt, that of robots.txt too; and ValueError of urlsplit,
\* which leaves a sitemap that has such an entry no Read.
BreakOff == (pc = "robots" \/ (Walking /\ queue[BestQueued] \notin seen)) /\ Fail

(***************************************************************************)
(* The merge and the cut.                                                  *)
(***************************************************************************)

\* Mutant: one sitemap after the other.
Concatenated(tier) ==
    FlattenSeq([i \in DOMAIN groups |-> IF groups[i].tier = tier THEN groups[i].urls ELSE <<>>])

\* The k-th page of each group of the tier that has so many.
Column(tier, k) ==
    FlattenSeq([i \in DOMAIN groups |->
        IF groups[i].tier = tier /\ k <= Len(groups[i].urls) THEN <<groups[i].urls[k]>> ELSE <<>>])

\* The first of every group, then the second, ...: none has more than MaxUrls.
RoundRobin(tier) == FlattenSeq([k \in 1..MaxUrls |-> Column(tier, k)])

Interleaved == FlattenSeq([t \in 1..4 |-> RoundRobin(t - 1)])

Surface(url) == [page |-> Url[url].page, name |-> Url[url].name]
HomeSurface(home) == [page |-> home, name |-> "home"]

Pages(surfaces) == {surfaces[i].page : i \in DOMAIN surfaces}
Names(surfaces) == {surfaces[i].name : i \in DOMAIN surfaces}

Keep(surface) == found' = Append(found, surface)
Full == Len(found) >= MaxDiscovered

Merge ==
    /\ pc = "walk" /\ ~Walking
    /\ IF Interleaved # <<>>
       THEN pc' = "urls" /\ rest' = Interleaved /\ found' = <<HomeSurface(Url[Home].page)>>
       ELSE pc' = (IF enabled THEN "browse" ELSE "done") /\ UNCHANGED <<rest, found>>
    /\ UNCHANGED <<site, enabled, queue, seen, fetches, groups, missed>>

\* Mutant: pages that have one name are kept apart.
TakenAddress(s) == s.page \in {None} \cup Pages(found) \/ s.name = None

\* A page without a path has no name, and a name is kept once.
Taken(s) == s.page \in {None} \cup Pages(found) \/ s.name \in {None} \cup Names(found)

KeepUrl ==
    /\ pc = "urls" /\ rest # <<>> /\ ~Full
    /\ LET s == Surface(Head(rest)) IN IF Taken(s) THEN UNCHANGED found ELSE Keep(s)
    /\ rest' = Tail(rest)
    /\ UNCHANGED <<site, enabled, pc, queue, seen, fetches, groups, missed>>

\* The browser fails, or ends at some address and reads the links there.
Browse ==
    /\ pc = "browse"
    /\ \/ pc' = "done" /\ UNCHANGED <<rest, found>>
       \/ pc' = "links" /\ rest' = site.links /\ found' = <<HomeSurface(site.final.page)>>
    /\ UNCHANGED <<site, enabled, queue, seen, fetches, groups, missed>>

\* A link stays on that very host.  Its text is its name, if it has one; the
\* name of the home page is not taken.
KeepLink ==
    /\ pc = "links" /\ rest # <<>> /\ ~Full
    /\ Head(rest).page # Malformed
    /\ LET link == Head(rest)
       IN IF \/ link.page \in {None} \cup Pages(found)
             \/ link.netloc # site.final.netloc
             \/ link.name \in Names(Tail(found)) \ {None}
          THEN UNCHANGED found ELSE Keep([page |-> link.page, name |-> link.name])
    /\ rest' = Tail(rest)
    /\ UNCHANGED <<site, enabled, pc, queue, seen, fetches, groups, missed>>

\* normalize_url raises, outside of any handler.
StumbleOnLink ==
    /\ pc = "links" /\ rest # <<>> /\ ~Full /\ Head(rest).page = Malformed
    /\ Fail

Return ==
    /\ pc \in {"urls", "links"} /\ (rest = <<>> \/ Full)
    /\ pc' = "done"
    /\ UNCHANGED <<site, enabled, queue, seen, fetches, groups, found, rest, missed>>

Next ==
    \/ Robots \/ Skip \/ Miss \/ Read \/ BreakOff \/ Merge
    \/ KeepUrl \/ Browse \/ KeepLink \/ StumbleOnLink \/ Return

\* The job that discovers goes on while its thread runs.
Spec == Init /\ [][Next]_vars /\ WF_vars(Next)

(***************************************************************************)
(* Properties.                                                             *)
(***************************************************************************)

\* The places pages are listed at, each page once.
Listings == {at \in (DOMAIN groups) \X (1..MaxUrls) : at[2] <= Len(groups[at[1]].urls)}

Walked == pc \notin {"robots", "walk", "failed"}

\* "Handles a plain urlset, a sitemap index, and an index of indexes"
\* (sitemap_discovery_service.py:229): the walk asks for no sitemap twice, lists
\* no page twice and keeps its budgets; short of them, a walk that nothing broke
\* off has asked for every sitemap that one it read names and listed every page
\* of the site, whatever indexes name each other and whatever it missed.  It
\* has met no address that cannot be parsed: one of those is not "an individual
\* miss" (line 118), it fails the discovery and all the pages found before it.
WalkIsComplete ==
    /\ fetches = Cardinality(seen) /\ fetches <= MaxFetches
    /\ Cardinality(Listings) = Cardinality(Listed) /\ Cardinality(Listed) <= MaxUrls
    /\ Walked /\ fetches < MaxFetches /\ Cardinality(Listed) < MaxUrls =>
        /\ \E declared \in {Conventional, site.robots} :
               declared # <<>> /\ Range(declared) \subseteq seen
        /\ \A s \in seen \ missed : \A entry \in Range(site.doc[s]) :
               IF entry.kind = "sitemap" THEN entry.url \in seen
               ELSE /\ Url[entry.url].page # Malformed
                    /\ same_site(entry.url) => entry.url \in Listed

Sooner(a, b) ==
    \/ groups[a[1]].tier < groups[b[1]].tier
    \/ groups[a[1]].tier = groups[b[1]].tier /\ a[2] < b[2]
\* "Round-robin inside a tier stops one large sitemap starving its peers.
\* Keeping the tiers separate" keeps products from the places of categories
\* (sitemap_discovery_service.py:208-213): a page is kept only when each page of
\* a better sitemap, and each one higher up in a sitemap as good, was kept or
\* has its address or its name kept.
NoneIsCrowdedOut ==
    pc = "done" /\ found # None /\ groups # <<>> =>
        \A n \in 2..Len(found) : \E b \in Listings :
            /\ Surface(groups[b[1]].urls[b[2]]) = found[n]
            /\ \A a \in Listings : Sooner(a, b) => Taken(Surface(groups[a[1]].urls[a[2]]))

\* The home page "always comes first and always counts"
\* (surface_discovery_service.py:268), a page has one surface, and a name one
\* page: only the browser finds pages without a name, or a second "Home".
OneEach ==
    found # None =>
        /\ found[1].name = "home"
        /\ \A i, j \in DOMAIN found : i < j =>
             /\ found[i].page # found[j].page
             /\ found[i].name = found[j].name =>
                  groups = <<>> /\ (found[j].name = None \/ found[j].name = "home")

\* A walk ends, among indexes that name each other or themselves.
WalkEnds == <>(pc \in {"done", "failed"})

=============================================================================
