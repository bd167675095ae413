--------------------------- MODULE MCSurfaceWatch ---------------------------
(* Model checking of SurfaceWatch: five pages of a site, of which the cap   *)
(* lets two be watched; two rows are its homepage.                          *)
EXTENDS SurfaceWatch, TLC

MCPages == 1..5
MCPage == <<
    [id |-> 1, url |-> <<"site", "/", "collections", "/", "sale26">>, name |-> {"shop"}, type |-> "pricing"],
    [id |-> 2, url |-> <<"www.", "site", "/">>, name |-> {}, type |-> "other"],
    [id |-> 3, url |-> <<"site", "/", "?", "ref">>, name |-> {}, type |-> "other"],
    [id |-> 4, url |-> <<"site", "/", "products", "/", "shoe", "#", "top">>, name |-> {"sale"}, type |-> "product"],
    [id |-> 5, url |-> <<"site", "/", "blog">>, name |-> {}, type |-> "blog"] >>
Size == [collections |-> 11, sale26 |-> 6, products |-> 8, shoe |-> 4, blog |-> 4]
MCLength(path) ==
    IF path = <<>> THEN 0 ELSE FoldSeq(LAMBDA w, n : Size[w] + n, Len(path) - 1, path)
MCTokens == [w \in DOMAIN Size |-> IF w = "sale26" THEN {"sale26", "sale"} ELSE {w}]
MCPhrases == [w \in DOMAIN Size |-> {}]
MCCaps == <<4, 3, 2>>
MCListings == {{1, 2}, {2, 3, 4}, {1, 4, 5}, {3, 5}}

\* Which request and which discovery it is makes no difference.
Alike == Permutations(Requests) \cup Permutations(Discoveries)

=============================================================================
