-------------------------- MODULE MCPageDiscovery --------------------------
(* Model checking of PageDiscovery: a shop with an index that names itself, *)
(* an index of the index, and sitemaps of three kinds, one of them with an  *)
(* address that cannot be parsed.                                           *)
EXTENDS PageDiscovery, TLC

MCSitemaps == {"sitemap", "sitemap_index", "deep", "pages", "collections", "blog", "products"}
MCTier == [s \in MCSitemaps |->
    CASE s \in {"pages", "collections"} -> 0 [] s = "blog" -> 1 [] s = "products" -> 3 [] OTHER -> 2]
MCConventional == <<"sitemap", "sitemap_index">>

\* normalize_url drops a fragment, not www.; about and about2 read "About".
Of(page, host, name) == [page |-> page, host |-> host, name |-> name]
MCUrl == "/" :> Of("/", "shop", None) @@ "apex/" :> Of("apex/", "shop", None)
    @@ "about" :> Of("about", "shop", "about") @@ "about#us" :> Of("about", "shop", "about")
    @@ "about2" :> Of("about2", "shop", "about") @@ "pages/home" :> Of("pages/home", "shop", "home")
    @@ "sale" :> Of("sale", "shop", "sale") @@ "new" :> Of("new", "shop", "new")
    @@ "contact" :> Of("contact", "shop", "contact") @@ "returns" :> Of("returns", "shop", "returns")
    @@ "sizes" :> Of("sizes", "shop", "sizes")
    @@ "news" :> Of("news", "shop", "news") @@ "sku1" :> Of("sku1", "shop", "sku1")
    @@ "sku2" :> Of("sku2", "shop", "sku2") @@ "cdn" :> Of("cdn", "cdn", "cdn")
    @@ "http://[" :> Of(Malformed, None, None)
MCUrls == DOMAIN MCUrl

To(s) == [kind |-> "sitemap", url |-> s]
P(u) == [kind |-> "url", url |-> u]

Index == {<<To("products"), To("sitemap"), To("collections"), P("sku1"), To("pages")>>,
          <<To("deep"), To("deep"), P("/")>>}
Second == {<<>>, <<To("sitemap"), To("collections"), P("cdn")>>}
Deep == {<<To("sitemap"), To("blog"), To("pages"), To("blog")>>}
Products == {<<P("sku1"), P("sku2")>>}
PagesOf == {<<P("apex/"), P("about"), P("about#us"), P("about2"), P("pages/home")>>,
            <<P("about"), P("contact"), P("cdn"), P("returns"), P("sizes")>>, <<P("cdn")>>}
Collections == {<<P("sale"), P("new"), P("about")>>, <<P("new"), P("http://["), P("sale")>>}
Docs == {"sitemap" :> i @@ "sitemap_index" :> j @@ "deep" :> d @@ "pages" :> p
         @@ "collections" :> c @@ "blog" :> <<P("news")>> @@ "products" :> s :
         i \in Index, j \in Second, d \in Deep, p \in PagesOf, c \in Collections, s \in Products}

Link(page, netloc, name) == [page |-> page, netloc |-> netloc, name |-> name]
Links == <<Link("/", "www.shop", "home"), Link("pages/home", "www.shop", "home"),
           Link("sale", "www.shop", None), Link("new", "shop", "new"),
           Link("ready", "www.shop", "ready"), Link("ready-1", "www.shop", "ready"),
           Link(None, "www.shop", "mail"), Link("x", "www.shop", None), Link("y", "www.shop", "y")>>
Broken == <<Link("sale", "www.shop", None), Link(Malformed, None, "x"), Link("y", "www.shop", "y")>>

MCSites == {[robots |-> r, doc |-> d, final |-> [page |-> "/", netloc |-> "www.shop"], links |-> l] :
            r \in {<<>>, <<"products", "sitemap_index", "sitemap">>}, d \in Docs, l \in {Links, Broken}}

=============================================================================
