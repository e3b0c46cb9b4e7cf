----------------------------- MODULE MCWorkspace -----------------------------
(* Instances of the workspace for TLC: what its panels and lists load is on *)
(* either side of every threshold.                                          *)
EXTENDS Workspace, TLC

\* Categories with their requests and share, and cities with theirs and the searches for
\* jobs and for providers: on either side of every threshold.
MCCategoryLists ==
  {<<>>, <<[requests |-> 2, share |-> 14]>>, <<[requests |-> 3, share |-> 14]>>,
   <<[requests |-> 3, share |-> 60], [requests |-> 2, share |-> 40]>>}

MCCity(r, j, p) == [requests |-> r, jobSearches |-> j, providerSearches |-> p]

MCCityLists ==
  {<<>>, <<MCCity(2, 0, 0)>>, <<MCCity(3, 2, 2)>>, <<MCCity(3, 0, 1), MCCity(2, 2, 3)>>,
   <<MCCity(2, 2, 3), MCCity(3, 1, 2)>>, <<MCCity(3, 0, 3)>>,
   <<MCCity(2, 1, 1), MCCity(2, 0, 2)>>}

\* Counts by stage, some of them larger than those of the stage before.
MCFunnel(a, b, c, d, e) ==
  ("requests" :> a) @@ ("offers" :> b) @@ ("responses" :> c) @@ ("contracts" :> d)
    @@ ("completed" :> e)

MCMarketFunnels ==
  {MCFunnel(4, 6, 6, 1, 1)} \union {MCFunnel(10, b, 6, 6, e) : b \in {0, 6}, e \in {1, 6}}

MCViewerFunnels ==
  {MCFunnel(a, b, c, d, e) : a \in {2, 6}, b \in {0, 2, 3, 6}, c \in {0, 3}, d \in {2, 3},
                             e \in {0, 3}}

\* What the market asks for and what the viewer did, some of it under two names.
MCFitItem(key, share, requests) == [key |-> key, share |-> share, requests |-> requests]

MCFitRow(key, base, done) == [key |-> key, base |-> base, done |-> done]

MCFitMarkets ==
  {<<>>, <<MCFitItem("a", 25, 10), MCFitItem("b", 15, 9), MCFitItem("c", 14, 0)>>,
   <<MCFitItem("b", 24, 30), MCFitItem("c", 20, 20), MCFitItem("d", 20, 20),
     MCFitItem("e", 20, 10), MCFitItem("g", 16, 10), MCFitItem("a", 0, 10)>>,
   <<MCFitItem("a", 100, 12)>>}

MCFitRows ==
  {<<>>} \union {<<MCFitRow("a", x, z), MCFitRow("b", y, 0)>> :
                  x \in {1, 2, 4, 5, 6}, y \in {1, 8, 15, 16, 17, 19}, z \in {0, 1}}
    \union {<<MCFitRow("a", 6, 0), MCFitRow("b", y, 1), MCFitRow("a", 5, 2)>> : y \in {16, 18}}

\* No, two and four towns, close and far from each other or with no place at all.
MCTown(counts, place) ==
  [requests |-> counts[1], jobs |-> counts[2], providers |-> counts[3], place |-> place]

MCMarkets ==
  {[t \in towns |-> MCTown(c[t], x[t])] :
     towns \in {{}, {1, 2}, Towns}, x \in {<<0, 30, 50, 40>>, <<0, 60, 50, NoCount>>},
     c \in [Towns -> {<<3, 2, 1>>, <<2, NoCount, 4>>, <<1, 1, 0>>}]}

\* Cities that share a name, an alias or a postal code, large and small, one without a
\* place, one no longer active.
MCCatalogCity(name, aliases, others, codes, size, order, place) ==
  [name |-> name, aliases |-> aliases, others |-> others, codes |-> codes, size |-> size,
   order |-> order, place |-> place, active |-> TRUE]

MCCatalog ==
  <<MCCatalogCity(<<1>>, {}, {<<1>>}, {<<2, 2>>}, 40, 0, 11),
    MCCatalogCity(<<1, 2>>, {<<3>>}, {<<4>>}, {<<2, 1>>, <<2, 2>>}, 60, 0, 12),
    MCCatalogCity(<<1, 2>>, {}, {}, {<<2, 2>>}, 30, 20, 13),
    MCCatalogCity(<<1, 3>>, {<<4>>}, {<<4>>}, {<<2, 1>>}, 0, 5, NoCity),
    [MCCatalogCity(<<1>>, {}, {}, {<<2, 1>>}, 50, 0, 15) EXCEPT !.active = FALSE],
    MCCatalogCity(<<5>>, {}, {}, {<<3, 1>>}, 55, 1, NoCity)>>

MCCityTexts ==
  [name : {<<>>, <<1>>, <<1, 2>>, <<4>>, <<3>>}, code : {<<>>, <<2>>, <<2, 1>>, <<2, 2>>}]

MCPicked == {{}, {3}, {1, 5, 6}}

\* Requests with the name and the id of their city, some of no city or of another.
MCCityRow(id, name, count) == [id |-> id, name |-> name, count |-> count]

MCCityRows ==
  {<<>>, <<MCCityRow(NoCity, <<>>, 2)>>}
    \union {<<MCCityRow(i, <<1>>, 3), MCCityRow(j, n, 2), MCCityRow(k, <<1>>, 1)>> :
             i \in {NoCity, 1, 5}, j \in {NoCity, 2, 4}, k \in {NoCity, 1, 2},
             n \in {<<1>>, <<3>>, <<4>>, <<5>>}}

MCBuiltIn == <<1>> :> 91 @@ <<5>> :> 95

\* Windows with and without contracts, categories, searches and hidden requests.
MCPlace(requests, filtered, searched, jobs, providers, place) ==
  [requests |-> requests, filtered |-> filtered, searched |-> searched, jobs |-> jobs,
   providers |-> providers, place |-> place]

MCPlaces ==
  {<<>>, <<MCPlace(1, 0, FALSE, NoCount, NoCount, 0)>>,
   <<MCPlace(2, 2, FALSE, NoCount, 1, 0), MCPlace(1, 1, TRUE, 3, 0, 30)>>,
   <<MCPlace(41, 2, TRUE, 0, 4, 0), MCPlace(100, 1, TRUE, 1, 0, 30),
     MCPlace(1, 1, TRUE, 2, 2, 60)>>}

MCMarketWindows ==
  {[revenue |-> r[1], jobs |-> r[2], category |-> c, towns |-> towns] :
     r \in {<<0, 0>>, <<40, 2>>, <<346, 5>>}, c \in BOOLEAN, towns \in MCPlaces}

\* Two requests of different clients.
MCClientOf == [j \in Jobs |-> j]

\* Providers on either side of every threshold, two of them no longer public.
MCProfile(rating, reviews, jobs, updated, price, available) ==
  [rating |-> rating, reviews |-> reviews, jobs |-> jobs, updated |-> updated, price |-> price,
   available |-> available, services |-> {"s1"}, status |-> "active", blocked |-> FALSE,
   minutes |-> 10 + (jobs % 16)]

MCProfiles ==
  <<MCProfile(48, 10, 9, 1, 30, TRUE), MCProfile(47, 15, 24, 2, Unpriced, FALSE),
    MCProfile(50, 30, 25, 1, 20, FALSE), MCProfile(48, 9, 0, 2, 20, FALSE),
    MCProfile(0, 0, 0, 1, 40, TRUE), MCProfile(46, 14, 25, 1, Unpriced, FALSE),
    [MCProfile(49, 14, 9, 2, 30, TRUE) EXCEPT !.services = {"s2"}],
    [MCProfile(50, 40, 50, 2, 10, TRUE) EXCEPT !.status = "suspended"]>>

\* Nobody, each alone, all and all but one: more than the queue holds.
MCDirectories == {S \in SUBSET DOMAIN MCProfiles : Cardinality(S) \in {0, 1, 7, 8}}

\* Requests that were made, published, edited and matched before and in the period.
MCDoc(status, created, publishedAt, matchedAt, updated, price, preferred) ==
  [status |-> status, created |-> created, publishedAt |-> publishedAt,
   matchedAt |-> matchedAt, updated |-> updated, price |-> price, preferred |-> preferred,
   archived |-> FALSE]

MCDocuments ==
  <<MCDoc("published", 4, 4, NotSet, 4, 10, NotSet), MCDoc("published", 1, 1, NotSet, 3, NotSet, 5),
    MCDoc("published", 2, 4, NotSet, 4, 30, 6), MCDoc("published", 2, 2, NotSet, 2, 20, 5),
    MCDoc("matched", 1, 1, 3, 3, 20, NotSet), MCDoc("matched", 2, 2, 2, 4, 10, 4),
    MCDoc("closed", 1, 1, 2, 3, 30, 3), MCDoc("draft", 4, NotSet, NotSet, 4, 10, NotSet),
    MCDoc("published", 3, 3, NotSet, 3, 20, 6)>>

MCDocumentSets == {S \in SUBSET DOMAIN MCDocuments : Cardinality(S) \in {0, 1, 8, 9}}

MCCard(role, state, urgency, action, priority, activity, budget, deadline) ==
  [role |-> role, state |-> state, urgency |-> urgency, action |-> action,
   priority |-> priority, relevant |-> activity, created |-> activity - 1,
   activity |-> activity, budget |-> budget, deadline |-> deadline]

MCMyCards ==
  <<MCCard("customer", "open", "high", "none", 0, 4, 10, 5),
    MCCard("customer", "clarifying", NotSet, "review_offers", 75, 3, NotSet, NotSet),
    MCCard("customer", "active", "medium", "confirm_contract", 95, 2, 20, 6),
    MCCard("customer", "active", "low", "confirm_completion", 100, 4, 30, 9),
    MCCard("customer", "completed", NotSet, "review_completion", 80, 3, 20, NotSet),
    MCCard("provider", "clarifying", "high", "overdue_followup", 75, 1, 10, 5),
    MCCard("provider", "active", NotSet, "none", 0, 2, 20, NotSet)>>

MCCardSets == {S \in SUBSET DOMAIN MCMyCards : Cardinality(S) \in {0, 1, 6, 7}}

\* A document of the private overview; half a year before day 180 begins on day 30.
MCOwn(kind, side, status, created, updated, done) ==
  [kind |-> kind, side |-> side, status |-> status, created |-> created, updated |-> updated,
   done |-> done, price |-> 10 + (created % 7), archived |-> FALSE]

MCOwnDocs ==
  <<MCOwn("contract", "provider", "completed", 20, 40, 30),
    MCOwn("contract", "provider", "completed", 100, 149, 149),
    MCOwn("contract", "provider", "completed", 100, 150, 150),
    MCOwn("contract", "provider", "completed", 140, 179, 179),
    MCOwn("contract", "client", "completed", 60, 120, 120),
    MCOwn("contract", "provider", "in_progress", 170, 179, NotAsked),
    MCOwn("offer", "provider", "accepted", 90, 140, NotAsked),
    MCOwn("offer", "provider", "declined", 172, 173, NotAsked),
    MCOwn("offer", "client", "sent", 150, 172, NotAsked),
    MCOwn("request", "client", "closed", 30, 50, NotAsked),
    MCOwn("request", "client", "published", 150, 179, NotAsked),
    [MCOwn("request", "client", "draft", 150, 160, NotAsked) EXCEPT !.archived = TRUE]>>

MCOwnDocSets ==
  {{}} \union {DOMAIN MCOwnDocs \ {i} : i \in {0, 1, 3, 4, 5, 8, 9}}

\* Requests and offers before, in and at the end of the windows that end at 6.
MCPost(kind, viewer, at, sub, offered) ==
  [kind |-> kind, viewer |-> viewer, at |-> at, sub |-> sub, offered |-> offered,
   published |-> at % 2 = 0]

MCPosts ==
  <<MCPost("request", TRUE, 1, TRUE, 2), MCPost("request", TRUE, 4, FALSE, NotCharted),
    MCPost("request", FALSE, 2, TRUE, 3), MCPost("request", FALSE, 4, TRUE, 6),
    MCPost("request", FALSE, 6, TRUE, 6), MCPost("offer", TRUE, 3, TRUE, NotCharted),
    MCPost("offer", TRUE, 6, FALSE, NotCharted), MCPost("offer", FALSE, 5, TRUE, NotCharted)>>

MCPostSets == {S \in SUBSET DOMAIN MCPosts : Cardinality(S) \in {0, 1, 2, 6, 7, 8}}

\* The viewer is a client for q1 and a provider for q2.
MCChatRequests == ("q1" :> [client |-> "me"]) @@ ("q2" :> [client |-> "x"])

MCChatOffer(request, client, provider) ==
  [request |-> request, client |-> client, provider |-> provider]

MCChatOffers ==
  ("o1" :> MCChatOffer("q1", "me", "p")) @@ ("o2" :> MCChatOffer("q2", "x", "me"))

MCChatOrders == "c1" :> [offer |-> "o1"]

MCOpening(actor, role, request, provider, offer, order) ==
  [actor |-> actor, role |-> role, request |-> request, provider |-> provider,
   offer |-> offer, order |-> order]

MCOpenings ==
  {MCOpening("me", "client", "q1", "p", Missing, Missing),
   MCOpening("me", "provider", Missing, Missing, "o2", Missing),
   MCOpening("p", "provider", Missing, Missing, Missing, "c1"),
   MCOpening("me", "client", "q2", "p", Missing, Missing),
   MCOpening("me", "client", "q2", Missing, "o1", Missing),
   MCOpening("me", "client", "q1", "p", "o9", Missing)}

Symmetry == Permutations(Jobs) \union Permutations(Tradesmen)
=============================================================================
