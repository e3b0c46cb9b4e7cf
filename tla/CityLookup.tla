----------------------------- MODULE CityLookup -----------------------------
(***************************************************************************)
(* The catalog of cities as others use it.  GET /catalog/cities searches   *)
(* by name and postal code: two queries of the database, each cut to the   *)
(* cities that usually matter most, are joined and only then put in order  *)
(* (searchCities(), cities.service.ts).  The activity of the cities counts *)
(* the requests, which carry the name and the id of a city as they were    *)
(* when they were written, under the name, and looks up where that is      *)
(* (getCityActivity(), workspace-public-city-activity.service.ts).         *)
(*                                                                         *)
(* Names and postal codes are sequences, for what matters is whether one   *)
(* begins with another.                                                    *)
(***************************************************************************)
EXTENDS Listing

CONSTANTS
  Catalog,          \* sequence of cities in the order of the alphabet
  CityTexts,        \* what is searched for: [name, code], one of them <<>> or none
  CityLimits,       \* how many a caller asks for
  Picked,           \* sets of cities a caller names by id
  CityRows,         \* sequences of [id, name, count], the largest count first
  BuiltIn,          \* places by name, for cities the catalog knows no place of
  CodeLength,       \* of a whole postal code
  PerHit, FewestCandidates,   \* how many a query loads: so many for one asked for, at least
  MostFound,        \* how many a search returns at the most
  NoCity            \* null

\* A city has a name; the postal codes are of one country, all of one length
\* (import-geonames-postal-codes.ts).
ASSUME CatalogAssumption ==
  /\ DOMAIN Catalog = 1..Len(Catalog) /\ Len(Catalog) \in Nat
  /\ \A c \in DOMAIN Catalog :
       /\ Catalog[c].size \in 0..60 /\ Catalog[c].order \in Nat
       /\ {Catalog[c].name} \union Catalog[c].aliases \union Catalog[c].others
            \subseteq Seq(Int) \ {<<>>}
       /\ \A code \in Catalog[c].codes : code \in Seq(Int) /\ Len(code) = CodeLength
  /\ \A text \in CityTexts : text.name \in Seq(Int) /\ text.code \in Seq(Int)
  /\ CityLimits \subseteq Nat \ {0} /\ MostFound \in 1..100 /\ CodeLength \in Nat \ {0}
  /\ PerHit \in Nat \ {0} /\ FewestCandidates \in Nat
  /\ \A rows \in CityRows : DOMAIN rows = 1..Len(rows) /\ Len(rows) \in Nat
  /\ NoCity \notin Nat

VARIABLE lookup     \* what a call was asked or has loaded, or NoCity between two calls

LookupInit == lookup = NoCity

Lookups ==
  [kind: {"list"}, text: CityTexts, limit: CityLimits, picked: Picked]
    \union [kind: {"activity"}, rows: CityRows, limit: CityLimits]

LoadLookup == lookup = NoCity /\ lookup' \in Lookups

AnswerLookup == lookup # NoCity /\ lookup' = NoCity

LookupNext == LoadLookup \/ AnswerLookup

LookupSpec == LookupInit /\ [][LookupNext]_lookup

-----------------------------------------------------------------------------
(* The search. *)

Begins(whole, part) == Len(part) <= Len(whole) /\ SubSeq(whole, 1, Len(part)) = part

Active == {c \in DOMAIN Catalog : Catalog[c].active}

\* getCitySearchNameTokens()
Names(c) == {Catalog[c].name} \union Catalog[c].aliases \union Catalog[c].others

Named(c, name) == name # <<>> /\ \E n \in Names(c) : Begins(n, name)

Coded(c, code) == code # <<>> /\ \E p \in Catalog[c].codes : Begins(p, code)

\* scoreCitySearchMatch(): a third part for texts that are neither is never reached.
MatchScore(c, text) ==
  (CASE text.code \in Catalog[c].codes -> 500
     [] Coded(c, text.code) /\ text.code \notin Catalog[c].codes -> 320
     [] OTHER -> 0)
  + (CASE text.name \in Names(c) -> 220
       [] Named(c, text.name) /\ text.name \notin Names(c) -> 160
       [] OTHER -> 0)
  + Catalog[c].size + AtLeast(0, 20 - Catalog[c].order)

\* What the catalog puts first: by hand, then the larger city, then the alphabet.
Usually(c) == <<Catalog[c].order, -Catalog[c].size, c>>

CandidateLimit(limit) == AtMost(100, AtLeast(PerHit * limit, FewestCandidates))

\* A query of the database.
LookedUp(S, limit) == FirstOf(InOrder(S, [c \in S |-> Usually(c)]), limit)

\* The database compares the name and the aliases, not the names in other languages.
NameHits(name) ==
  {c \in Active : name # <<>> /\ \E n \in {Catalog[c].name} \union Catalog[c].aliases : Begins(n, name)}

\* Variant: the cities stay in the order of the catalog.
SearchUnscored(text, limit) ==
  LET found == NameHits(text.name) \union {c \in Active : Coded(c, text.code)} IN
  FirstOf(InOrder(found, [c \in found |-> Usually(c)]), limit)

SearchLimit(limit) == AtMost(MostFound, limit)

SearchCities(text, limit) ==
  LET n == CandidateLimit(SearchLimit(limit))
      found == MembersOf(LookedUp({c \in Active : Coded(c, text.code)}, n))
                 \union MembersOf(LookedUp(NameHits(text.name), n)) IN
  FirstOf(InOrder(found, [c \in found |-> <<-MatchScore(c, text)>> \o Usually(c)]),
          SearchLimit(limit))

\* The list of the controller: those named by id come first, then those found or, with
\* nothing to search for and none named, those that usually come first.
CityList(call) ==
  LET picked == LookedUp(call.picked \intersect Active, Len(Catalog))
      found == IF call.text # [name |-> <<>>, code |-> <<>>]
                 THEN SearchCities(call.text, call.limit)
               ELSE IF call.picked # {} THEN <<>>
               ELSE LookedUp(Active, call.limit)
      fresh == PartOf(found, {i \in DOMAIN found : found[i] \notin MembersOf(picked)}) IN
  FirstOf(picked \o fresh, call.limit)

-----------------------------------------------------------------------------
(* The activity of the cities. *)

\* The id under a name: of two that differ none is kept, until another row brings one.
IdUnder(rows, name) ==
  LET id[i \in 0..Len(rows)] ==
        IF i = 0 THEN NoCity
        ELSE IF rows[i].name # name \/ rows[i].id \in {NoCity, id[i - 1]} THEN id[i - 1]
        ELSE IF id[i - 1] = NoCity THEN rows[i].id
        ELSE NoCity
  IN id[Len(rows)]

CountUnder(rows, name) ==
  LET sum[i \in 0..Len(rows)] ==
        IF i = 0 THEN 0 ELSE sum[i - 1] + (IF rows[i].name = name THEN rows[i].count ELSE 0)
  IN sum[Len(rows)]

\* buildActivityLookupQuery(): what is looked up for all rows at once, by the id of each
\* or by the name or an alias of any of them.
Fetched(rows) ==
  LET names == {rows[i].name : i \in DOMAIN rows} \ {<<>>} IN
  {c \in Active : c \in {IdUnder(rows, n) : n \in names}
                   \/ ({Catalog[c].name} \union Catalog[c].aliases) \intersect names # {}}

\* resolveActivityCoords(): by its id, or the first of the name or of such a name in
\* another language; the aliases, which were looked up, are not compared.
Located(rows, name) ==
  LET id == IdUnder(rows, name)
      alike == {c \in Fetched(rows) : name \in {Catalog[c].name} \union Catalog[c].others} IN
  IF id \in Fetched(rows) THEN id
  ELSE IF alike = {} THEN NoCity
  ELSE CHOOSE c \in alike : \A d \in alike : c <= d

Placed(city, name) ==
  IF city # NoCity /\ Catalog[city].place # NoCity THEN Catalog[city].place
  ELSE IF name \in DOMAIN BuiltIn THEN BuiltIn[name]
  ELSE NoCity

ActivityItem(rows, name) ==
  LET id == IdUnder(rows, name)
      city == Located(rows, name) IN
  [name |-> name, id |-> IF city = NoCity THEN id ELSE city, count |-> CountUnder(rows, name),
   place |-> Placed(city, name)]

\* Rows without a name are left out.
ActivityItems(rows) ==
  {ActivityItem(rows, name) : name \in {rows[i].name : i \in DOMAIN rows} \ {<<>>}}

-----------------------------------------------------------------------------
\* The type of what a call was asked or has loaded.
LookupTypeOK == lookup \in Lookups \union {NoCity}

\* The cities of a whole postal code come first, however small they are and whatever
\* name is asked for with it, and among them those of that name, unless a query had more
\* candidates than it loads; cities named by id come before all others and no city twice;
\* what is found was asked for.
SearchFinds ==
  (lookup # NoCity /\ lookup.kind = "list") =>
    LET text == lookup.text
        found == SearchCities(text, lookup.limit)
        list == CityList(lookup)
        coded == {c \in Active : text.code \in Catalog[c].codes} IN
    /\ (Len(text.code) = CodeLength /\ Cardinality(coded) <= SearchLimit(lookup.limit)) =>
         /\ {found[i] : i \in 1..Cardinality(coded)} = coded
         /\ \A i, j \in 1..Cardinality(coded) :
              Named(found[i], text.name) /\ ~Named(found[j], text.name) => i < j
    /\ \A i \in DOMAIN found : Coded(found[i], text.code) \/ Named(found[i], text.name)
    /\ Cardinality(MembersOf(list)) = Len(list) /\ Len(list) <= lookup.limit
    /\ \A i, j \in DOMAIN list : list[j] \in lookup.picked /\ list[i] \notin lookup.picked => j < i
    /\ (lookup.picked \intersect Active) \ MembersOf(list) # {} =>
         MembersOf(list) \subseteq lookup.picked

\* A city's name is listed once.  Where the requests under a name agree on the city it is
\* that city they are shown at; and wherever they are shown, it is a city of one of them,
\* a city of that name, or what is built in for it.
ActivityIsPlaced ==
  (lookup # NoCity /\ lookup.kind = "activity") =>
    LET rows == lookup.rows
        ids(name) == {rows[i].id : i \in {k \in DOMAIN rows : rows[k].name = name}} \ {NoCity} IN
    \A item \in ActivityItems(rows) :
      /\ \A other \in ActivityItems(rows) : item.name = other.name => item = other
      /\ \A id \in ids(item.name) : ids(item.name) = {id} /\ id \in Active =>
           /\ item.id = id
           /\ Catalog[id].place # NoCity => item.place = Catalog[id].place
      /\ item.id # NoCity => item.id \in ids(item.name) \/ item.name \in Names(item.id)
      /\ item.place # NoCity =>
           \/ \E c \in Active : item.place = Catalog[c].place
                                /\ (c \in ids(item.name) \/ item.name \in Names(c))
           \/ item.name \in DOMAIN BuiltIn /\ item.place = BuiltIn[item.name]
=============================================================================
