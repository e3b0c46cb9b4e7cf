--------------------------- MODULE RequestContent ---------------------------
(***************************************************************************)
(* What a request says (requests.service.ts) and the cities it names       *)
(* (cities.service.ts).  A new city is entered under a key made from its   *)
(* name, with a number when another name has the key; nothing but a unique *)
(* index keeps two calls from entering it twice.  An edit computes the     *)
(* search text and the price trend from a copy read before it writes.      *)
(*                                                                         *)
(* The title stands for everything else the search text is made from.      *)
(* Status and ownership refuse a call before it writes; see Matching.      *)
(***************************************************************************)
EXTENDS Integers, FiniteSets

CONSTANTS
  CityNames,        \* names as lower case, which is how they are compared
  BaseKey,          \* normalizeKey(), which drops letters: two names may share a key
  MaxSuffix,        \* the 50 of createDynamic()
  Titles, Prices,
  Items,            \* request ids
  ContentCalls,     \* handlers that may be in flight together
  Nothing           \* null

ASSUME ContentAssumption ==
  /\ DOMAIN BaseKey = CityNames
  /\ MaxSuffix \in Nat \ {0}
  /\ Prices \subseteq Nat
  /\ Nothing \notin CityNames \union Titles \union Prices \union Items

VARIABLES
  cityAt,           \* the cities: the name entered under a key
  content,          \* the requests
  dCall,            \* the handlers in flight
  interrupted       \* history: requests edited between the read and the write of an edit

contentVars == <<cityAt, content, dCall, interrupted>>

CityKeys == {BaseKey[n] : n \in CityNames} \X (1..MaxSuffix)

\* An edit leaves a field alone, or sets it.
Patch == [title: Titles \union {Nothing}, city: CityNames \union {Nothing},
          price: Prices \union {Nothing}]

Text(title, city) == [title |-> title, city |-> city]

Absent == [there |-> FALSE, title |-> Nothing, city |-> Nothing, price |-> Nothing,
           previousPrice |-> Nothing, priceTrend |-> Nothing,
           searchText |-> Text(Nothing, Nothing)]

Empty == [title |-> Nothing, city |-> Nothing, price |-> Nothing]

Quiet == [at |-> "idle", item |-> Nothing, copy |-> Empty, patch |-> Empty, suffix |-> 0]

At(h, step) == dCall[h].at = step

Leave(h) == dCall' = [dCall EXCEPT ![h] = Quiet]

Known(name) == \E k \in CityKeys : cityAt[k] = name

\* A request as create() stores it.
NewContent(patch) ==
  [there |-> TRUE, title |-> patch.title, city |-> patch.city, price |-> patch.price,
   previousPrice |-> Nothing, priceTrend |-> Nothing,
   searchText |-> Text(patch.title, patch.city)]

ContentInit ==
  /\ cityAt = [k \in CityKeys |-> Nothing]
  /\ content = [i \in Items |-> Absent]
  /\ dCall = [h \in ContentCalls |-> Quiet]
  /\ interrupted = {}

-----------------------------------------------------------------------------
(* createPublic() and createForClient() *)

\* With the id of a city, or with the name of one to be found or entered.
CreateBegin(h, patch) ==
  /\ At(h, "idle")
  /\ patch.title # Nothing /\ patch.city # Nothing
  /\ \/ dCall' = [dCall EXCEPT ![h] = [Quiet EXCEPT !.at = "city", !.patch = patch, !.suffix = 1]]
     \/ /\ Known(patch.city)
        /\ dCall' = [dCall EXCEPT ![h] = [Quiet EXCEPT !.at = "store", !.patch = patch]]
  /\ UNCHANGED <<cityAt, content, interrupted>>

KeyOf(h) == <<BaseKey[dCall[h].patch.city], dCall[h].suffix>>

\* One round of the loop of createDynamic(): the key is free, or the city is there, or
\* another one is and the next number is tried.
CityLookup(h) ==
  /\ At(h, "city")
  /\ \/ /\ cityAt[KeyOf(h)] = Nothing
        /\ dCall' = [dCall EXCEPT ![h].at = "enter"]
     \/ /\ cityAt[KeyOf(h)] = dCall[h].patch.city
        /\ dCall' = [dCall EXCEPT ![h].at = "store"]
     \/ /\ cityAt[KeyOf(h)] \notin {Nothing, dCall[h].patch.city}
        /\ IF dCall[h].suffix < MaxSuffix
             THEN dCall' = [dCall EXCEPT ![h].suffix = @ + 1]
             ELSE Leave(h)
  /\ UNCHANGED <<cityAt, content, interrupted>>

\* Variant: the index is not unique, and a number is made up where a key is taken.
CityEnterNext(h) ==
  /\ At(h, "enter")
  /\ \/ /\ cityAt[KeyOf(h)] = Nothing
        /\ cityAt' = [cityAt EXCEPT ![KeyOf(h)] = dCall[h].patch.city]
     \/ /\ cityAt[KeyOf(h)] # Nothing
        /\ \E k \in CityKeys : /\ cityAt[k] = Nothing
                           /\ cityAt' = [cityAt EXCEPT ![k] = dCall[h].patch.city]
  /\ dCall' = [dCall EXCEPT ![h].at = "store"]
  /\ UNCHANGED <<content, interrupted>>

\* The unique index on key refuses the second of two that found it free, and with it
\* the whole call.
CityEnter(h) ==
  /\ At(h, "enter")
  /\ IF cityAt[KeyOf(h)] = Nothing
       THEN /\ cityAt' = [cityAt EXCEPT ![KeyOf(h)] = dCall[h].patch.city]
            /\ dCall' = [dCall EXCEPT ![h].at = "store"]
       ELSE Leave(h) /\ UNCHANGED cityAt
  /\ UNCHANGED <<content, interrupted>>

Store(h, i) ==
  /\ At(h, "store")
  /\ ~content[i].there
  /\ content' = [content EXCEPT ![i] = NewContent(dCall[h].patch)]
  /\ Leave(h)
  /\ UNCHANGED <<cityAt, interrupted>>

\* duplicateMyClientRequest(): a copy read in one operation, with a text of its own.
Duplicate(i, j) ==
  /\ content[i].there /\ ~content[j].there
  /\ content' = [content EXCEPT ![j] = NewContent(content[i])]
  /\ UNCHANGED <<cityAt, dCall, interrupted>>

-----------------------------------------------------------------------------
(* updateMyClientRequest() *)

\* What an edit uses of the request it has read.
CopyOf(request) == [title |-> request.title, city |-> request.city, price |-> request.price]

\* With a city it is read by its id before the write.
EditRead(h, i, patch) ==
  /\ At(h, "idle")
  /\ content[i].there
  /\ patch.city # Nothing => Known(patch.city)
  /\ dCall' = [dCall EXCEPT ![h] =
                 [Quiet EXCEPT !.at = "edit", !.item = i, !.copy = CopyOf(content[i]), !.patch = patch]]
  /\ UNCHANGED <<cityAt, content, interrupted>>

Patched(new, old) == IF new = Nothing THEN old ELSE new

\* How the new price compares with the price of the copy.
Trend(new, old) ==
  CASE old = Nothing \/ new = old -> [previousPrice |-> Nothing, priceTrend |-> Nothing]
    [] old # Nothing /\ new # old ->
         [previousPrice |-> old, priceTrend |-> IF new < old THEN "down" ELSE "up"]

\* Variant: the text is made from the fields that were sent.
TextOfPatch(patch, copy) == Text(patch.title, patch.city)

NextText(patch, copy) == Text(Patched(patch.title, copy.title), Patched(patch.city, copy.city))

\* findOneAndUpdate() sets the fields that were sent, the text, and with a price its trend.
EditWrite(h) ==
  LET i == dCall[h].item
      patch == dCall[h].patch
      copy == dCall[h].copy
      now == content[i]
      trend == IF patch.price = Nothing
                 THEN [previousPrice |-> now.previousPrice, priceTrend |-> now.priceTrend]
                 ELSE Trend(patch.price, copy.price) IN
  /\ At(h, "edit")
  /\ content' = [content EXCEPT ![i] =
       [there |-> TRUE,
        title |-> Patched(patch.title, now.title),
        city |-> Patched(patch.city, now.city),
        price |-> Patched(patch.price, now.price),
        previousPrice |-> trend.previousPrice,
        priceTrend |-> trend.priceTrend,
        searchText |-> NextText(patch, copy)]]
  /\ interrupted' = IF \E g \in ContentCalls \ {h} : At(g, "edit") /\ dCall[g].item = i
                      THEN interrupted \union {i} ELSE interrupted
  /\ Leave(h)
  /\ UNCHANGED cityAt

ContentFail(h) ==
  /\ ~At(h, "idle")
  /\ Leave(h)
  /\ UNCHANGED <<cityAt, content, interrupted>>

ContentNext ==
  \/ \E h \in ContentCalls :
       \/ \E patch \in Patch : \/ CreateBegin(h, patch)
                               \/ \E i \in Items : EditRead(h, i, patch)
       \/ CityLookup(h) \/ CityEnter(h) \/ EditWrite(h) \/ ContentFail(h)
       \/ \E i \in Items : Store(h, i)
  \/ \E i, j \in Items : Duplicate(i, j)

ContentSpec == ContentInit /\ [][ContentNext]_contentVars

-----------------------------------------------------------------------------
\* The type of the cities, the requests and the handlers in flight.
ContentTypeOK ==
  /\ cityAt \in [CityKeys -> CityNames \union {Nothing}]
  /\ content \in [Items ->
       [there: BOOLEAN, title: Titles \union {Nothing}, city: CityNames \union {Nothing},
        price: Prices \union {Nothing}, previousPrice: Prices \union {Nothing},
        priceTrend: {"up", "down", Nothing},
        searchText: [title: Titles \union {Nothing}, city: CityNames \union {Nothing}]]]
  /\ dCall \in [ContentCalls ->
       [at: {"idle", "city", "enter", "store", "edit"}, item: Items \union {Nothing},
        copy: Patch, patch: Patch, suffix: 0..MaxSuffix]]
  /\ interrupted \subseteq Items

\* However many calls name a new city at once, it is entered once, also where other
\* names have its key and calls are at different numbers: the requests of a city are
\* not spread over two of them.
OneCityPerName == \A k, l \in CityKeys : cityAt[k] # Nothing /\ cityAt[k] = cityAt[l] => k = l

\* A request is found under the title and city it shows, unless an edit overlapped
\* another; and an arrow beside the price always points from the previous price to the
\* one shown, edits overlapping or not.
DerivedFieldsFollow ==
  \A i \in Items : content[i].there =>
    /\ i \notin interrupted => content[i].searchText = Text(content[i].title, content[i].city)
    /\ \/ content[i].priceTrend = Nothing /\ content[i].previousPrice = Nothing
       \/ content[i].priceTrend = "up" /\ content[i].price > content[i].previousPrice
       \/ content[i].priceTrend = "down" /\ content[i].price < content[i].previousPrice

-----------------------------------------------------------------------------
(* Why: the inductive strengthenings. *)

\* The numbers of a key are used in turn, each by a name of that key and none twice.
CitiesInTurn ==
  \A k \in CityKeys : cityAt[k] # Nothing =>
    /\ k[1] = BaseKey[cityAt[k]]
    /\ \A s \in 1..MaxSuffix : s < k[2] => cityAt[<<k[1], s>>] \notin {Nothing, cityAt[k]}

\* A call that looks for a key has found other names at the numbers before.
LooksInTurn ==
  \A h \in ContentCalls : dCall[h].at \in {"city", "enter"} =>
    /\ dCall[h].patch.city \in CityNames
    /\ dCall[h].suffix \in 1..MaxSuffix
    /\ \A s \in 1..MaxSuffix : s < dCall[h].suffix =>
         cityAt[<<BaseKey[dCall[h].patch.city], s>>] \notin {Nothing, dCall[h].patch.city}

\* An edit knows what it edits, unless an edit that overlaps it has written.
CopiesAreFresh ==
  \A h \in ContentCalls : At(h, "edit") =>
    /\ dCall[h].item \in Items
    /\ content[dCall[h].item].there
    /\ dCall[h].item \notin interrupted => dCall[h].copy = CopyOf(content[dCall[h].item])

ContentInv == CitiesInTurn /\ LooksInTurn /\ CopiesAreFresh /\ DerivedFieldsFollow
=============================================================================
