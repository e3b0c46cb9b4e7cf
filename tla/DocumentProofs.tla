---------------------------- MODULE DocumentProofs ----------------------------
(* Theorems about documents that must follow one another: the text of a *)
(* request and the cities (RequestContent), the account and the profile of *)
(* a provider (Activation); for every set of values and calls. *)
EXTENDS RequestContent, Activation, FiniteSetTheorems, TLAPS

-----------------------------------------------------------------------------
(* Requests and cities. *)

Steps == {"idle", "city", "enter", "store", "edit"}

Call == [at: Steps, item: Items \union {Nothing}, copy: Patch, patch: Patch,
         suffix: 0..MaxSuffix]

TextType == [title: Titles \union {Nothing}, city: CityNames \union {Nothing}]

Content ==
  [there: BOOLEAN, title: Titles \union {Nothing}, city: CityNames \union {Nothing},
   price: Prices \union {Nothing}, previousPrice: Prices \union {Nothing},
   priceTrend: {"up", "down", Nothing}, searchText: TextType]

LEMMA ContentTyping ==
  ContentTypeOK <=> /\ cityAt \in [CityKeys -> CityNames \union {Nothing}]
                    /\ content \in [Items -> Content]
                    /\ dCall \in [ContentCalls -> Call]
                    /\ interrupted \subseteq Items
BY DEF ContentTypeOK, Call, Steps, Content, TextType

LEMMA QuietTyped == Quiet \in Call /\ Empty \in Patch
BY ContentAssumption DEF Quiet, Call, Steps, Empty, Patch

LEMMA NewContentTyped ==
  ASSUME NEW p, p.title \in Titles \union {Nothing},
         p.city \in CityNames \union {Nothing}, p.price \in Prices \union {Nothing}
  PROVE  NewContent(p) \in Content
BY DEF NewContent, Content, Text, TextType

LEMMA KeysTyped ==
  ASSUME NEW n \in CityNames, NEW s \in 1..MaxSuffix
  PROVE  <<BaseKey[n], s>> \in CityKeys
BY DEF CityKeys

\* The price trend of an edit is one of its copy and its price.
LEMMA TrendTyped ==
  ASSUME NEW new \in Prices, NEW old \in Prices \union {Nothing}
  PROVE  /\ Trend(new, old).previousPrice \in Prices \union {Nothing}
         /\ Trend(new, old).priceTrend \in {"up", "down", Nothing}
         /\ \/ Trend(new, old).priceTrend = Nothing /\ Trend(new, old).previousPrice = Nothing
            \/ Trend(new, old).priceTrend = "up" /\ new > Trend(new, old).previousPrice
            \/ Trend(new, old).priceTrend = "down" /\ new < Trend(new, old).previousPrice
<1>1. CASE old = Nothing \/ new = old
  <2>1. Trend(new, old) = [previousPrice |-> Nothing, priceTrend |-> Nothing]
    BY <1>1 DEF Trend
  <2> QED
    BY <2>1
<1>2. CASE ~(old = Nothing \/ new = old)
  <2>1. Trend(new, old) = [previousPrice |-> old,
                           priceTrend |-> IF new < old THEN "down" ELSE "up"]
    BY <1>2 DEF Trend
  <2>2. new \in Nat /\ old \in Nat /\ old \in Prices
    BY <1>2, ContentAssumption
  <2> QED
    BY <1>2, <2>1, <2>2
<1> QED
  BY <1>1, <1>2

-----------------------------------------------------------------------------
(* What the write of an edit stores. *)

\* The document after EditWrite(h).
LEMMA Edited ==
  ASSUME ContentTypeOK, ContentInv, NEW h \in ContentCalls, EditWrite(h)
  PROVE  LET i == dCall[h].item IN
         /\ i \in Items
         /\ content[i].there
         /\ content'[i] \in Content
         /\ content' = [content EXCEPT ![i] = content'[i]]
         /\ content'[i].there
         /\ i \notin interrupted => content'[i].searchText = Text(content'[i].title, content'[i].city)
         /\ \/ content'[i].priceTrend = Nothing /\ content'[i].previousPrice = Nothing
            \/ content'[i].priceTrend = "up" /\ content'[i].price > content'[i].previousPrice
            \/ content'[i].priceTrend = "down" /\ content'[i].price < content'[i].previousPrice
<1> DEFINE i == dCall[h].item
           patch == dCall[h].patch
           copy == dCall[h].copy
           now == content[i]
           trend == IF patch.price = Nothing
                      THEN [previousPrice |-> now.previousPrice, priceTrend |-> now.priceTrend]
                      ELSE Trend(patch.price, copy.price)
           new == [there |-> TRUE,
                   title |-> Patched(patch.title, now.title),
                   city |-> Patched(patch.city, now.city),
                   price |-> Patched(patch.price, now.price),
                   previousPrice |-> trend.previousPrice,
                   priceTrend |-> trend.priceTrend,
                   searchText |-> NextText(patch, copy)]
<1>1. /\ i \in Items /\ now.there /\ now \in Content
      /\ patch \in Patch /\ copy \in Patch
      /\ i \notin interrupted => copy = CopyOf(now)
  <2>1. At(h, "edit")
    BY DEF EditWrite
  <2>2. dCall[h] \in Call
    BY ContentTyping
  <2>3. patch \in Patch /\ copy \in Patch
    BY <2>2 DEF Call
  <2>4. /\ i \in Items /\ now.there
        /\ i \notin interrupted => copy = CopyOf(now)
    BY <2>1 DEF ContentInv, CopiesAreFresh
  <2> QED
    BY <2>3, <2>4, ContentTyping
<1>2. content' = [content EXCEPT ![i] = new] /\ content'[i] = new
  BY <1>1, ContentTyping DEF EditWrite
<1>3. /\ trend.previousPrice \in Prices \union {Nothing}
      /\ trend.priceTrend \in {"up", "down", Nothing}
      /\ \/ trend.priceTrend = Nothing /\ trend.previousPrice = Nothing
         \/ trend.priceTrend = "up" /\ new.price > trend.previousPrice
         \/ trend.priceTrend = "down" /\ new.price < trend.previousPrice
  <2>1. CASE patch.price = Nothing
    <3>1. new.price = now.price
      BY <2>1 DEF Patched
    <3>2. trend.previousPrice = now.previousPrice /\ trend.priceTrend = now.priceTrend
      BY <2>1
    <3> QED
      BY <1>1, <3>1, <3>2 DEF ContentInv, DerivedFieldsFollow, Content
  <2>2. CASE patch.price # Nothing
    <3>1. patch.price \in Prices /\ copy.price \in Prices \union {Nothing}
      BY <1>1, <2>2 DEF Patch
    <3>2. trend = Trend(patch.price, copy.price) /\ new.price = patch.price
      BY <2>2 DEF Patched
    <3> QED
      BY <3>1, <3>2, TrendTyped
  <2> QED
    BY <2>1, <2>2
<1>4. NextText(patch, copy) \in TextType
  BY <1>1 DEF NextText, Text, TextType, Patched, Patch
<1>5. new \in Content
  <2>1. /\ Patched(patch.title, now.title) \in Titles \union {Nothing}
        /\ Patched(patch.city, now.city) \in CityNames \union {Nothing}
        /\ Patched(patch.price, now.price) \in Prices \union {Nothing}
    BY <1>1 DEF Patched, Patch, Content
  <2> QED
    BY <1>3, <1>4, <2>1 DEF Content
<1>6. ASSUME i \notin interrupted
      PROVE  new.searchText = Text(new.title, new.city)
  <2>1. copy = CopyOf(now)
    BY <1>1, <1>6
  <2>2. copy.title = now.title /\ copy.city = now.city
    BY <2>1 DEF CopyOf
  <2>3. /\ new.searchText = NextText(patch, copy)
        /\ new.title = Patched(patch.title, now.title)
        /\ new.city = Patched(patch.city, now.city)
    OBVIOUS
  <2> HIDE DEF copy, now, patch, new
  <2> QED
    BY <2>2, <2>3 DEF NextText
<1>7. new.there /\ new.previousPrice = trend.previousPrice /\ new.priceTrend = trend.priceTrend
  OBVIOUS
<1> HIDE DEF new, trend, now, copy, patch
<1>8. content' = [content EXCEPT ![i] = content'[i]]
  BY <1>2
<1>9. \/ content'[i].priceTrend = Nothing /\ content'[i].previousPrice = Nothing
      \/ content'[i].priceTrend = "up" /\ content'[i].price > content'[i].previousPrice
      \/ content'[i].priceTrend = "down" /\ content'[i].price < content'[i].previousPrice
  BY <1>2, <1>3, <1>7
<1>10. i \notin interrupted => content'[i].searchText = Text(content'[i].title, content'[i].city)
  BY <1>2, <1>6
<1>11. i \in Items /\ content[i].there /\ content'[i] \in Content /\ content'[i].there
  BY <1>1, <1>2, <1>5, <1>7 DEF now
<1> QED
  BY <1>8, <1>9, <1>10, <1>11

-----------------------------------------------------------------------------
(* Type correctness. *)

\* A step that changes one call keeps the calls typed.
LEMMA CallTyped ==
  ASSUME ContentTypeOK, NEW h \in ContentCalls, NEW c \in Call,
         dCall' = [dCall EXCEPT ![h] = c]
  PROVE  /\ dCall' \in [ContentCalls -> Call]
         /\ dCall'[h] = c
         /\ \A g \in ContentCalls \ {h} : dCall'[g] = dCall[g]
BY ContentTyping

\* A new state of a call.
LEMMA CallChanged ==
  ASSUME ContentTypeOK, NEW h \in ContentCalls, NEW s \in Steps, NEW n \in 0..MaxSuffix
  PROVE  /\ [dCall[h] EXCEPT !.at = s] \in Call
         /\ [dCall[h] EXCEPT !.suffix = n] \in Call
         /\ \A p \in Patch : [Quiet EXCEPT !.at = s, !.patch = p, !.suffix = n] \in Call
         /\ \A p \in Patch : [Quiet EXCEPT !.at = s, !.patch = p] \in Call
         /\ \A i \in Items, k, p \in Patch :
              [Quiet EXCEPT !.at = s, !.item = i, !.copy = k, !.patch = p] \in Call
<1>1. dCall[h] \in Call
  BY ContentTyping
<1> QED
  BY <1>1, QuietTyped DEF Call

LEMMA BeginStep ==
  ASSUME ContentTypeOK, NEW h \in ContentCalls, NEW p \in Patch, CreateBegin(h, p)
  PROVE  \E c \in Call : /\ dCall' = [dCall EXCEPT ![h] = c]
                         /\ c.at \in {"city", "store"}
                         /\ c.at = "city" => c.patch.city \in CityNames /\ c.suffix = 1
<1>1. p.city \in CityNames
  BY DEF CreateBegin, Patch
<1>2. 0 \in 0..MaxSuffix /\ 1 \in 0..MaxSuffix
  BY ContentAssumption
<1>3. CASE dCall' = [dCall EXCEPT ![h] = [Quiet EXCEPT !.at = "city", !.patch = p, !.suffix = 1]]
  <2> DEFINE c == [Quiet EXCEPT !.at = "city", !.patch = p, !.suffix = 1]
  <2>1. c \in Call
    BY <1>2, CallChanged DEF Steps
  <2>2. c.at = "city" /\ c.patch = p /\ c.suffix = 1
    BY DEF Quiet
  <2> HIDE DEF c
  <2> QED
    BY <1>1, <1>3, <2>1, <2>2 DEF c
<1>4. CASE dCall' = [dCall EXCEPT ![h] = [Quiet EXCEPT !.at = "store", !.patch = p]]
  <2> DEFINE c == [Quiet EXCEPT !.at = "store", !.patch = p]
  <2>1. c \in Call
    BY <1>2, CallChanged DEF Steps
  <2>2. c.at = "store"
    BY DEF Quiet
  <2> HIDE DEF c
  <2> QED
    BY <1>4, <2>1, <2>2 DEF c
<1> QED
  BY <1>3, <1>4 DEF CreateBegin

\* A round of the loop goes on to enter the city, finds it, tries the next number or
\* gives up.
LEMMA LookupStep ==
  ASSUME ContentTypeOK, ContentInv, NEW h \in ContentCalls, CityLookup(h)
  PROVE  LET n == dCall[h].patch.city
             s == dCall[h].suffix
             here == cityAt[<<BaseKey[n], s>>] IN
         \E c \in Call :
           /\ dCall' = [dCall EXCEPT ![h] = c]
           /\ c.at # "edit"
           /\ c.at = "enter" => c.patch = dCall[h].patch /\ c.suffix = s
           /\ c.at = "city" => /\ c.patch = dCall[h].patch
                              /\ c.suffix = s + 1 /\ s < MaxSuffix
                              /\ here \notin {Nothing, n}
<1> DEFINE n == dCall[h].patch.city
           s == dCall[h].suffix
           here == cityAt[<<BaseKey[n], s>>]
<1>1. /\ dCall[h] \in Call /\ dCall[h].at = "city"
      /\ s \in 1..MaxSuffix /\ MaxSuffix \in Nat
      /\ KeyOf(h) = <<BaseKey[n], s>>
  BY ContentTyping, ContentAssumption
     DEF CityLookup, At, ContentInv, LooksInTurn, KeyOf
<1>2. CASE dCall' = [dCall EXCEPT ![h].at = "enter"]
  <2> DEFINE c == [dCall[h] EXCEPT !.at = "enter"]
  <2>1. c \in Call /\ c.at = "enter" /\ c.patch = dCall[h].patch /\ c.suffix = s
    BY <1>1 DEF Call, Steps
  <2>2. dCall' = [dCall EXCEPT ![h] = c]
    BY <1>2
  <2> HIDE DEF c
  <2> QED
    BY <2>1, <2>2
<1>3. CASE dCall' = [dCall EXCEPT ![h].at = "store"]
  <2> DEFINE c == [dCall[h] EXCEPT !.at = "store"]
  <2>1. c \in Call /\ c.at = "store"
    BY <1>1 DEF Call, Steps
  <2>2. dCall' = [dCall EXCEPT ![h] = c]
    BY <1>3
  <2> HIDE DEF c
  <2> QED
    BY <2>1, <2>2
<1>4. CASE /\ cityAt[KeyOf(h)] \notin {Nothing, n} /\ s < MaxSuffix
           /\ dCall' = [dCall EXCEPT ![h].suffix = @ + 1]
  <2> DEFINE c == [dCall[h] EXCEPT !.suffix = s + 1]
  <2>1. s + 1 \in 0..MaxSuffix
    BY <1>1, <1>4
  <2>2. c \in Call /\ c.at = "city" /\ c.patch = dCall[h].patch /\ c.suffix = s + 1
    BY <1>1, <2>1 DEF Call, Steps
  <2>3. dCall' = [dCall EXCEPT ![h] = c]
    BY <1>4
  <2>4. here \notin {Nothing, n}
    BY <1>1, <1>4
  <2> HIDE DEF c, here
  <2> QED
    BY <1>4, <2>2, <2>3, <2>4 DEF here
<1>5. CASE Leave(h)
  <2>1. Quiet \in Call /\ Quiet.at = "idle"
    BY QuietTyped DEF Quiet
  <2> QED
    BY <1>5, <2>1 DEF Leave
<1> QED
  BY <1>2, <1>3, <1>4, <1>5 DEF CityLookup

LEMMA EditReadStep ==
  ASSUME ContentTypeOK, NEW h \in ContentCalls, NEW i \in Items, NEW p \in Patch,
         EditRead(h, i, p)
  PROVE  \E c \in Call : /\ dCall' = [dCall EXCEPT ![h] = c]
                         /\ c.at = "edit" /\ c.item = i /\ c.copy = CopyOf(content[i])
<1> DEFINE c == [Quiet EXCEPT !.at = "edit", !.item = i, !.copy = CopyOf(content[i]),
                              !.patch = p]
<1>1. content[i] \in Content
  BY ContentTyping
<1>2. CopyOf(content[i]) \in Patch
  BY <1>1 DEF CopyOf, Patch, Content
<1>3. c \in Call
  BY <1>2, QuietTyped DEF Call, Steps
<1>4. c.at = "edit" /\ c.item = i /\ c.copy = CopyOf(content[i])
  BY DEF Quiet
<1>5. dCall' = [dCall EXCEPT ![h] = c]
  BY DEF EditRead
<1> HIDE DEF c
<1> QED
  BY <1>3, <1>4, <1>5

LEMMA ContentInitTyped == ContentInit => ContentTypeOK
<1> SUFFICES ASSUME ContentInit PROVE ContentTypeOK
  OBVIOUS
<1>1. Absent \in Content
  BY ContentAssumption DEF Absent, Content, Text, TextType
<1> QED
  BY <1>1, QuietTyped, ContentTyping DEF ContentInit

LEMMA ContentNextTyped ==
  ContentTypeOK /\ ContentInv /\ [ContentNext]_contentVars => ContentTypeOK'
<1> SUFFICES ASSUME ContentTypeOK, ContentInv, [ContentNext]_contentVars
             PROVE  ContentTypeOK'
  OBVIOUS
<1> DEFINE Typed == /\ cityAt' \in [CityKeys -> CityNames \union {Nothing}]
                    /\ content' \in [Items -> Content]
                    /\ dCall' \in [ContentCalls -> Call]
                    /\ interrupted' \subseteq Items
<1>0. SUFFICES Typed
  BY SMTT(30) DEF ContentTypeOK, Call, Steps, Content, TextType
<1>1. ASSUME NEW h \in ContentCalls, NEW p \in Patch, CreateBegin(h, p)
      PROVE  Typed
  BY <1>1, BeginStep, CallTyped, ContentTyping DEF CreateBegin
<1>2. ASSUME NEW h \in ContentCalls, NEW i \in Items, NEW p \in Patch, EditRead(h, i, p)
      PROVE  Typed
  <2>1. PICK c \in Call : dCall' = [dCall EXCEPT ![h] = c]
    BY <1>2, EditReadStep
  <2> QED
    BY <1>2, <2>1, CallTyped, ContentTyping DEF EditRead
<1>3. ASSUME NEW h \in ContentCalls, CityLookup(h)
      PROVE  Typed
  BY <1>3, LookupStep, CallTyped, ContentTyping DEF CityLookup
<1>4. ASSUME NEW h \in ContentCalls, Leave(h)
      PROVE  dCall' \in [ContentCalls -> Call]
  BY <1>4, QuietTyped, CallTyped DEF Leave
<1>5. ASSUME NEW h \in ContentCalls, CityEnter(h)
      PROVE  Typed
  <2>1. dCall[h] \in Call /\ dCall[h].patch.city \in CityNames
    BY <1>5, ContentTyping DEF CityEnter, At, ContentInv, LooksInTurn
  <2>2. CASE cityAt[KeyOf(h)] = Nothing
    <3>1. [dCall[h] EXCEPT !.at = "store"] \in Call
      BY <2>1 DEF Call, Steps
    <3>2. dCall' = [dCall EXCEPT ![h] = [dCall[h] EXCEPT !.at = "store"]]
      BY <1>5, <2>2 DEF CityEnter
    <3>3. cityAt' \in [CityKeys -> CityNames \union {Nothing}]
      BY <1>5, <2>1, <2>2, ContentTyping DEF CityEnter
    <3> QED
      BY <1>5, <3>1, <3>2, <3>3, CallTyped, ContentTyping DEF CityEnter
  <2>3. CASE cityAt[KeyOf(h)] # Nothing
    BY <1>4, <1>5, <2>3, ContentTyping DEF CityEnter
  <2> QED
    BY <2>2, <2>3
<1>6. ASSUME NEW h \in ContentCalls, NEW i \in Items, Store(h, i)
      PROVE  Typed
  <2>1. NewContent(dCall[h].patch) \in Content
    <3>1. dCall[h].patch \in Patch
      BY ContentTyping DEF Call
    <3> QED
      BY <3>1, NewContentTyped DEF Patch
  <2> QED
    BY <1>4, <1>6, <2>1, ContentTyping DEF Store
<1>7. ASSUME NEW i \in Items, NEW j \in Items, Duplicate(i, j)
      PROVE  Typed
  <2>1. NewContent(content[i]) \in Content
    BY NewContentTyped, ContentTyping DEF Content
  <2> QED
    BY <1>7, <2>1, ContentTyping DEF Duplicate
<1>8. ASSUME NEW h \in ContentCalls, EditWrite(h)
      PROVE  Typed
  <2>1. /\ dCall[h].item \in Items
        /\ content'[dCall[h].item] \in Content
        /\ content' = [content EXCEPT ![dCall[h].item] = content'[dCall[h].item]]
    BY <1>8, Edited
  <2>2. content' \in [Items -> Content]
    BY <2>1, ContentTyping
  <2>3. interrupted' \subseteq Items
    BY <1>8, <2>1, ContentTyping DEF EditWrite
  <2>4. Leave(h) /\ cityAt' = cityAt
    BY <1>8 DEF EditWrite
  <2> QED
    BY <1>4, <2>2, <2>3, <2>4, ContentTyping
<1>9. ASSUME NEW h \in ContentCalls, ContentFail(h)
      PROVE  Typed
  BY <1>4, <1>9, ContentTyping DEF ContentFail
<1>10. CASE UNCHANGED contentVars
  BY <1>10, ContentTyping DEF contentVars
<1> QED
  BY <1>1, <1>2, <1>3, <1>5, <1>6, <1>7, <1>8, <1>9, <1>10 DEF ContentNext

-----------------------------------------------------------------------------
(* The cities of a key are entered in turn, and edits know what they edit. *)

\* What LooksInTurn and CopiesAreFresh say of a call.
Looks(c, cities) ==
  c.at \in {"city", "enter"} =>
    /\ c.patch.city \in CityNames
    /\ c.suffix \in 1..MaxSuffix
    /\ \A s \in 1..MaxSuffix : s < c.suffix =>
         cities[<<BaseKey[c.patch.city], s>>] \notin {Nothing, c.patch.city}

Knows(c, requests, cut) ==
  c.at = "edit" =>
    /\ c.item \in Items
    /\ requests[c.item].there
    /\ c.item \notin cut => c.copy = CopyOf(requests[c.item])

LEMMA InvOfCalls ==
  ContentInv <=> /\ CitiesInTurn /\ DerivedFieldsFollow
                 /\ \A h \in ContentCalls : /\ Looks(dCall[h], cityAt)
                                           /\ Knows(dCall[h], content, interrupted)
BY DEF ContentInv, LooksInTurn, CopiesAreFresh, Looks, Knows, At

LEMMA InvOfCallsNext ==
  ContentInv' <=> /\ CitiesInTurn' /\ DerivedFieldsFollow'
                  /\ \A h \in ContentCalls : /\ Looks(dCall'[h], cityAt')
                                            /\ Knows(dCall'[h], content', interrupted')
BY DEF ContentInv, LooksInTurn, CopiesAreFresh, Looks, Knows, At

\* A step of one call that writes nothing.
LEMMA CallOnly ==
  ASSUME ContentTypeOK, ContentInv, NEW h \in ContentCalls, NEW c \in Call,
         UNCHANGED <<cityAt, content, interrupted>>,
         dCall' = [dCall EXCEPT ![h] = c],
         Looks(c, cityAt), Knows(c, content, interrupted)
  PROVE  ContentInv'
<1>1. dCall'[h] = c /\ \A g \in ContentCalls \ {h} : dCall'[g] = dCall[g]
  BY CallTyped
<1>2. CitiesInTurn' /\ DerivedFieldsFollow'
  BY DEF ContentInv, CitiesInTurn, DerivedFieldsFollow
<1> QED
  BY <1>1, <1>2, InvOfCalls, InvOfCallsNext

LEMMA QuietIsQuiet ==
  \A cities, requests, cut : Looks(Quiet, cities) /\ Knows(Quiet, requests, cut)
BY DEF Looks, Knows, Quiet

\* A step that ends calls and enters no city.
LEMMA StoreOnly ==
  ASSUME ContentTypeOK, ContentInv, UNCHANGED cityAt,
         \A g \in ContentCalls : dCall'[g] = dCall[g] \/ dCall'[g] = Quiet,
         \A g \in ContentCalls : Knows(dCall'[g], content', interrupted'),
         DerivedFieldsFollow'
  PROVE  ContentInv'
<1>1. CitiesInTurn'
  BY DEF ContentInv, CitiesInTurn
<1> QED
  BY <1>1, InvOfCalls, InvOfCallsNext, QuietIsQuiet

LEMMA ContentInitInv == ContentInit => ContentInv
<1> SUFFICES ASSUME ContentInit PROVE ContentInv
  OBVIOUS
<1>1. CitiesInTurn
  BY DEF ContentInit, CitiesInTurn
<1>2. \A h \in ContentCalls : dCall[h] = Quiet
  BY DEF ContentInit
<1>3. DerivedFieldsFollow
  BY DEF ContentInit, DerivedFieldsFollow, Absent
<1> QED
  BY <1>1, <1>2, <1>3, QuietIsQuiet, InvOfCalls

\* The first call that finds a number free enters its city there; it is nowhere else.
LEMMA EnterKeepsInv ==
  ASSUME ContentTypeOK, ContentInv, NEW h \in ContentCalls, CityEnter(h)
  PROVE  ContentInv'
<1> DEFINE n == dCall[h].patch.city
           s == dCall[h].suffix
           key == <<BaseKey[n], s>>
           c == [dCall[h] EXCEPT !.at = "store"]
<1>1. /\ n \in CityNames /\ s \in 1..MaxSuffix /\ key \in CityKeys /\ KeyOf(h) = key
      /\ \A x \in 1..MaxSuffix : x < s => cityAt[<<BaseKey[n], x>>] \notin {Nothing, n}
  BY KeysTyped DEF CityEnter, At, ContentInv, LooksInTurn, KeyOf
<1>2. dCall[h] \in Call /\ c \in Call /\ c.at = "store"
  BY ContentTyping DEF Call, Steps
<1>3. CASE cityAt[key] # Nothing
  BY <1>1, <1>3, CallOnly, QuietTyped, QuietIsQuiet DEF CityEnter, Leave
<1>4. CASE cityAt[key] = Nothing
  <2>1. /\ dCall' = [dCall EXCEPT ![h] = c]
        /\ cityAt' = [cityAt EXCEPT ![key] = n]
        /\ content' = content /\ interrupted' = interrupted
    BY <1>1, <1>4 DEF CityEnter
  <2>2. /\ cityAt'[key] = n
        /\ \A k \in CityKeys \ {key} : cityAt'[k] = cityAt[k]
    BY <1>1, <2>1, ContentTyping
  <2>3. n # Nothing
    BY <1>1, ContentAssumption
  <2>4. \A k \in CityKeys : k = <<k[1], k[2]>> /\ k[2] \in 1..MaxSuffix
                           /\ \A x \in 1..MaxSuffix : <<k[1], x>> \in CityKeys
    BY DEF CityKeys
  <2>5. CitiesInTurn'
    <3> SUFFICES ASSUME NEW k \in CityKeys, cityAt'[k] # Nothing
                 PROVE  /\ k[1] = BaseKey[cityAt'[k]]
                        /\ \A x \in 1..MaxSuffix :
                             x < k[2] => cityAt'[<<k[1], x>>] \notin {Nothing, cityAt'[k]}
      BY DEF CitiesInTurn, CityKeys
    <3>1. CASE k = key
      <4>1. k[1] = BaseKey[n] /\ k[2] = s
        BY <3>1
      <4>2. ASSUME NEW x \in 1..MaxSuffix, x < s
            PROVE  cityAt'[<<BaseKey[n], x>>] \notin {Nothing, n}
        <5>1. <<BaseKey[n], x>> \in CityKeys /\ <<BaseKey[n], x>> # key
          BY <1>1, <4>2, KeysTyped
        <5> QED
          BY <1>1, <2>2, <4>2, <5>1
      <4> QED
        BY <2>2, <3>1, <4>1, <4>2
    <3>2. CASE k # key
      <4>1. /\ cityAt'[k] = cityAt[k] /\ k[1] = BaseKey[cityAt[k]]
            /\ \A x \in 1..MaxSuffix :
                 x < k[2] => cityAt[<<k[1], x>>] \notin {Nothing, cityAt[k]}
        BY <2>2, <3>2 DEF ContentInv, CitiesInTurn
      <4>2. ASSUME NEW x \in 1..MaxSuffix, x < k[2]
            PROVE  cityAt'[<<k[1], x>>] \notin {Nothing, cityAt[k]}
        <5>1. cityAt[<<k[1], x>>] \notin {Nothing, cityAt[k]}
          BY <4>1, <4>2
        <5>2. <<k[1], x>> # key
          BY <1>4, <5>1
        <5> QED
          BY <2>2, <2>4, <5>1, <5>2
      <4> QED
        BY <4>1, <4>2
    <3> QED
      BY <3>1, <3>2
  <2>6. \A k \in CityKeys : cityAt[k] # Nothing => cityAt'[k] = cityAt[k]
    BY <1>4, <2>2
  <2>7. dCall'[h] = c /\ \A g \in ContentCalls \ {h} : dCall'[g] = dCall[g]
    BY <1>2, <2>1, CallTyped
  <2>8. ASSUME NEW g \in ContentCalls
        PROVE  Looks(dCall'[g], cityAt') /\ Knows(dCall'[g], content', interrupted')
    <3>1. CASE g = h
      BY <1>2, <2>7, <3>1 DEF Looks, Knows
    <3>2. CASE g # h
      <4>1. dCall'[g] = dCall[g]
        BY <2>7, <3>2
      <4>2. Looks(dCall[g], cityAt) /\ Knows(dCall[g], content, interrupted)
        BY InvOfCalls
      <4>3. Looks(dCall[g], cityAt')
        BY <2>6, <4>2, KeysTyped DEF Looks
      <4> QED
        BY <2>1, <4>1, <4>2, <4>3
    <3> QED
      BY <3>1, <3>2
  <2>9. DerivedFieldsFollow'
    BY <2>1 DEF ContentInv, DerivedFieldsFollow
  <2> QED
    BY <2>5, <2>8, <2>9, InvOfCallsNext
<1> QED
  BY <1>3, <1>4

\* A request that was not there is stored as new; no edit knows it yet.
LEMMA NewKeepsInv ==
  ASSUME ContentTypeOK, ContentInv, NEW i \in Items, ~content[i].there, NEW p,
         content' = [content EXCEPT ![i] = NewContent(p)],
         UNCHANGED <<cityAt, interrupted>>,
         \A g \in ContentCalls : dCall'[g] = dCall[g] \/ dCall'[g] = Quiet
  PROVE  ContentInv'
<1>1. /\ content'[i] = NewContent(p)
      /\ \A j \in Items \ {i} : content'[j] = content[j]
  BY ContentTyping
<1>2. DerivedFieldsFollow'
  <2> SUFFICES ASSUME NEW j \in Items, content'[j].there
               PROVE  /\ j \notin interrupted' =>
                           content'[j].searchText = Text(content'[j].title, content'[j].city)
                      /\ \/ content'[j].priceTrend = Nothing /\ content'[j].previousPrice = Nothing
                         \/ content'[j].priceTrend = "up" /\ content'[j].price > content'[j].previousPrice
                         \/ content'[j].priceTrend = "down" /\ content'[j].price < content'[j].previousPrice
    BY DEF DerivedFieldsFollow
  <2>1. CASE j = i
    BY <1>1, <2>1 DEF NewContent
  <2>2. CASE j # i
    BY <1>1, <2>2 DEF ContentInv, DerivedFieldsFollow
  <2> QED
    BY <2>1, <2>2
<1>3. ASSUME NEW g \in ContentCalls
      PROVE  Knows(dCall'[g], content', interrupted')
  <2>1. CASE dCall'[g] = Quiet
    BY <2>1, QuietIsQuiet
  <2>2. CASE dCall'[g] = dCall[g]
    <3>1. Knows(dCall[g], content, interrupted)
      BY InvOfCalls
    <3> QED
      BY <1>1, <2>2, <3>1 DEF Knows
  <2> QED
    BY <2>1, <2>2
<1> QED
  BY <1>2, <1>3, StoreOnly

\* An edit that writes makes stale the copies of the others of its request, and marks it.
LEMMA EditKeepsInv ==
  ASSUME ContentTypeOK, ContentInv, NEW h \in ContentCalls, EditWrite(h)
  PROVE  ContentInv'
<1> DEFINE i == dCall[h].item
<1>1. /\ i \in Items
      /\ content'[i].there
      /\ i \notin interrupted => content'[i].searchText = Text(content'[i].title, content'[i].city)
      /\ \/ content'[i].priceTrend = Nothing /\ content'[i].previousPrice = Nothing
         \/ content'[i].priceTrend = "up" /\ content'[i].price > content'[i].previousPrice
         \/ content'[i].priceTrend = "down" /\ content'[i].price < content'[i].previousPrice
  BY Edited
<1>2. content' = [content EXCEPT ![i] = content'[i]]
  BY Edited
<1>3. \A j \in Items \ {i} : content'[j] = content[j]
  <2> DEFINE new == content'[i]
  <2>1. content' = [content EXCEPT ![i] = new]
    BY <1>2
  <2> HIDE DEF new, i
  <2> QED
    BY <2>1, ContentTyping
<1>4. /\ interrupted' = IF \E g \in ContentCalls \ {h} : At(g, "edit") /\ dCall[g].item = i
                          THEN interrupted \union {i} ELSE interrupted
      /\ Leave(h) /\ cityAt' = cityAt
  BY DEF EditWrite
<1>5. interrupted \subseteq interrupted' /\ interrupted' \subseteq interrupted \union {i}
  BY <1>4
<1>6. dCall'[h] = Quiet /\ \A g \in ContentCalls \ {h} : dCall'[g] = dCall[g]
  BY <1>4, QuietTyped, CallTyped DEF Leave
<1> HIDE DEF i
<1>7. DerivedFieldsFollow'
  <2> SUFFICES ASSUME NEW j \in Items, content'[j].there
               PROVE  /\ j \notin interrupted' =>
                           content'[j].searchText = Text(content'[j].title, content'[j].city)
                      /\ \/ content'[j].priceTrend = Nothing /\ content'[j].previousPrice = Nothing
                         \/ content'[j].priceTrend = "up" /\ content'[j].price > content'[j].previousPrice
                         \/ content'[j].priceTrend = "down" /\ content'[j].price < content'[j].previousPrice
    BY DEF DerivedFieldsFollow
  <2>1. CASE j = i
    BY <1>1, <1>5, <2>1
  <2>2. CASE j # i
    BY <1>3, <1>5, <2>2 DEF ContentInv, DerivedFieldsFollow
  <2> QED
    BY <2>1, <2>2
<1>8. ASSUME NEW g \in ContentCalls
      PROVE  Knows(dCall'[g], content', interrupted')
  <2>1. CASE g = h
    BY <1>6, <2>1, QuietIsQuiet
  <2>2. CASE g # h
    <3>1. dCall'[g] = dCall[g]
      BY <1>6, <2>2
    <3>2. Knows(dCall[g], content, interrupted)
      BY InvOfCalls
    <3>3. CASE dCall[g].item = i
      <4>1. dCall[g].at = "edit" => i \in interrupted'
        BY <1>4, <2>2, <3>3 DEF At
      <4> QED
        BY <1>1, <3>1, <3>3, <4>1 DEF Knows
    <3>4. CASE dCall[g].item # i
      BY <1>3, <1>5, <3>1, <3>2, <3>4 DEF Knows
    <3> QED
      BY <3>3, <3>4
  <2> QED
    BY <2>1, <2>2
<1> QED
  BY <1>4, <1>6, <1>7, <1>8, StoreOnly

LEMMA ContentNextInv ==
  ContentTypeOK /\ ContentInv /\ [ContentNext]_contentVars => ContentInv'
<1> SUFFICES ASSUME ContentTypeOK, ContentInv, [ContentNext]_contentVars
             PROVE  ContentInv'
  OBVIOUS
<1>1. ASSUME NEW h \in ContentCalls, NEW p \in Patch, CreateBegin(h, p)
      PROVE  ContentInv'
  <2>1. PICK c \in Call : /\ dCall' = [dCall EXCEPT ![h] = c]
                          /\ c.at \in {"city", "store"}
                          /\ c.at = "city" => c.patch.city \in CityNames /\ c.suffix = 1
    BY <1>1, BeginStep
  <2>2. Looks(c, cityAt)
    <3>1. MaxSuffix \in Nat \ {0}
      BY ContentAssumption
    <3> QED
      BY <2>1, <3>1 DEF Looks
  <2>3. Knows(c, content, interrupted)
    BY <2>1 DEF Knows
  <2>4. UNCHANGED <<cityAt, content, interrupted>>
    BY <1>1 DEF CreateBegin
  <2> QED
    BY <2>1, <2>2, <2>3, <2>4, CallOnly
<1>2. ASSUME NEW h \in ContentCalls, NEW i \in Items, NEW p \in Patch, EditRead(h, i, p)
      PROVE  ContentInv'
  <2>1. PICK c \in Call : /\ dCall' = [dCall EXCEPT ![h] = c]
                          /\ c.at = "edit" /\ c.item = i /\ c.copy = CopyOf(content[i])
    BY <1>2, EditReadStep
  <2>2. content[i].there /\ UNCHANGED <<cityAt, content, interrupted>>
    BY <1>2 DEF EditRead
  <2>3. Looks(c, cityAt)
    BY <2>1 DEF Looks
  <2>4. Knows(c, content, interrupted)
    BY <2>1, <2>2 DEF Knows
  <2> QED
    BY <2>1, <2>2, <2>3, <2>4, CallOnly
<1>3. ASSUME NEW h \in ContentCalls, CityLookup(h)
      PROVE  ContentInv'
  <2> DEFINE n == dCall[h].patch.city
             s == dCall[h].suffix
             here == cityAt[<<BaseKey[n], s>>]
  <2>1. PICK c \in Call :
           /\ dCall' = [dCall EXCEPT ![h] = c]
           /\ c.at # "edit"
           /\ c.at = "enter" => c.patch = dCall[h].patch /\ c.suffix = s
           /\ c.at = "city" => /\ c.patch = dCall[h].patch
                              /\ c.suffix = s + 1 /\ s < MaxSuffix
                              /\ here \notin {Nothing, n}
    BY <1>3, LookupStep
  <2>2. /\ n \in CityNames /\ s \in 1..MaxSuffix /\ MaxSuffix \in Nat
        /\ \A x \in 1..MaxSuffix : x < s => cityAt[<<BaseKey[n], x>>] \notin {Nothing, n}
    BY <1>3, ContentAssumption DEF CityLookup, At, ContentInv, LooksInTurn
  <2>3. Looks(c, cityAt)
    <3>1. CASE c.at = "city"
      <4>1. c.patch.city = n /\ c.suffix = s + 1 /\ s + 1 \in 1..MaxSuffix
        BY <2>1, <2>2, <3>1
      <4>2. ASSUME NEW x \in 1..MaxSuffix, x < s + 1
            PROVE  cityAt[<<BaseKey[n], x>>] \notin {Nothing, n}
        <5>1. CASE x = s
          BY <2>1, <3>1, <5>1
        <5>2. CASE x # s
          BY <2>2, <4>2, <5>2
        <5> QED
          BY <5>1, <5>2
      <4> HIDE DEF n, s
      <4> QED
        BY <2>2, <4>1, <4>2 DEF Looks
    <3>2. CASE c.at = "enter"
      BY <2>1, <2>2, <3>2 DEF Looks
    <3>3. CASE c.at \notin {"city", "enter"}
      BY <3>3 DEF Looks
    <3> QED
      BY <3>1, <3>2, <3>3
  <2>4. Knows(c, content, interrupted)
    BY <2>1 DEF Knows
  <2>5. UNCHANGED <<cityAt, content, interrupted>>
    BY <1>3 DEF CityLookup
  <2> QED
    BY <2>1, <2>3, <2>4, <2>5, CallOnly
<1>4. ASSUME NEW h \in ContentCalls, NEW i \in Items, Store(h, i)
      PROVE  ContentInv'
  <2>1. \A g \in ContentCalls : dCall'[g] = dCall[g] \/ dCall'[g] = Quiet
    BY <1>4, QuietTyped, CallTyped DEF Store, Leave
  <2> QED
    BY <1>4, <2>1, NewKeepsInv DEF Store
<1>5. ASSUME NEW i \in Items, NEW j \in Items, Duplicate(i, j)
      PROVE  ContentInv'
  BY <1>5, NewKeepsInv DEF Duplicate
<1>6. ASSUME NEW h \in ContentCalls, ContentFail(h)
      PROVE  ContentInv'
  BY <1>6, CallOnly, QuietTyped, QuietIsQuiet DEF ContentFail, Leave
<1>7. CASE UNCHANGED contentVars
  BY <1>7 DEF contentVars, ContentInv, CitiesInTurn, LooksInTurn, CopiesAreFresh,
              DerivedFieldsFollow, At
<1> QED
  BY <1>1, <1>2, <1>3, <1>4, <1>5, <1>6, <1>7, EnterKeepsInv, EditKeepsInv DEF ContentNext

LEMMA ContentInvAlways == ContentSpec => [](ContentTypeOK /\ ContentInv)
<1>1. ContentInit => ContentTypeOK /\ ContentInv
  BY ContentInitTyped, ContentInitInv
<1>2. ContentTypeOK /\ ContentInv /\ [ContentNext]_contentVars => (ContentTypeOK /\ ContentInv)'
  BY ContentNextTyped, ContentNextInv
<1> QED
  BY <1>1, <1>2, PTL DEF ContentSpec

-----------------------------------------------------------------------------
(* The theorems. *)

\* Were a name under two keys, they would be two numbers of one key, and the higher of
\* them was taken only after the lower was seen to hold another name.
LEMMA InTurnMeansOnce == ContentTypeOK /\ CitiesInTurn => OneCityPerName
<1> SUFFICES ASSUME ContentTypeOK, CitiesInTurn, NEW k \in CityKeys, NEW l \in CityKeys,
                    cityAt[k] # Nothing, cityAt[k] = cityAt[l]
             PROVE  k = l
  BY DEF OneCityPerName
<1>1. /\ k = <<k[1], k[2]>> /\ k[2] \in 1..MaxSuffix
      /\ l = <<l[1], l[2]>> /\ l[2] \in 1..MaxSuffix
  BY DEF CityKeys
<1>2. k[1] = l[1]
  BY DEF CitiesInTurn
<1>3. ~(k[2] < l[2]) /\ ~(l[2] < k[2])
  BY <1>1, <1>2 DEF CitiesInTurn
<1>4. k[2] = l[2]
  BY <1>1, <1>3, ContentAssumption
<1> QED
  BY <1>1, <1>2, <1>4

\* resolveOrCreate() of cities.service.ts: however calls interleave and whatever names
\* share a key, no name is ever in the list of cities twice.
THEOREM OneCityEach == ContentSpec => []OneCityPerName
<1>1. ContentTypeOK /\ ContentInv => OneCityPerName
  BY InTurnMeansOnce DEF ContentInv
<1> QED
  BY <1>1, ContentInvAlways, PTL

\* updateMyClientRequest() of requests.service.ts: search text and price arrow follow
\* the title, city and price, where no edit overlapped another, for any number of calls.
THEOREM DerivedFieldsAlwaysFollow == ContentSpec => []DerivedFieldsFollow
<1>1. ContentTypeOK /\ ContentInv => DerivedFieldsFollow
  BY DEF ContentInv
<1> QED
  BY <1>1, ContentInvAlways, PTL

-----------------------------------------------------------------------------
(* Accounts and profiles. *)

SheetFields == {"there", "status", "blocked", "name", "city", "services", "price"}

CallFields == {"at", "form", "patch", "stale"}

LEMMA NothingThere == \A f : f \notin DOMAIN <<>>
OBVIOUS

LEMMA BlankHas == DOMAIN Blank = SheetFields
BY DEF Blank, SheetFields

LEMMA AtRestHas == /\ DOMAIN AtRest = CallFields /\ AtRest.at = "idle"
                   /\ AtRest.patch = <<>> /\ AtRest.form = <<>>
BY DEF AtRest, CallFields

\* What is laid over a profile is what changes of it.
LEMMA PutOverHas ==
  ASSUME NEW s, DOMAIN s = SheetFields, NEW p
  PROVE  /\ DOMAIN PutOver(s, p) = SheetFields
         /\ \A f \in SheetFields : PutOver(s, p)[f] = IF f \in DOMAIN p THEN p[f] ELSE s[f]
BY DEF PutOver

\* What a form asks for is its own: never a status.
LEMMA PatchHas ==
  ASSUME NEW form
  PROVE  /\ DOMAIN PatchOf(form) \subseteq Wishes
         /\ "label" \in DOMAIN form =>
              "city" \in DOMAIN PatchOf(form) /\ PatchOf(form)["city"] = CityOf(form.label)
         /\ "choice" \in DOMAIN form =>
              /\ "services" \in DOMAIN PatchOf(form)
              /\ PatchOf(form)["services"] = TradesOf(form.choice)
         /\ "label" \notin DOMAIN form => "city" \notin DOMAIN PatchOf(form)
         /\ "choice" \notin DOMAIN form => "services" \notin DOMAIN PatchOf(form)
<1> DEFINE given == ({"name", "price"} \intersect DOMAIN form)
                      \union (IF "choice" \in DOMAIN form THEN {"services"} ELSE {})
                      \union (IF "label" \in DOMAIN form THEN {"city"} ELSE {})
<1>1. /\ DOMAIN PatchOf(form) = given
      /\ "city" \in given => PatchOf(form)["city"] = CityOf(form.label)
      /\ "services" \in given => PatchOf(form)["services"] = TradesOf(form.choice)
  BY DEF PatchOf
<1>2. /\ given \subseteq Wishes
      /\ "label" \in DOMAIN form <=> "city" \in given
      /\ "choice" \in DOMAIN form <=> "services" \in given
  BY DEF Wishes
<1> QED
  BY <1>1, <1>2

\* What is saved of a patch: the fields that differ, and the status of a complete draft.
LEMMA ChangesHave ==
  ASSUME DOMAIN sheet = SheetFields, NEW p, DOMAIN p \subseteq Wishes
  PROVE  /\ DOMAIN Changes(p) \subseteq Wishes \union {"status"}
         /\ "status" \in DOMAIN Changes(p) <=>
              sheet.status = "draft" /\ IsComplete(PutOver(sheet, p))
         /\ "status" \in DOMAIN Changes(p) => Changes(p)["status"] = "active"
         /\ \A f \in Wishes : PutOver(sheet, Changes(p))[f] = PutOver(sheet, p)[f]
<1> DEFINE status == IF sheet.status = "draft" /\ IsComplete(PutOver(sheet, p))
                     THEN {"status"} ELSE {}
           fields == {f \in DOMAIN p : p[f] # sheet[f]}
<1>1. Changes(p) = [f \in fields \union status |-> IF f = "status" THEN "active" ELSE p[f]]
  BY DEF Changes
<1>2. "status" \notin Wishes /\ Wishes \subseteq SheetFields /\ fields \subseteq Wishes
  BY DEF Wishes, SheetFields
<1>3. /\ DOMAIN Changes(p) = fields \union status
      /\ \A f \in fields : Changes(p)[f] = p[f]
      /\ "status" \in status => Changes(p)["status"] = "active"
  <2> HIDE DEF status, fields
  <2> QED
    BY <1>1, <1>2
<1>4. ("status" \in DOMAIN Changes(p)) <=>
        (sheet.status = "draft" /\ IsComplete(PutOver(sheet, p)))
  BY <1>2, <1>3
<1>5. ASSUME NEW f \in Wishes PROVE PutOver(sheet, Changes(p))[f] = PutOver(sheet, p)[f]
  <2>1. f \in SheetFields /\ f # "status"
    BY <1>2
  <2>2. PutOver(sheet, Changes(p))[f] = IF f \in DOMAIN Changes(p) THEN Changes(p)[f] ELSE sheet[f]
    BY <2>1, PutOverHas
  <2>3. PutOver(sheet, p)[f] = IF f \in DOMAIN p THEN p[f] ELSE sheet[f]
    BY <2>1, PutOverHas
  <2>4. f \in DOMAIN Changes(p) <=> f \in fields
    BY <1>3, <2>1
  <2> HIDE DEF status
  <2> QED
    BY <1>3, <2>2, <2>3, <2>4
<1> QED
  BY <1>2, <1>3, <1>4, <1>5

\* Whether a profile is complete is seen from four of its fields.
LEMMA CompleteAlike ==
  ASSUME NEW s, NEW t, \A f \in Wishes : s[f] = t[f]
  PROVE  IsComplete(s) <=> IsComplete(t)
<1>1. s.name = t.name /\ s.city = t.city /\ s.services = t.services /\ s.price = t.price
  BY DEF Wishes
<1> QED
  BY <1>1 DEF IsComplete

LEMMA CallsOfProfileMove ==
  ASSUME ProfileShape, NEW h \in ProfileCalls, NEW r, fCall' = [fCall EXCEPT ![h] = r],
         DOMAIN r = CallFields
  PROVE  /\ DOMAIN fCall' = ProfileCalls /\ fCall'[h] = r
         /\ \A g \in ProfileCalls : DOMAIN fCall'[g] = CallFields
         /\ \A g \in ProfileCalls : g # h => fCall'[g] = fCall[g]
<1>1. DOMAIN fCall = ProfileCalls /\ \A g \in ProfileCalls : DOMAIN fCall[g] = CallFields
  BY DEF ProfileShape, CallFields
<1>2. DOMAIN fCall' = ProfileCalls /\ fCall'[h] = r
  BY <1>1
<1>3. \A g \in ProfileCalls : g # h => fCall'[g] = fCall[g]
  BY <1>1
<1> QED
  BY <1>1, <1>2, <1>3

\* Two profiles that differ in nothing but whether they are there.
SameSheet(s, t) == \A f \in SheetFields \ {"there"} : s[f] = t[f]

LEMMA SameSheetHas ==
  ASSUME NEW s, NEW t, SameSheet(s, t)
  PROVE  /\ s.status = t.status /\ s.blocked = t.blocked /\ s.city = t.city
         /\ s.services = t.services /\ (IsComplete(s) <=> IsComplete(t))
<1>1. \A f \in Wishes : s[f] = t[f]
  BY DEF SameSheet, SheetFields, Wishes
<1>2. s["status"] = t["status"] /\ s["blocked"] = t["blocked"]
  BY DEF SameSheet, SheetFields
<1>3. s["city"] = t["city"] /\ s["services"] = t["services"]
  BY DEF SameSheet, SheetFields
<1> QED
  BY <1>1, <1>2, <1>3, CompleteAlike

\* What is laid over the two differs in no more.
LEMMA SamePutOver ==
  ASSUME NEW s, NEW t, DOMAIN s = SheetFields, DOMAIN t = SheetFields, SameSheet(s, t), NEW p
  PROVE  SameSheet(PutOver(s, p), PutOver(t, p))
BY PutOverHas DEF SameSheet

\* The steps that change of the profile at most that it is there: a call that begins,
\* goes on or ends, with what it is to write in good order.
LEMMA CallGoesOn ==
  ASSUME ActivationInv, NEW h \in ProfileCalls, NEW r, fCall' = [fCall EXCEPT ![h] = r],
         DOMAIN r = CallFields, CallHoldsItsOwn(h)',
         DOMAIN sheet' = SheetFields, SameSheet(sheet', sheet), sheet.there => sheet'.there,
         DOMAIN person' = {"there", "role", "label"}, person.there => person'.there,
         person'.role = "provider" => person'.there,
         cityFromPage' => cityFromPage /\ person'.label = person.label,
         UNCHANGED <<suspended, lateService, chosen>>,
         suspended = "yes" => "status" \notin DOMAIN r.patch,
         rough' = "no" => /\ rough = "no"
                          /\ \A g \in ProfileCalls : g # h => Stage(g, "idle"),
         rough' = "no" /\ r.at = "write" => /\ IsServed(PutOver(sheet, r.patch))
                                           /\ Follows(PutOver(sheet, r.patch), r.form),
         rough' = "no" /\ r.at \in {"resolve", "read", "write"} /\ "label" \in DOMAIN r.form =>
           person'.label = r.form.label
  PROVE  ActivationInv'
<1>1. ProfileShape
  BY DEF ActivationInv
<1>2. /\ DOMAIN fCall' = ProfileCalls /\ fCall'[h] = r
      /\ \A g \in ProfileCalls : DOMAIN fCall'[g] = CallFields
      /\ \A g \in ProfileCalls : g # h => fCall'[g] = fCall[g]
  BY <1>1, CallsOfProfileMove
<1>3. DOMAIN sheet = SheetFields
  BY <1>1, BlankHas DEF ProfileShape
<1>4. /\ sheet'.status = sheet.status /\ sheet'.blocked = sheet.blocked
      /\ sheet'.city = sheet.city /\ sheet'.services = sheet.services
      /\ (IsComplete(sheet') <=> IsComplete(sheet))
  BY SameSheetHas
<1>5. ProfileShape'
  <2>1. ASSUME NEW g \in ProfileCalls PROVE CallHoldsItsOwn(g)'
    <3>1. CASE g = h
      BY <3>1
    <3>2. CASE g # h
      BY <1>1, <1>2, <3>2 DEF ProfileShape, CallHoldsItsOwn
    <3> QED
      BY <3>1, <3>2
  <2>2. DOMAIN sheet' = DOMAIN Blank
    BY BlankHas
  <2>3. /\ suspended' = "no" => ~sheet'.blocked /\ sheet'.status # "suspended"
        /\ sheet'.status \in {"draft", "active", "suspended"}
        /\ sheet'.services # {} => sheet'.there
        /\ person'.role = "provider" \/ sheet'.services # {} \/ cityFromPage' => person'.there
    BY <1>1, <1>4 DEF ProfileShape
  <2> QED
    BY <1>2, <2>1, <2>2, <2>3 DEF ProfileShape, CallFields
<1>6. StatusIsLeft'
  BY <1>2, <1>4 DEF ActivationInv, StatusIsLeft
<1>7. CalmGoesTogether'
  <2>1. SUFFICES ASSUME rough' = "no" PROVE CalmGoesTogether'
    BY DEF CalmGoesTogether
  <2>2. rough = "no" /\ \A g \in ProfileCalls : g # h => Stage(g, "idle") /\ Stage(g, "idle")'
    BY <1>2, <2>1 DEF Stage
  <2>3. \A f, g \in ProfileCalls : ~Stage(f, "idle")' /\ ~Stage(g, "idle")' => f = g
    BY <2>2
  <2>4. IsServed(sheet)'
    BY <1>4, <2>2 DEF ActivationInv, CalmGoesTogether, IsServed
  <2>5. cityFromPage' => sheet'.city = CityOf(person'.label)
    BY <1>4, <2>2 DEF ActivationInv, CalmGoesTogether
  <2>6. chosen' # NoValue => sheet'.services = TradesOf(chosen') /\ IsAChoice(chosen')
    BY <1>4, <2>2 DEF ActivationInv, CalmGoesTogether
  <2>7. ASSUME NEW g \in ProfileCalls
        PROVE  /\ Stage(g, "write")' => /\ IsServed(PutOver(sheet, fCall[g].patch))'
                                       /\ Follows(PutOver(sheet, fCall[g].patch), fCall[g].form)'
               /\ fCall'[g].at \in {"resolve", "read", "write"} /\ "label" \in DOMAIN fCall'[g].form
                    => person'.label = fCall'[g].form.label
    <3>1. CASE g = h
      <4>1. ASSUME r.at = "write"
            PROVE  /\ IsServed(PutOver(sheet, fCall[g].patch))'
                   /\ Follows(PutOver(sheet, fCall[g].patch), fCall[g].form)'
        <5>1. /\ IsServed(PutOver(sheet, r.patch)) /\ Follows(PutOver(sheet, r.patch), r.form)
              /\ SameSheet(PutOver(sheet', r.patch), PutOver(sheet, r.patch))
          BY <1>3, <2>1, <4>1, SamePutOver
        <5>2. /\ PutOver(sheet', r.patch).status = PutOver(sheet, r.patch).status
              /\ PutOver(sheet', r.patch).city = PutOver(sheet, r.patch).city
              /\ PutOver(sheet', r.patch).services = PutOver(sheet, r.patch).services
              /\ (IsComplete(PutOver(sheet', r.patch)) <=> IsComplete(PutOver(sheet, r.patch)))
          BY <5>1, SameSheetHas
        <5> QED
          BY <1>2, <3>1, <5>1, <5>2 DEF IsServed, Follows
      <4> QED
        BY <1>2, <2>1, <3>1, <4>1 DEF Stage
    <3>2. CASE g # h
      BY <2>2, <3>2 DEF Stage
    <3> QED
      BY <3>1, <3>2
  <2> QED
    BY <2>3, <2>4, <2>5, <2>6, <2>7 DEF CalmGoesTogether
<1> QED
  BY <1>5, <1>6, <1>7 DEF ActivationInv

LEMMA SheetThere ==
  ASSUME DOMAIN sheet = SheetFields, sheet' = sheet \/ sheet' = [sheet EXCEPT !.there = TRUE]
  PROVE  /\ DOMAIN sheet' = SheetFields /\ SameSheet(sheet', sheet)
         /\ sheet.there => sheet'.there
         /\ sheet' = [sheet EXCEPT !.there = TRUE] => sheet'.there
BY DEF SameSheet, SheetFields

LEMMA BeginsHas ==
  ASSUME NEW h \in ProfileCalls, NEW step, NEW form, NEW patch, Begins(h, step, form, patch)
  PROVE  /\ \E r : /\ fCall' = [fCall EXCEPT ![h] = r] /\ DOMAIN r = CallFields
                   /\ r.at = step /\ r.form = form /\ r.patch = patch
         /\ rough' = "no" => rough = "no" /\ \A g \in ProfileCalls : Stage(g, "idle")
<1> DEFINE r == [at |-> step, form |-> form, patch |-> patch, stale |-> FALSE]
<1>1. /\ fCall' = [fCall EXCEPT ![h] = r] /\ DOMAIN r = CallFields
      /\ r.at = step /\ r.form = form /\ r.patch = patch
  BY DEF Begins, CallFields
<1>2. rough' = "no" => rough = "no" /\ \A g \in ProfileCalls : Stage(g, "idle")
  BY DEF Begins, Overlaps
<1> HIDE DEF r
<1> QED
  BY <1>1, <1>2

LEMMA ShapeHas ==
  ASSUME ActivationInv
  PROVE  /\ ProfileShape /\ DOMAIN sheet = SheetFields
         /\ DOMAIN person = {"there", "role", "label"}
         /\ person.role = "provider" \/ sheet.services # {} \/ cityFromPage => person.there
         /\ \A h \in ProfileCalls : CallHoldsItsOwn(h) /\ DOMAIN fCall[h] = CallFields
BY BlankHas DEF ActivationInv, ProfileShape, CallFields

LEMMA RegisterProfileKeeps ==
  ASSUME ActivationInv, NEW h \in ProfileCalls, NEW role \in {"client", "provider"},
         NEW form \in PageForms, RegisterProfile(h, role, form)
  PROVE  ActivationInv'
<1>3. PICK step \in {"account", "customer"} : Begins(h, step, form, <<>>)
  BY DEF RegisterProfile
<1>1. PICK r : /\ fCall' = [fCall EXCEPT ![h] = r] /\ DOMAIN r = CallFields
               /\ r.at = step /\ r.form = form /\ r.patch = <<>>
  BY <1>3, BeginsHas
<1>r. rough' = "no" => rough = "no" /\ \A g \in ProfileCalls : Stage(g, "idle")
  BY <1>3, BeginsHas
<1>2. /\ ~person.there /\ person' = [there |-> TRUE, role |-> role, label |-> form.label]
      /\ sheet' = sheet \/ sheet' = [sheet EXCEPT !.there = TRUE]
      /\ UNCHANGED <<suspended, cityFromPage, lateService, chosen>>
  BY DEF RegisterProfile
<1>4. CallHoldsItsOwn(h)'
  <2>1. fCall'[h] = r
    BY <1>1, ShapeHas, CallsOfProfileMove
  <2> QED
    BY <1>1, <1>2, <1>3, <2>1 DEF CallHoldsItsOwn, ProfileSteps
<1>5. /\ DOMAIN person' = {"there", "role", "label"} /\ person'.there
      /\ ~cityFromPage /\ "status" \notin DOMAIN r.patch
      /\ r.at \notin {"write", "resolve", "read"}
  BY <1>1, <1>2, <1>3, ShapeHas, NothingThere
<1>6. /\ DOMAIN sheet' = SheetFields /\ SameSheet(sheet', sheet) /\ (sheet.there => sheet'.there)
  BY <1>2, ShapeHas, SheetThere
<1> QED
  BY <1>1, <1>r, <1>2, <1>4, <1>5, <1>6, CallGoesOn

LEMMA SaveProfileKeeps ==
  ASSUME ActivationInv, NEW h \in ProfileCalls, NEW form \in PageForms, SaveProfile(h, form)
  PROVE  ActivationInv'
<1>1. PICK r : /\ fCall' = [fCall EXCEPT ![h] = r] /\ DOMAIN r = CallFields
               /\ r.at = "account" /\ r.form = form /\ r.patch = <<>>
  BY BeginsHas DEF SaveProfile
<1>r. rough' = "no" => rough = "no" /\ \A g \in ProfileCalls : Stage(g, "idle")
  BY BeginsHas DEF SaveProfile
<1>2. person.there /\ UNCHANGED <<person, sheet, suspended, cityFromPage, lateService, chosen>>
  BY DEF SaveProfile
<1>3. CallHoldsItsOwn(h)'
  <2>1. fCall'[h] = r
    BY <1>1, ShapeHas, CallsOfProfileMove
  <2> QED
    BY <1>1, <1>2, <2>1 DEF CallHoldsItsOwn, ProfileSteps
<1>4. /\ "status" \notin DOMAIN r.patch /\ r.at \notin {"write", "resolve", "read"}
      /\ DOMAIN person' = {"there", "role", "label"}
      /\ person'.role = "provider" => person'.there
  BY <1>1, <1>2, ShapeHas, NothingThere
<1>5. /\ DOMAIN sheet' = SheetFields /\ SameSheet(sheet', sheet) /\ (sheet.there => sheet'.there)
  BY <1>2, ShapeHas, SheetThere
<1> QED
  BY <1>1, <1>r, <1>2, <1>3, <1>4, <1>5, CallGoesOn

LEMMA PatchProfileKeeps ==
  ASSUME ActivationInv, NEW h \in ProfileCalls, NEW patch \in ProfilePatches,
         PatchProfile(h, patch)
  PROVE  ActivationInv'
<1>1. PICK r : /\ fCall' = [fCall EXCEPT ![h] = r] /\ DOMAIN r = CallFields
               /\ r.at = "read" /\ r.form = <<>> /\ r.patch = patch
  BY BeginsHas DEF PatchProfile
<1>r. rough' = "no" => rough = "no" /\ \A g \in ProfileCalls : Stage(g, "idle")
  BY BeginsHas DEF PatchProfile
<1>2. /\ UNCHANGED <<person, sheet, suspended, cityFromPage, lateService, chosen>>
      /\ person.there /\ sheet.there
  BY DEF PatchProfile
<1>3. DOMAIN patch \subseteq Wishes /\ "status" \notin DOMAIN patch
  BY ActivationAssumption DEF Wishes
<1>4. CallHoldsItsOwn(h)'
  <2>1. fCall'[h] = r
    BY <1>1, ShapeHas, CallsOfProfileMove
  <2> QED
    BY <1>1, <1>2, <1>3, <2>1 DEF CallHoldsItsOwn, ProfileSteps
<1>5. /\ "status" \notin DOMAIN r.patch /\ r.at # "write" /\ "label" \notin DOMAIN r.form
      /\ DOMAIN person' = {"there", "role", "label"}
      /\ person'.role = "provider" => person'.there
  BY <1>1, <1>2, <1>3, ShapeHas, NothingThere
<1>6. /\ DOMAIN sheet' = SheetFields /\ SameSheet(sheet', sheet) /\ (sheet.there => sheet'.there)
  BY <1>2, ShapeHas, SheetThere
<1> QED
  BY <1>1, <1>r, <1>2, <1>4, <1>5, <1>6, CallGoesOn

LEMMA LogInKeeps ==
  ASSUME ActivationInv, NEW h \in ProfileCalls, LogIn(h) PROVE ActivationInv'
<1> DEFINE p == [status |-> "active"]
<1>b. Begins(h, "write", <<>>, p)
  BY DEF LogIn
<1>3. DOMAIN p = {"status"} /\ p["status"] = "active"
  OBVIOUS
<1> HIDE DEF p
<1>1. PICK r : /\ fCall' = [fCall EXCEPT ![h] = r] /\ DOMAIN r = CallFields
               /\ r.at = "write" /\ r.form = <<>> /\ r.patch = p
  BY <1>b, BeginsHas
<1>r. rough' = "no" => rough = "no" /\ \A g \in ProfileCalls : Stage(g, "idle")
  BY <1>b, BeginsHas
<1>2. /\ UNCHANGED <<person, sheet, suspended, cityFromPage, lateService, chosen>>
      /\ person.role = "provider" /\ sheet.status = "draft" /\ sheet.services # {}
  BY DEF LogIn, IsComplete
<1>4. person.there /\ sheet.there
  BY <1>2, ShapeHas DEF ProfileShape
<1>5. CallHoldsItsOwn(h)'
  <2>1. fCall'[h] = r
    BY <1>1, ShapeHas, CallsOfProfileMove
  <2> QED
    BY <1>1, <1>2, <1>3, <1>4, <2>1 DEF CallHoldsItsOwn, ProfileSteps
<1>6. suspended # "yes"
  BY <1>2 DEF ActivationInv, StatusIsLeft
<1>7. IsServed(PutOver(sheet, r.patch)) /\ Follows(PutOver(sheet, r.patch), r.form)
  <2>1. PutOver(sheet, r.patch)["status"] = "active"
    BY <1>1, <1>3, ShapeHas, PutOverHas DEF SheetFields
  <2> QED
    BY <1>1, <2>1, NothingThere DEF IsServed, Follows
<1>8. /\ "label" \notin DOMAIN r.form /\ DOMAIN person' = {"there", "role", "label"}
      /\ person'.role = "provider" => person'.there
  BY <1>1, <1>2, ShapeHas, NothingThere
<1>9. /\ DOMAIN sheet' = SheetFields /\ SameSheet(sheet', sheet) /\ (sheet.there => sheet'.there)
  BY <1>2, ShapeHas, SheetThere
<1> QED
  BY <1>1, <1>r, <1>2, <1>5, <1>6, <1>7, <1>8, <1>9, CallGoesOn

LEMMA TurnsHas ==
  ASSUME NEW h \in ProfileCalls, NEW step, NEW patch, Turns(h, step, patch)
  PROVE  \E r : /\ fCall' = [fCall EXCEPT ![h] = r] /\ DOMAIN r = CallFields
                /\ r.at = step /\ r.form = fCall[h].form /\ r.patch = patch
<1> DEFINE r == [at |-> step, form |-> fCall[h].form, patch |-> patch, stale |-> fCall[h].stale]
<1>1. /\ fCall' = [fCall EXCEPT ![h] = r] /\ DOMAIN r = CallFields
      /\ r.at = step /\ r.form = fCall[h].form /\ r.patch = patch
  BY DEF Turns, CallFields
<1> HIDE DEF r
<1> QED
  BY <1>1

LEMMA ClosesHas ==
  ASSUME ProfileShape, NEW h \in ProfileCalls, Closes(h)
  PROVE  /\ fCall' = [fCall EXCEPT ![h] = AtRest] /\ DOMAIN AtRest = CallFields
         /\ CallHoldsItsOwn(h)' /\ "status" \notin DOMAIN AtRest.patch /\ AtRest.at = "idle"
<1>1. fCall' = [fCall EXCEPT ![h] = AtRest]
  BY DEF Closes
<1>2. fCall'[h] = AtRest
  BY <1>1, CallsOfProfileMove, AtRestHas
<1> QED
  BY <1>1, <1>2, AtRestHas, NothingThere DEF CallHoldsItsOwn, ProfileSteps

LEMMA AloneInCalm ==
  ASSUME ActivationInv, NEW h \in ProfileCalls, ~Stage(h, "idle"), rough = "no"
  PROVE  \A g \in ProfileCalls : g # h => Stage(g, "idle")
BY DEF ActivationInv, CalmGoesTogether

\* A call that ends writes no more; what it has done to the account stays.
LEMMA ClosingKeeps ==
  ASSUME ActivationInv, NEW h \in ProfileCalls, ~Stage(h, "idle"), Closes(h), sheet' = sheet,
         rough' = "no" => rough = "no",
         DOMAIN person' = {"there", "role", "label"}, person.there => person'.there,
         person'.role = "provider" => person'.there,
         cityFromPage' => cityFromPage /\ person'.label = person.label,
         UNCHANGED <<suspended, lateService, chosen>>
  PROVE  ActivationInv'
<1>1. /\ fCall' = [fCall EXCEPT ![h] = AtRest] /\ DOMAIN AtRest = CallFields
      /\ CallHoldsItsOwn(h)' /\ "status" \notin DOMAIN AtRest.patch /\ AtRest.at = "idle"
  BY ShapeHas, ClosesHas
<1>2. /\ DOMAIN sheet' = SheetFields /\ SameSheet(sheet', sheet) /\ (sheet.there => sheet'.there)
  BY ShapeHas, SheetThere
<1>3. rough' = "no" => rough = "no" /\ \A g \in ProfileCalls : g # h => Stage(g, "idle")
  BY AloneInCalm
<1> QED
  BY <1>1, <1>2, <1>3, CallGoesOn

LEMMA WriteAccountKeeps ==
  ASSUME ActivationInv, NEW h \in ProfileCalls, WriteAccount(h) PROVE ActivationInv'
<1>1. PICK form : form = fCall[h].form
  OBVIOUS
<1>2. /\ Stage(h, "account") \/ Stage(h, "customer")
      /\ UNCHANGED <<sheet, rough, suspended, lateService, chosen>>
      /\ \/ "label" \in DOMAIN form /\ person' = [person EXCEPT !.label = form.label] /\ ~cityFromPage'
         \/ "label" \notin DOMAIN form /\ UNCHANGED <<person, cityFromPage>>
  BY <1>1 DEF WriteAccount
<1>3. ~Stage(h, "idle")
  BY <1>2 DEF Stage
<1>4. /\ DOMAIN person' = {"there", "role", "label"} /\ person'.there = person.there
      /\ person'.role = "provider" => person'.there
      /\ cityFromPage' => cityFromPage /\ person'.label = person.label
      /\ "label" \in DOMAIN form => person'.label = form.label
  <2>1. CASE UNCHANGED <<person, cityFromPage>> /\ "label" \notin DOMAIN form
    BY <2>1, ShapeHas
  <2>2. CASE person' = [person EXCEPT !.label = form.label] /\ ~cityFromPage'
    <3>1. /\ DOMAIN person' = {"there", "role", "label"} /\ person'.there = person.there
          /\ person'.role = person.role /\ person'.label = form.label
      BY <2>2, ShapeHas
    <3> QED
      BY <2>2, <3>1, ShapeHas
  <2> QED
    BY <1>2, <2>1, <2>2
<1>5. CASE Stage(h, "customer")
  <2>1. Closes(h)
    BY <1>5 DEF WriteAccount
  <2> QED
    BY <1>2, <1>3, <1>4, <2>1, ClosingKeeps
<1>6. CASE ~Stage(h, "customer")
  <2>1. Turns(h, "resolve", fCall[h].patch)
    BY <1>6 DEF WriteAccount
  <2>2. PICK r : /\ fCall' = [fCall EXCEPT ![h] = r] /\ DOMAIN r = CallFields
                 /\ r.at = "resolve" /\ r.form = form /\ r.patch = fCall[h].patch
    BY <1>1, <2>1, TurnsHas
  <2>3. r.patch = <<>> /\ person'.there
    BY <1>2, <1>4, <2>2, ShapeHas DEF CallHoldsItsOwn, Stage
  <2>4. fCall'[h] = r
    BY <2>2, ShapeHas, CallsOfProfileMove
  <2>5. CallHoldsItsOwn(h)'
    BY <2>2, <2>3, <2>4 DEF CallHoldsItsOwn, ProfileSteps
  <2>6. /\ DOMAIN sheet' = SheetFields /\ SameSheet(sheet', sheet) /\ (sheet.there => sheet'.there)
    BY <1>2, ShapeHas, SheetThere
  <2>7. rough' = "no" => rough = "no" /\ \A g \in ProfileCalls : g # h => Stage(g, "idle")
    BY <1>2, <1>3, AloneInCalm
  <2>8. "status" \notin DOMAIN r.patch /\ r.at # "write"
    BY <2>2, <2>3, NothingThere
  <2> QED
    BY <1>2, <1>4, <2>2, <2>5, <2>6, <2>7, <2>8, CallGoesOn
<1> QED
  BY <1>5, <1>6

LEMMA ResolveFormKeeps ==
  ASSUME ActivationInv, NEW h \in ProfileCalls, ResolveForm(h) PROVE ActivationInv'
<1>1. PICK form : form = fCall[h].form
  OBVIOUS
<1>2. /\ Stage(h, "resolve") /\ ~Stage(h, "idle")
      /\ UNCHANGED <<person, rough, suspended, cityFromPage, lateService, chosen>>
      /\ \/ Closes(h) /\ UNCHANGED sheet
         \/ /\ ~Refused(form) /\ sheet' = [sheet EXCEPT !.there = TRUE]
            /\ Turns(h, "read", PatchOf(form))
  BY <1>1 DEF ResolveForm, Stage
<1>3. /\ DOMAIN person' = {"there", "role", "label"} /\ (person.there => person'.there)
      /\ person'.role = "provider" => person'.there
  BY <1>2, ShapeHas
<1>4. CASE Closes(h) /\ UNCHANGED sheet
  BY <1>2, <1>3, <1>4, ClosingKeeps
<1>5. CASE ~Refused(form) /\ sheet' = [sheet EXCEPT !.there = TRUE] /\ Turns(h, "read", PatchOf(form))
  <2>1. PICK r : /\ fCall' = [fCall EXCEPT ![h] = r] /\ DOMAIN r = CallFields
                 /\ r.at = "read" /\ r.form = form /\ r.patch = PatchOf(form)
    BY <1>1, <1>5, TurnsHas
  <2>2. DOMAIN r.patch \subseteq Wishes /\ "status" \notin DOMAIN r.patch
    BY <2>1, PatchHas DEF Wishes
  <2>3. /\ DOMAIN sheet' = SheetFields /\ SameSheet(sheet', sheet) /\ sheet'.there
    BY <1>5, ShapeHas, SheetThere
  <2>4. fCall'[h] = r
    BY <2>1, ShapeHas, CallsOfProfileMove
  <2>5. person.there
    BY <1>2, ShapeHas DEF CallHoldsItsOwn, Stage
  <2>6. CallHoldsItsOwn(h)'
    BY <1>2, <1>5, <2>1, <2>2, <2>3, <2>4, <2>5 DEF CallHoldsItsOwn, ProfileSteps
  <2>7. rough' = "no" => rough = "no" /\ \A g \in ProfileCalls : g # h => Stage(g, "idle")
    BY <1>2, AloneInCalm
  <2>8. rough' = "no" /\ "label" \in DOMAIN r.form => person'.label = r.form.label
    BY <1>1, <1>2, <2>1 DEF ActivationInv, CalmGoesTogether, Stage
  <2> QED
    BY <1>2, <1>3, <2>1, <2>2, <2>3, <2>6, <2>7, <2>8, CallGoesOn
<1> QED
  BY <1>2, <1>4, <1>5

LEMMA ReadProfileKeeps ==
  ASSUME ActivationInv, NEW h \in ProfileCalls, ReadProfile(h) PROVE ActivationInv'
<1>1. PICK p : p = fCall[h].patch
  OBVIOUS
<1>2. /\ Stage(h, "read") /\ ~Stage(h, "idle")
      /\ UNCHANGED <<person, sheet, rough, suspended, cityFromPage, lateService, chosen>>
      /\ Closes(h) \/ Turns(h, "write", Changes(p))
  BY <1>1 DEF ReadProfile, Stage
<1>3. /\ DOMAIN person' = {"there", "role", "label"} /\ (person.there => person'.there)
      /\ person'.role = "provider" => person'.there
  BY <1>2, ShapeHas
<1>4. CASE Closes(h)
  BY <1>2, <1>3, <1>4, ClosingKeeps
<1>5. CASE Turns(h, "write", Changes(p))
  <2>1. PICK r : /\ fCall' = [fCall EXCEPT ![h] = r] /\ DOMAIN r = CallFields
                 /\ r.at = "write" /\ r.form = fCall[h].form /\ r.patch = Changes(p)
    BY <1>5, TurnsHas
  <2>2. /\ DOMAIN p \subseteq Wishes /\ sheet.there /\ person.there
        /\ r.form # <<>> => p = PatchOf(r.form) /\ ~Refused(r.form)
    BY <1>1, <1>2, <2>1, ShapeHas DEF CallHoldsItsOwn, Stage
  <2>3. /\ DOMAIN r.patch \subseteq Wishes \union {"status"}
        /\ ("status" \in DOMAIN r.patch) <=>
             (sheet.status = "draft" /\ IsComplete(PutOver(sheet, p)))
        /\ "status" \in DOMAIN r.patch => r.patch["status"] = "active"
        /\ \A f \in Wishes : PutOver(sheet, r.patch)[f] = PutOver(sheet, p)[f]
    BY <2>1, <2>2, ShapeHas, ChangesHave
  <2>4. CallHoldsItsOwn(h)'
    <3>1. fCall'[h] = r
      BY <2>1, ShapeHas, CallsOfProfileMove
    <3> QED
      BY <1>2, <2>1, <2>2, <2>3, <3>1 DEF CallHoldsItsOwn, ProfileSteps
  <2>5. suspended = "yes" => "status" \notin DOMAIN r.patch
    BY <2>3 DEF ActivationInv, StatusIsLeft
  <2>6. IsServed(PutOver(sheet, r.patch))
    <3>1. IsComplete(PutOver(sheet, r.patch)) <=> IsComplete(PutOver(sheet, p))
      BY <2>3, CompleteAlike
    <3>2. PutOver(sheet, r.patch)["status"] =
            IF "status" \in DOMAIN r.patch THEN r.patch["status"] ELSE sheet["status"]
      BY ShapeHas, PutOverHas DEF SheetFields
    <3>3. suspended = "no" => sheet.status \in {"draft", "active"}
      BY ShapeHas DEF ProfileShape
    <3> QED
      BY <2>3, <3>1, <3>2, <3>3 DEF IsServed
  <2>7. Follows(PutOver(sheet, r.patch), r.form)
    <3>1. ASSUME "label" \in DOMAIN r.form
          PROVE  PutOver(sheet, r.patch)["city"] = CityOf(r.form.label)
      <4>1. "city" \in DOMAIN p /\ p["city"] = CityOf(r.form.label)
        BY <2>2, <3>1, PatchHas, NothingThere
      <4>2. PutOver(sheet, p)["city"] = p["city"]
        BY <4>1, ShapeHas, PutOverHas DEF SheetFields
      <4> QED
        BY <2>3, <4>1, <4>2 DEF Wishes
    <3>2. ASSUME "choice" \in DOMAIN r.form
          PROVE  /\ PutOver(sheet, r.patch)["services"] = TradesOf(r.form.choice)
                 /\ ~Refused(r.form)
      <4>1. /\ "services" \in DOMAIN p /\ p["services"] = TradesOf(r.form.choice)
            /\ ~Refused(r.form)
        BY <2>2, <3>2, PatchHas, NothingThere
      <4>2. PutOver(sheet, p)["services"] = p["services"]
        BY <4>1, ShapeHas, PutOverHas DEF SheetFields
      <4> QED
        BY <2>3, <4>1, <4>2 DEF Wishes
    <3> QED
      BY <3>1, <3>2 DEF Follows
  <2>8. rough' = "no" => rough = "no" /\ \A g \in ProfileCalls : g # h => Stage(g, "idle")
    BY <1>2, AloneInCalm
  <2>9. rough' = "no" /\ "label" \in DOMAIN r.form => person'.label = r.form.label
    BY <1>2, <2>1 DEF ActivationInv, CalmGoesTogether, Stage
  <2>10. /\ DOMAIN sheet' = SheetFields /\ SameSheet(sheet', sheet)
         /\ (sheet.there => sheet'.there)
    BY <1>2, ShapeHas, SheetThere
  <2> QED
    BY <1>2, <1>3, <2>1, <2>4, <2>5, <2>6, <2>7, <2>8, <2>9, <2>10, CallGoesOn
<1> QED
  BY <1>2, <1>4, <1>5

LEMMA ProfileFailKeeps ==
  ASSUME ActivationInv, NEW h \in ProfileCalls, ProfileFail(h) PROVE ActivationInv'
<1>1. /\ ~Stage(h, "idle") /\ Closes(h) /\ sheet' = sheet /\ rough' # "no"
      /\ UNCHANGED <<person, suspended, cityFromPage, lateService, chosen>>
  BY DEF ProfileFail
<1>2. /\ DOMAIN person' = {"there", "role", "label"} /\ (person.there => person'.there)
      /\ person'.role = "provider" => person'.there
  BY <1>1, ShapeHas
<1> QED
  BY <1>1, <1>2, ClosingKeeps

\* A form that is not refused names a choice.
LEMMA FormIsAChoice ==
  ASSUME NEW form, "choice" \in DOMAIN form, ~Refused(form)
  PROVE  IsAChoice(form.choice)
BY DEF Refused, IsAChoice, TradesOf

LEMMA WriteProfileKeeps ==
  ASSUME ActivationInv, NEW h \in ProfileCalls, WriteProfile(h) PROVE ActivationInv'
<1>1. PICK c : c = fCall[h] /\ c.at = "write"
  BY DEF WriteProfile, Stage
<1>2. /\ ~Stage(h, "idle") /\ Stage(h, "write")
      /\ UNCHANGED <<person, rough, suspended, lateService>>
  BY <1>1 DEF WriteProfile, Stage
<1>3. CASE "services" \in DOMAIN c.patch /\ c.stale
  <2>1. Closes(h) /\ UNCHANGED <<sheet, cityFromPage, chosen>>
    BY <1>1, <1>3 DEF WriteProfile
  <2>2. /\ DOMAIN person' = {"there", "role", "label"} /\ (person.there => person'.there)
        /\ person'.role = "provider" => person'.there
    BY <1>2, ShapeHas
  <2> QED
    BY <1>2, <2>1, <2>2, ClosingKeeps
<1>4. CASE ~("services" \in DOMAIN c.patch /\ c.stale)
  <2>1. /\ sheet' = PutOver(sheet, c.patch)
        /\ fCall' = [g \in ProfileCalls |->
                       IF g = h THEN AtRest
                       ELSE [fCall[g] EXCEPT !.stale =
                               @ \/ ("services" \in DOMAIN c.patch /\ Stage(g, "write"))]]
        /\ cityFromPage' = IF c.form # <<>> /\ "label" \in DOMAIN c.form THEN TRUE
                           ELSE cityFromPage /\ "city" \notin DOMAIN c.patch
        /\ chosen' = IF c.form # <<>> /\ "choice" \in DOMAIN c.form THEN c.form.choice
                     ELSE IF "services" \in DOMAIN c.patch THEN NoValue ELSE chosen
    BY <1>1, <1>4 DEF WriteProfile
  <2>2. /\ DOMAIN c.patch \subseteq Wishes \union {"status"} /\ sheet.there /\ person.there
        /\ "status" \in DOMAIN c.patch => c.patch["status"] = "active"
    BY <1>1, ShapeHas DEF CallHoldsItsOwn
  <2>3. /\ DOMAIN sheet' = SheetFields
        /\ \A f \in SheetFields : sheet'[f] = IF f \in DOMAIN c.patch THEN c.patch[f] ELSE sheet[f]
    BY <2>1, ShapeHas, PutOverHas
  <2>4. /\ sheet'.there = sheet.there /\ sheet'.blocked = sheet.blocked
        /\ "status" \in DOMAIN c.patch => sheet'.status = "active"
        /\ "status" \notin DOMAIN c.patch => sheet'.status = sheet.status
        /\ "city" \notin DOMAIN c.patch => sheet'.city = sheet.city
        /\ "services" \notin DOMAIN c.patch => sheet'.services = sheet.services
    BY <2>2, <2>3 DEF SheetFields, Wishes
  <2>5. DOMAIN fCall' = ProfileCalls /\ fCall'[h] = AtRest
    BY <2>1
  <2>6. ASSUME NEW g \in ProfileCalls, g # h
        PROVE  /\ DOMAIN fCall'[g] = CallFields /\ fCall'[g].at = fCall[g].at
               /\ fCall'[g].form = fCall[g].form /\ fCall'[g].patch = fCall[g].patch
    <3>1. PICK b : b = fCall[g] /\ DOMAIN b = CallFields
      BY ShapeHas
    <3>2. PICK x : fCall'[g] = [b EXCEPT !.stale = x]
      BY <2>1, <2>6, <3>1
    <3>3. /\ DOMAIN fCall'[g] = CallFields /\ fCall'[g]["at"] = b["at"]
          /\ fCall'[g]["form"] = b["form"] /\ fCall'[g]["patch"] = b["patch"]
      BY <3>1, <3>2 DEF CallFields
    <3> QED
      BY <3>1, <3>3
  <2>7. ProfileShape'
    <3>1. ASSUME NEW g \in ProfileCalls
          PROVE  CallHoldsItsOwn(g)' /\ DOMAIN fCall'[g] = CallFields
      <4>1. CASE g = h
        BY <2>5, <4>1, AtRestHas, NothingThere DEF CallHoldsItsOwn, ProfileSteps
      <4>2. CASE g # h
        BY <1>2, <2>2, <2>4, <2>6, <4>2, ShapeHas DEF CallHoldsItsOwn
      <4> QED
        BY <4>1, <4>2
    <3>2. /\ sheet'.status \in {"draft", "active", "suspended"}
          /\ suspended' = "no" => ~sheet'.blocked /\ sheet'.status # "suspended"
      BY <1>2, <2>4, ShapeHas DEF ProfileShape
    <3> QED
      BY <1>2, <2>2, <2>3, <2>4, <2>5, <3>1, <3>2, ShapeHas, BlankHas DEF ProfileShape, CallFields
  <2>8. StatusIsLeft'
    <3>1. SUFFICES ASSUME suspended = "yes" PROVE StatusIsLeft'
      BY <1>2 DEF StatusIsLeft
    <3>2. /\ sheet.status = "suspended" /\ "status" \notin DOMAIN c.patch
          /\ \A g \in ProfileCalls : "status" \notin DOMAIN fCall[g].patch
      BY <1>1, <3>1 DEF ActivationInv, StatusIsLeft
    <3>3. ASSUME NEW g \in ProfileCalls PROVE "status" \notin DOMAIN fCall'[g].patch
      BY <2>5, <2>6, <3>2, AtRestHas, NothingThere
    <3> QED
      BY <2>4, <3>2, <3>3 DEF StatusIsLeft
  <2>9. CalmGoesTogether'
    <3>1. SUFFICES ASSUME rough = "no" PROVE CalmGoesTogether'
      BY <1>2 DEF CalmGoesTogether
    <3>2. \A g \in ProfileCalls : Stage(g, "idle")'
      <4>1. Stage(h, "idle")'
        BY <2>5, AtRestHas DEF Stage
      <4>2. ASSUME NEW g \in ProfileCalls, g # h PROVE Stage(g, "idle")'
        BY <1>2, <2>6, <3>1, <4>2, AloneInCalm DEF Stage
      <4> QED
        BY <4>1, <4>2
    <3>3. /\ IsServed(sheet')
          /\ Follows(sheet', c.form)
          /\ "label" \in DOMAIN c.form => person.label = c.form.label
      BY <1>1, <1>2, <2>1, <3>1 DEF ActivationInv, CalmGoesTogether
    <3>4. IsServed(sheet)'
      BY <1>2, <3>3 DEF IsServed
    <3>5. ASSUME cityFromPage' PROVE sheet'.city = CityOf(person'.label)
      <4>1. CASE c.form # <<>> /\ "label" \in DOMAIN c.form
        BY <1>2, <3>3, <4>1 DEF Follows
      <4>2. CASE ~(c.form # <<>> /\ "label" \in DOMAIN c.form)
        <5>1. cityFromPage /\ "city" \notin DOMAIN c.patch
          BY <2>1, <3>5, <4>2
        <5> QED
          BY <1>2, <2>4, <3>1, <5>1 DEF ActivationInv, CalmGoesTogether
      <4> QED
        BY <4>1, <4>2
    <3>6. ASSUME chosen' # NoValue
          PROVE  sheet'.services = TradesOf(chosen') /\ IsAChoice(chosen')
      <4>1. CASE c.form # <<>> /\ "choice" \in DOMAIN c.form
        <5>1. chosen' = c.form.choice
          BY <2>1, <4>1
        <5> QED
          BY <3>3, <4>1, <5>1, FormIsAChoice DEF Follows
      <4>2. CASE ~(c.form # <<>> /\ "choice" \in DOMAIN c.form)
        <5>1. chosen' = chosen /\ "services" \notin DOMAIN c.patch
          BY <2>1, <3>6, <4>2
        <5> QED
          BY <2>4, <3>1, <3>6, <5>1 DEF ActivationInv, CalmGoesTogether
      <4> QED
        BY <4>1, <4>2
    <3>7. \A g \in ProfileCalls : fCall'[g].at = "idle"
      BY <3>2 DEF Stage
    <3> QED
      BY <3>2, <3>4, <3>5, <3>6, <3>7 DEF CalmGoesTogether, Stage
  <2> QED
    BY <2>7, <2>8, <2>9 DEF ActivationInv
<1> QED
  BY <1>3, <1>4

\* The calls in flight keep what they have to write as long as person and profile are there.
LEMMA HandlersStand ==
  ASSUME ActivationInv, fCall' = fCall, person.there => person'.there, sheet.there => sheet'.there
  PROVE  /\ DOMAIN fCall' = ProfileCalls
         /\ \A h \in ProfileCalls : CallHoldsItsOwn(h)' /\ DOMAIN fCall'[h] = CallFields
BY DEF ActivationInv, ProfileShape, CallHoldsItsOwn, CallFields

\* Where no call is in flight, none is about to write.
LEMMA NoneWrites ==
  ASSUME ActivationInv, fCall' = fCall, \A h \in ProfileCalls : Stage(h, "idle")
  PROVE  \A h \in ProfileCalls : fCall'[h].at = "idle" /\ Stage(h, "idle")'
BY DEF Stage

LEMMA PatchMeKeeps ==
  ASSUME ActivationInv, NEW label, PatchMe(label) PROVE ActivationInv'
<1>1. /\ person.there /\ person' = [person EXCEPT !.label = label] /\ ~cityFromPage'
      /\ UNCHANGED <<sheet, fCall, suspended, lateService, chosen>>
      /\ rough' = "no" => rough = "no" /\ \A h \in ProfileCalls : Stage(h, "idle")
  BY DEF PatchMe, Overlaps
<1>2. DOMAIN person' = {"there", "role", "label"} /\ person'.there
  BY <1>1, ShapeHas
<1>3. ProfileShape'
  BY <1>1, <1>2, HandlersStand DEF ActivationInv, ProfileShape, CallFields
<1>4. StatusIsLeft'
  BY <1>1 DEF ActivationInv, StatusIsLeft
<1>5. CalmGoesTogether'
  BY <1>1, NoneWrites DEF ActivationInv, CalmGoesTogether, IsServed, Stage
<1> QED
  BY <1>3, <1>4, <1>5 DEF ActivationInv

\* The profile is made, or unblocked: neither its status nor what it says changes.
LEMMA SheetStands ==
  ASSUME ActivationInv, UNCHANGED <<person, fCall, rough, suspended, cityFromPage, lateService, chosen>>,
         DOMAIN sheet' = SheetFields, sheet.there => sheet'.there,
         sheet'.blocked => sheet.blocked, sheet'.status = sheet.status,
         \A f \in Wishes : sheet'[f] = sheet[f]
  PROVE  ActivationInv'
<1>1. /\ sheet'["city"] = sheet["city"] /\ sheet'["services"] = sheet["services"]
      /\ (IsComplete(sheet') <=> IsComplete(sheet))
  BY CompleteAlike DEF Wishes
<1>2. ProfileShape'
  <2>1. DOMAIN sheet' = DOMAIN Blank
    BY BlankHas
  <2> QED
    BY <1>1, <2>1, HandlersStand DEF ActivationInv, ProfileShape, CallFields
<1>3. StatusIsLeft'
  BY DEF ActivationInv, StatusIsLeft
<1>4. CalmGoesTogether'
  <2>1. SUFFICES ASSUME rough = "no" PROVE CalmGoesTogether'
    BY DEF CalmGoesTogether
  <2>2. IsServed(sheet)'
    BY <1>1, <2>1 DEF ActivationInv, CalmGoesTogether, IsServed
  <2>3. ASSUME NEW h \in ProfileCalls, Stage(h, "write")
        PROVE  /\ IsServed(PutOver(sheet, fCall[h].patch))'
               /\ Follows(PutOver(sheet, fCall[h].patch), fCall[h].form)'
    <3>1. PICK p : p = fCall[h].patch
      OBVIOUS
    <3>2. IsServed(PutOver(sheet, p)) /\ Follows(PutOver(sheet, p), fCall[h].form)
      BY <2>1, <2>3, <3>1 DEF ActivationInv, CalmGoesTogether
    <3>3. /\ \A f \in Wishes : PutOver(sheet', p)[f] = PutOver(sheet, p)[f]
          /\ PutOver(sheet', p)["status"] = PutOver(sheet, p)["status"]
      BY ShapeHas, PutOverHas DEF SheetFields, Wishes
    <3>4. /\ PutOver(sheet', p)["city"] = PutOver(sheet, p)["city"]
          /\ PutOver(sheet', p)["services"] = PutOver(sheet, p)["services"]
          /\ (IsComplete(PutOver(sheet', p)) <=> IsComplete(PutOver(sheet, p)))
      BY <3>3, CompleteAlike DEF Wishes
    <3> QED
      BY <3>1, <3>2, <3>3, <3>4 DEF IsServed, Follows
  <2>4. \A h \in ProfileCalls : Stage(h, "write")' <=> Stage(h, "write")
    BY DEF Stage
  <2>5. \A g, h \in ProfileCalls : ~Stage(g, "idle")' /\ ~Stage(h, "idle")' => g = h
    BY <2>1 DEF ActivationInv, CalmGoesTogether, Stage
  <2>6. /\ cityFromPage' => sheet'.city = CityOf(person'.label)
        /\ chosen' # NoValue => sheet'.services = TradesOf(chosen') /\ IsAChoice(chosen')
    BY <1>1, <2>1 DEF ActivationInv, CalmGoesTogether
  <2>7. \A h \in ProfileCalls :
          fCall'[h].at \in {"resolve", "read", "write"} /\ "label" \in DOMAIN fCall'[h].form =>
            person'.label = fCall'[h].form.label
    BY <2>1 DEF ActivationInv, CalmGoesTogether
  <2> QED
    BY <2>2, <2>3, <2>4, <2>5, <2>6, <2>7 DEF CalmGoesTogether
<1> QED
  BY <1>2, <1>3, <1>4 DEF ActivationInv

LEMMA MyProfileKeeps ==
  ASSUME ActivationInv, MyProfile \/ UnblockProfile PROVE ActivationInv'
<1>1. /\ UNCHANGED <<person, fCall, rough, suspended, cityFromPage, lateService, chosen>>
      /\ sheet' = [sheet EXCEPT !.there = TRUE] \/ sheet' = [sheet EXCEPT !.blocked = FALSE]
  BY DEF MyProfile, UnblockProfile
<1>2. /\ DOMAIN sheet' = SheetFields /\ (sheet.there => sheet'.there)
      /\ (sheet'.blocked => sheet.blocked) /\ sheet'.status = sheet.status
      /\ \A f \in Wishes : sheet'[f] = sheet[f]
  BY <1>1, ShapeHas DEF SheetFields, Wishes
<1> QED
  BY <1>1, <1>2, SheetStands

LEMMA OfferAddsServiceKeeps ==
  ASSUME ActivationInv, NEW s \in Trades, OfferAddsService(s) PROVE ActivationInv'
<1>1. /\ person.there /\ person' = [person EXCEPT !.role = "provider"]
      /\ sheet' = [sheet EXCEPT !.there = TRUE, !.services = sheet.services \union {s}]
      /\ lateService' = (lateService \/ (sheet.status = "draft" /\ IsComplete(sheet')))
      /\ chosen' = NoValue /\ UNCHANGED <<fCall, suspended, cityFromPage>>
      /\ rough' = "no" => rough = "no" /\ \A h \in ProfileCalls : Stage(h, "idle")
  BY DEF OfferAddsService, Overlaps
<1>2. /\ DOMAIN person' = {"there", "role", "label"} /\ person'["there"] = person["there"]
      /\ person'["label"] = person["label"]
  BY <1>1, ShapeHas
<1>3. /\ DOMAIN sheet' = SheetFields /\ sheet'["there"] = TRUE
      /\ \A f \in SheetFields \ {"there", "services"} : sheet'[f] = sheet[f]
  BY <1>1, ShapeHas DEF SheetFields
<1>4. /\ sheet'["status"] = sheet["status"] /\ sheet'["blocked"] = sheet["blocked"]
      /\ sheet'["city"] = sheet["city"]
  BY <1>3 DEF SheetFields
<1>5. ProfileShape'
  <2>1. DOMAIN sheet' = DOMAIN Blank
    BY <1>3, BlankHas
  <2> QED
    BY <1>1, <1>2, <1>3, <1>4, <2>1, HandlersStand DEF ActivationInv, ProfileShape, CallFields
<1>6. StatusIsLeft'
  BY <1>1, <1>4 DEF ActivationInv, StatusIsLeft
<1>7. CalmGoesTogether'
  <2>1. SUFFICES ASSUME rough' = "no" PROVE CalmGoesTogether'
    BY DEF CalmGoesTogether
  <2>2. IsServed(sheet)'
    <3>1. suspended = "no" => sheet.status \in {"draft", "active"}
      BY ShapeHas DEF ProfileShape
    <3> QED
      BY <1>1, <1>4, <3>1 DEF IsServed
  <2>3. cityFromPage' => sheet'.city = CityOf(person'.label)
    BY <1>1, <1>2, <1>4, <2>1 DEF ActivationInv, CalmGoesTogether
  <2> QED
    BY <1>1, <2>1, <2>2, <2>3, NoneWrites DEF CalmGoesTogether, Stage
<1> QED
  BY <1>5, <1>6, <1>7 DEF ActivationInv

LEMMA BlockProfileKeeps ==
  ASSUME ActivationInv, BlockProfile PROVE ActivationInv'
<1>1. /\ sheet' = [sheet EXCEPT !.blocked = TRUE, !.status = "suspended"]
      /\ suspended' = IF \E h \in ProfileCalls : "status" \in DOMAIN fCall[h].patch
                      THEN "overtaken" ELSE IF suspended = "no" THEN "yes" ELSE suspended
      /\ UNCHANGED <<person, fCall, rough, cityFromPage, lateService, chosen>>
  BY DEF BlockProfile
<1>2. /\ DOMAIN sheet' = SheetFields /\ sheet'["status"] = "suspended"
      /\ \A f \in SheetFields \ {"blocked", "status"} : sheet'[f] = sheet[f]
  BY <1>1, ShapeHas DEF SheetFields
<1>3. /\ sheet'["there"] = sheet["there"] /\ sheet'["city"] = sheet["city"]
      /\ sheet'["services"] = sheet["services"] /\ suspended' # "no"
  BY <1>1, <1>2 DEF SheetFields
<1>4. ProfileShape'
  <2>1. DOMAIN sheet' = DOMAIN Blank
    BY <1>2, BlankHas
  <2> QED
    BY <1>1, <1>2, <1>3, <2>1, HandlersStand DEF ActivationInv, ProfileShape, CallFields
<1>5. StatusIsLeft'
  BY <1>1, <1>2 DEF StatusIsLeft
<1>6. CalmGoesTogether'
  <2>1. SUFFICES ASSUME rough = "no" PROVE CalmGoesTogether'
    BY <1>1 DEF CalmGoesTogether
  <2>2. ASSUME NEW h \in ProfileCalls, Stage(h, "write")
        PROVE  Follows(PutOver(sheet, fCall[h].patch), fCall[h].form)'
    <3>1. PICK p : p = fCall[h].patch
      OBVIOUS
    <3>2. Follows(PutOver(sheet, p), fCall[h].form)
      BY <2>1, <2>2, <3>1 DEF ActivationInv, CalmGoesTogether
    <3>3. /\ PutOver(sheet', p)["city"] = PutOver(sheet, p)["city"]
          /\ PutOver(sheet', p)["services"] = PutOver(sheet, p)["services"]
      BY <1>2, <1>3, ShapeHas, PutOverHas DEF SheetFields
    <3> QED
      BY <1>1, <3>1, <3>2, <3>3 DEF Follows
  <2>3. \A h \in ProfileCalls : Stage(h, "write")' <=> Stage(h, "write")
    BY <1>1 DEF Stage
  <2>4. \A g, h \in ProfileCalls : ~Stage(g, "idle")' /\ ~Stage(h, "idle")' => g = h
    BY <1>1, <2>1 DEF ActivationInv, CalmGoesTogether, Stage
  <2>5. /\ cityFromPage' => sheet'.city = CityOf(person'.label)
        /\ chosen' # NoValue => sheet'.services = TradesOf(chosen') /\ IsAChoice(chosen')
    BY <1>1, <1>3, <2>1 DEF ActivationInv, CalmGoesTogether
  <2>6. \A h \in ProfileCalls :
          fCall'[h].at \in {"resolve", "read", "write"} /\ "label" \in DOMAIN fCall'[h].form =>
            person'.label = fCall'[h].form.label
    BY <1>1, <2>1 DEF ActivationInv, CalmGoesTogether
  <2> QED
    BY <1>3, <2>2, <2>3, <2>4, <2>5, <2>6 DEF CalmGoesTogether, IsServed
<1> QED
  BY <1>4, <1>5, <1>6 DEF ActivationInv

LEMMA ActivationInvInit ==
  ASSUME ActivationInit PROVE ActivationInv
<1>1. \A h \in ProfileCalls : fCall[h] = AtRest
  BY DEF ActivationInit
<1>2. /\ sheet.services = {} /\ sheet.status = "draft" /\ ~sheet.blocked /\ sheet = Blank
      /\ DOMAIN person = {"there", "role", "label"} /\ person.role = "client"
  BY DEF ActivationInit, Blank
<1>3. ProfileShape
  <2>1. \A h \in ProfileCalls : CallHoldsItsOwn(h) /\ DOMAIN fCall[h] = CallFields
    BY <1>1, AtRestHas DEF CallHoldsItsOwn, ProfileSteps
  <2> QED
    BY <1>2, <2>1 DEF ActivationInit, ProfileShape, CallFields
<1>4. StatusIsLeft
  BY DEF ActivationInit, StatusIsLeft
<1>5. CalmGoesTogether
  <2>1. \A h \in ProfileCalls : Stage(h, "idle") /\ fCall[h].at = "idle"
    BY <1>1, AtRestHas DEF Stage
  <2> QED
    BY <1>2, <2>1 DEF ActivationInit, CalmGoesTogether, IsServed, IsComplete, Stage
<1> QED
  BY <1>3, <1>4, <1>5 DEF ActivationInv

LEMMA ActivationInvStep ==
  ASSUME ActivationInv, [ActivationNext]_profileVars PROVE ActivationInv'
<1>1. ASSUME NEW h \in ProfileCalls, PageCall(h) PROVE ActivationInv'
  BY <1>1, SaveProfileKeeps, RegisterProfileKeeps, WriteAccountKeeps, ResolveFormKeeps
     DEF PageCall
<1>2. ASSUME NEW h \in ProfileCalls, ProfileCall(h) PROVE ActivationInv'
  BY <1>2, PatchProfileKeeps, ReadProfileKeeps, WriteProfileKeeps, LogInKeeps DEF ProfileCall
<1>3. ASSUME UNCHANGED profileVars PROVE ActivationInv'
  <2>1. UNCHANGED <<person, sheet, fCall, rough, suspended, cityFromPage, lateService, chosen>>
    BY <1>3 DEF profileVars
  <2> QED
    BY <2>1, ShapeHas, SheetStands
<1> QED
  BY <1>1, <1>2, <1>3, ProfileFailKeeps, PatchMeKeeps, OfferAddsServiceKeeps, MyProfileKeeps,
     BlockProfileKeeps DEF ActivationNext

\* However many handlers, forms and patches there are, and however their steps mix: a
\* profile that blockProfile() has suspended while no call was about to activate it is
\* never active again.
THEOREM SuspensionStands == ActivationSpec => []BlockedStaysSuspended
<1>1. ActivationInv => BlockedStaysSuspended
  BY DEF ActivationInv, StatusIsLeft, BlockedStaysSuspended
<1> QED
  BY <1>1, ActivationInvInit, ActivationInvStep, PTL DEF ActivationSpec

\* A profile is not ready without a service, nor without a price.
LEMMA ReadyNeedsBoth ==
  ASSUME NEW bio \in BOOLEAN, NEW company \in BOOLEAN
  PROVE  /\ sheet.services = {} => ProviderReady(bio, company) < 100
         /\ sheet.price = NoValue => ProviderReady(bio, company) < 100
<1> DEFINE a == Points(sheet.name # NoValue, 15)
           b == Points(bio, 15)
           c == Points(sheet.city # NoValue, 15)
           d == Points(sheet.services # {}, 25)
           e == Points(Priced, 10)
           f == Points(company, 10)
           g == Points(OnList, 10)
<1>1. a \in 0..15 /\ b \in 0..15 /\ c \in 0..15 /\ d \in 0..25 /\ e \in 0..10 /\ f \in 0..10 /\ g \in 0..10
  BY DEF Points
<1>2. sheet.services = {} => d = 0
  BY DEF Points
<1>3. sheet.price = NoValue => e = 0
  BY DEF Points, Priced
<1>4. ProviderReady(bio, company) = IF ~sheet.there THEN 0 ELSE a + b + c + d + e + f + g
  BY DEF ProviderReady
<1> HIDE DEF a, b, c, d, e, f, g
<1> QED
  BY <1>1, <1>2, <1>3, <1>4

\* What the page shows of the services that a choice stands for.
LEMMA ChoiceIsShown ==
  ASSUME NEW choice, IsAChoice(choice)
  PROVE  /\ choice.service # NoValue => SelectedService(TradesOf(choice)) = choice.service
         /\ choice.category # NoValue => SelectedCategory(TradesOf(choice)) = choice.category
         /\ choice.service = NoValue /\ choice.category = NoValue => TradesOf(choice) = {}
<1>1. ASSUME choice.service # NoValue
      PROVE  SelectedService(TradesOf(choice)) = choice.service
  <2>1. TradesOf(choice) = {choice.service}
    BY <1>1 DEF TradesOf
  <2>2. Cardinality(TradesOf(choice)) = 1
    BY <2>1, FS_Singleton
  <2> QED
    BY <2>1, <2>2 DEF SelectedService
<1>2. ASSUME choice.category # NoValue
      PROVE  SelectedCategory(TradesOf(choice)) = choice.category
  <2> DEFINE categories == {TradeCategory[s] : s \in TradesOf(choice)}
  <2>1. categories = {choice.category}
    <3>1. CASE choice.service # NoValue
      BY <1>2, <3>1 DEF TradesOf, IsAChoice
    <3>2. CASE choice.service = NoValue
      BY <1>2, <3>2 DEF TradesOf, IsAChoice
    <3> QED
      BY <3>1, <3>2
  <2>2. Cardinality(categories) = 1
    BY <2>1, FS_Singleton
  <2>3. SelectedCategory(TradesOf(choice)) = CHOOSE c \in categories : TRUE
    BY <2>2 DEF SelectedCategory
  <2> HIDE DEF categories
  <2> QED
    BY <2>1, <2>3
<1>3. ASSUME choice.service = NoValue, choice.category = NoValue PROVE TradesOf(choice) = {}
  BY <1>3, ActivationAssumption DEF TradesOf
<1> QED
  BY <1>1, <1>2, <1>3

\* For every set of services, cities, forms, patches and handlers: as long as calls have
\* neither overlapped nor failed half way, a complete profile is active, the rail asks for
\* the activation alone only where a name or a city is missing, and the page shows the
\* city and the choice that it saved last.
THEOREM AccountAndProfileAgree == ActivationSpec => []ProfileGoesTogether
<1>1. ASSUME ActivationInv, rough = "no", \A h \in ProfileCalls : Stage(h, "idle")
      PROVE  /\ suspended = "no" /\ ~lateService =>
                  /\ IsComplete(sheet) => OnList
                  /\ \A bio, company, phone, clientProfile, clientBio \in BOOLEAN :
                       Rail(bio, company, phone, clientProfile, clientBio) = {"activate"} =>
                         sheet.name = NoValue \/ sheet.city = NoValue
             /\ cityFromPage => ShownCity = CityOf(person.label) /\ sheet.city = ShownCity
             /\ chosen # NoValue =>
                  /\ chosen.service # NoValue => SelectedService(sheet.services) = chosen.service
                  /\ chosen.category # NoValue =>
                       SelectedCategory(sheet.services) = chosen.category
                  /\ chosen.service = NoValue /\ chosen.category = NoValue => sheet.services = {}
  <2>1. ASSUME suspended = "no", ~lateService, IsComplete(sheet) PROVE OnList
    <3>1. sheet.status = "active"
      BY <1>1, <2>1 DEF ActivationInv, CalmGoesTogether, IsServed
    <3>2. sheet.there /\ ~sheet.blocked
      BY <1>1, <2>1 DEF ActivationInv, ProfileShape, IsComplete
    <3> QED
      BY <3>1, <3>2 DEF OnList
  <2>2. ASSUME suspended = "no", ~lateService,
               NEW bio \in BOOLEAN, NEW company \in BOOLEAN, NEW phone \in BOOLEAN,
               NEW clientProfile \in BOOLEAN, NEW clientBio \in BOOLEAN,
               Rail(bio, company, phone, clientProfile, clientBio) = {"activate"}
        PROVE  sheet.name = NoValue \/ sheet.city = NoValue
    <3>1. /\ "activate" \in Rail(bio, company, phone, clientProfile, clientBio)
          /\ "service" \notin Rail(bio, company, phone, clientProfile, clientBio)
          /\ "price" \notin Rail(bio, company, phone, clientProfile, clientBio)
      BY <2>2
    <3>2. /\ ~OnList
          /\ ~(ProviderReady(bio, company) < 100 /\ sheet.services = {})
          /\ ~(ProviderReady(bio, company) < 100 /\ ~Priced)
      <4>1. ~OnList
        BY <3>1 DEF Rail
      <4>2. ~(ProviderReady(bio, company) < 100 /\ sheet.services = {})
        BY <3>1 DEF Rail
      <4>3. ~(ProviderReady(bio, company) < 100 /\ ~Priced)
        BY <3>1 DEF Rail
      <4> QED
        BY <4>1, <4>2, <4>3
    <3>3. sheet.services # {} /\ sheet.price # NoValue
      BY <3>2, ReadyNeedsBoth DEF Priced
    <3> QED
      BY <2>1, <2>2, <3>2, <3>3 DEF IsComplete
  <2>3. cityFromPage => ShownCity = CityOf(person.label) /\ sheet.city = ShownCity
    BY <1>1 DEF ActivationInv, CalmGoesTogether, ShownCity
  <2>4. chosen # NoValue => sheet.services = TradesOf(chosen) /\ IsAChoice(chosen)
    BY <1>1 DEF ActivationInv, CalmGoesTogether
  <2> QED
    BY <2>1, <2>2, <2>3, <2>4, ChoiceIsShown
<1>2. ActivationInv => ProfileGoesTogether
  BY <1>1 DEF ProfileGoesTogether
<1> QED
  BY <1>2, ActivationInvInit, ActivationInvStep, PTL DEF ActivationSpec

-----------------------------------------------------------------------------
(* What accounts and profiles are made of. *)

\* What the account and the profile hold and what the calls are going to write is of the
\* catalogue.
LEMMA OfCatalog ==
  ASSUME ProfileIsOfCatalog,
         person' \in [there: BOOLEAN, role: {"client", "provider"},
                      label: CityLabels \union {Unlisted, NoValue}],
         sheet'.there \in BOOLEAN, sheet'.blocked \in BOOLEAN,
         sheet'.status \in {"draft", "active", "suspended"},
         sheet'.services \subseteq Trades, sheet'.city \in CityLabels \union {NoValue},
         rough' \in {"no", "failed", "overlapped"},
         suspended' \in {"no", "yes", "overtaken"},
         \A h \in ProfileCalls : fCall'[h].at \in ProfileSteps,
         \A h \in ProfileCalls : CallIsOfCatalog(h)'
  PROVE  ProfileIsOfCatalog'
BY DEF ProfileIsOfCatalog, ActivationTypeOK

\* The calls, when one of them moves.
LEMMA OneCallMoves ==
  ASSUME ProfileShape, \A g \in ProfileCalls : CallIsOfCatalog(g),
         NEW h \in ProfileCalls, NEW r, fCall' = [fCall EXCEPT ![h] = r],
         "label" \in DOMAIN r.form => r.form.label \in CityLabels \union {Unlisted, NoValue},
         "city" \in DOMAIN r.patch => r.patch["city"] \in CityLabels \union {NoValue},
         "services" \in DOMAIN r.patch => r.patch["services"] \subseteq Trades
  PROVE  \A g \in ProfileCalls : CallIsOfCatalog(g)'
<1> SUFFICES ASSUME NEW g \in ProfileCalls PROVE CallIsOfCatalog(g)'
  OBVIOUS
<1>1. fCall'[g] = IF g = h THEN r ELSE fCall[g]
  BY DEF ProfileShape
<1>2. CASE g = h
  <2>1. fCall'[g] = r
    BY <1>1, <1>2
  <2> QED
    BY <2>1 DEF CallIsOfCatalog
<1>3. CASE g # h
  <2>1. fCall'[g] = fCall[g]
    BY <1>1, <1>3
  <2> QED
    BY <2>1 DEF CallIsOfCatalog
<1> QED
  BY <1>2, <1>3

\* What a form asks for is of the catalogue unless it is refused.
LEMMA FormIsOfCatalog ==
  ASSUME NEW form, ~Refused(form)
  PROVE  /\ "city" \in DOMAIN PatchOf(form) =>
              PatchOf(form)["city"] \in CityLabels \union {NoValue}
         /\ "services" \in DOMAIN PatchOf(form) => PatchOf(form)["services"] \subseteq Trades
<1>1. "city" \in DOMAIN PatchOf(form) => PatchOf(form)["city"] = CityOf(form.label)
  BY PatchHas
<1>2. "services" \in DOMAIN PatchOf(form) =>
        "choice" \in DOMAIN form /\ PatchOf(form)["services"] = TradesOf(form.choice)
  BY PatchHas
<1>3. "choice" \in DOMAIN form => TradesOf(form.choice) \subseteq Trades
  BY DEF Refused, TradesOf
<1>4. CityOf(form.label) \in CityLabels \union {NoValue}
  BY DEF CityOf
<1> QED
  BY <1>1, <1>2, <1>3, <1>4

\* What is saved of what is of the catalogue is too.
LEMMA ChangesAreOfCatalog ==
  ASSUME DOMAIN sheet = SheetFields, NEW p, DOMAIN p \subseteq Wishes,
         "city" \in DOMAIN p => p["city"] \in CityLabels \union {NoValue},
         "services" \in DOMAIN p => p["services"] \subseteq Trades
  PROVE  /\ "city" \in DOMAIN Changes(p) => Changes(p)["city"] \in CityLabels \union {NoValue}
         /\ "services" \in DOMAIN Changes(p) => Changes(p)["services"] \subseteq Trades
<1> DEFINE status == IF sheet.status = "draft" /\ IsComplete(PutOver(sheet, p))
                     THEN {"status"} ELSE {}
           fields == {f \in DOMAIN p : p[f] # sheet[f]}
<1>1. Changes(p) = [f \in fields \union status |-> IF f = "status" THEN "active" ELSE p[f]]
  BY DEF Changes
<1>2. status \subseteq {"status"}
  OBVIOUS
<1> HIDE DEF status
<1>3. ASSUME NEW f \in {"city", "services"}, f \in DOMAIN Changes(p)
      PROVE  f \in DOMAIN p /\ Changes(p)[f] = p[f]
  BY <1>1, <1>2, <1>3
<1> QED
  BY <1>3

LEMMA CatalogOfNext ==
  ASSUME ActivationInv, ProfileIsOfCatalog, [ActivationNext]_profileVars
  PROVE  ProfileIsOfCatalog'
<1>1. /\ ProfileShape /\ DOMAIN sheet = SheetFields
      /\ ActivationTypeOK /\ \A h \in ProfileCalls : CallIsOfCatalog(h)
  BY BlankHas DEF ActivationInv, ProfileShape, ProfileIsOfCatalog
<1>2. ActivationInv'
  BY ActivationInvStep
<1>3. \A h \in ProfileCalls : fCall'[h].at \in ProfileSteps
  BY <1>2 DEF ActivationInv, ProfileShape, CallHoldsItsOwn
<1>4. /\ person \in [there: BOOLEAN, role: {"client", "provider"},
                     label: CityLabels \union {Unlisted, NoValue}]
      /\ sheet.there \in BOOLEAN /\ sheet.blocked \in BOOLEAN
      /\ sheet.status \in {"draft", "active", "suspended"}
      /\ sheet.services \subseteq Trades /\ sheet.city \in CityLabels \union {NoValue}
      /\ rough \in {"no", "failed", "overlapped"} /\ suspended \in {"no", "yes", "overtaken"}
  BY <1>1 DEF ActivationTypeOK
<1>5. person' \in [there: BOOLEAN, role: {"client", "provider"},
                   label: CityLabels \union {Unlisted, NoValue}]
  <2>1. CASE UNCHANGED person
    BY <1>4, <2>1
  <2>2. ASSUME NEW h \in ProfileCalls, NEW role \in {"client", "provider"}, NEW form \in PageForms,
               RegisterProfile(h, role, form)
        PROVE  person' \in [there: BOOLEAN, role: {"client", "provider"},
                            label: CityLabels \union {Unlisted, NoValue}]
    BY <2>2 DEF RegisterProfile
  <2>3. ASSUME NEW h \in ProfileCalls, WriteAccount(h)
        PROVE  person' \in [there: BOOLEAN, role: {"client", "provider"},
                            label: CityLabels \union {Unlisted, NoValue}]
    BY <1>1, <1>4, <2>3 DEF WriteAccount, CallIsOfCatalog
  <2>4. ASSUME NEW label \in CityLabels \union {Unlisted}, PatchMe(label)
        PROVE  person' \in [there: BOOLEAN, role: {"client", "provider"},
                            label: CityLabels \union {Unlisted, NoValue}]
    BY <1>4, <2>4 DEF PatchMe
  <2>5. ASSUME NEW s \in Trades, OfferAddsService(s)
        PROVE  person' \in [there: BOOLEAN, role: {"client", "provider"},
                            label: CityLabels \union {Unlisted, NoValue}]
    BY <1>4, <2>5 DEF OfferAddsService
  <2> QED
    BY <2>1, <2>2, <2>3, <2>4, <2>5
    DEF ActivationNext, PageCall, ProfileCall, SaveProfile, ResolveForm, PatchProfile, ReadProfile,
        WriteProfile, LogIn, ProfileFail, MyProfile, BlockProfile, UnblockProfile, profileVars
<1>6. /\ sheet'.there \in BOOLEAN /\ sheet'.blocked \in BOOLEAN
      /\ sheet'.status \in {"draft", "active", "suspended"}
      /\ sheet'.services \subseteq Trades /\ sheet'.city \in CityLabels \union {NoValue}
  <2> DEFINE Good == /\ sheet'.there \in BOOLEAN /\ sheet'.blocked \in BOOLEAN
                     /\ sheet'.status \in {"draft", "active", "suspended"}
                     /\ sheet'.services \subseteq Trades /\ sheet'.city \in CityLabels \union {NoValue}
  <2>1. ASSUME \/ UNCHANGED sheet
               \/ sheet' = [sheet EXCEPT !.there = TRUE]
               \/ sheet' = [sheet EXCEPT !.blocked = TRUE, !.status = "suspended"]
               \/ sheet' = [sheet EXCEPT !.blocked = FALSE]
        PROVE  Good
    BY <1>1, <1>4, <2>1 DEF SheetFields
  <2>2. ASSUME NEW s \in Trades, OfferAddsService(s) PROVE Good
    <3>1. sheet' = [sheet EXCEPT !.there = TRUE, !.services = sheet.services \union {s}]
      BY <1>1, <2>2 DEF OfferAddsService, SheetFields
    <3> QED
      BY <1>1, <1>4, <3>1 DEF SheetFields
  <2>3. ASSUME NEW h \in ProfileCalls, WriteProfile(h), sheet' # sheet PROVE Good
    <3>1. PICK patch : patch = fCall[h].patch
      OBVIOUS
    <3>2. sheet' = PutOver(sheet, patch)
      BY <2>3, <3>1 DEF WriteProfile
    <3>3. /\ DOMAIN patch \subseteq Wishes \union {"status"}
          /\ "status" \in DOMAIN patch => patch["status"] = "active"
          /\ "city" \in DOMAIN patch => patch["city"] \in CityLabels \union {NoValue}
          /\ "services" \in DOMAIN patch => patch["services"] \subseteq Trades
      BY <1>1, <2>3, <3>1 DEF WriteProfile, Stage, ProfileShape, CallHoldsItsOwn, CallIsOfCatalog
    <3>4. \A f \in SheetFields : sheet'[f] = IF f \in DOMAIN patch THEN patch[f] ELSE sheet[f]
      BY <1>1, <3>2, PutOverHas
    <3>5. /\ sheet'["there"] = sheet.there /\ sheet'["blocked"] = sheet.blocked
          /\ sheet'["status"] \in {sheet.status, "active"}
          /\ sheet'["services"] \subseteq Trades /\ sheet'["city"] \in CityLabels \union {NoValue}
      BY <1>4, <3>3, <3>4 DEF SheetFields, Wishes
    <3> QED
      BY <1>4, <3>5
  <2>4. ASSUME NEW h \in ProfileCalls, NEW role \in {"client", "provider"}, NEW form \in PageForms,
               RegisterProfile(h, role, form)
        PROVE  Good
    BY <2>1, <2>4 DEF RegisterProfile
  <2>5. ASSUME NEW h \in ProfileCalls, ResolveForm(h) PROVE Good
    BY <2>1, <2>5 DEF ResolveForm
  <2>6. ASSUME MyProfile \/ BlockProfile \/ UnblockProfile PROVE Good
    BY <2>1, <2>6 DEF MyProfile, BlockProfile, UnblockProfile
  <2>7. ASSUME UNCHANGED sheet PROVE Good
    BY <2>1, <2>7
  <2> HIDE DEF Good
  <2>8. Good
    BY <2>2, <2>3, <2>4, <2>5, <2>6, <2>7
    DEF ActivationNext, PageCall, ProfileCall, SaveProfile, WriteAccount, PatchProfile, ReadProfile,
        LogIn, ProfileFail, PatchMe, profileVars
  <2> QED
    BY <2>8 DEF Good
<1>7. rough' \in {"no", "failed", "overlapped"} /\ suspended' \in {"no", "yes", "overtaken"}
  <2> DEFINE Noted == /\ rough' \in {rough, "failed", "overlapped"}
                      /\ suspended' \in {suspended, "yes", "overtaken"}
  <2>1. ASSUME NEW h \in ProfileCalls, PageCall(h) PROVE Noted
    BY <2>1 DEF PageCall, SaveProfile, RegisterProfile, WriteAccount, ResolveForm, Begins, Overlaps
  <2>2. ASSUME NEW h \in ProfileCalls, ProfileCall(h) PROVE Noted
    BY <2>2 DEF ProfileCall, PatchProfile, ReadProfile, WriteProfile, LogIn, Begins, Overlaps
  <2>3. ASSUME NEW h \in ProfileCalls, ProfileFail(h) PROVE Noted
    BY <2>3 DEF ProfileFail
  <2>4. ASSUME NEW label, PatchMe(label) PROVE Noted
    BY <2>4 DEF PatchMe, Overlaps
  <2>5. ASSUME NEW s, OfferAddsService(s) PROVE Noted
    BY <2>5 DEF OfferAddsService, Overlaps
  <2>6. ASSUME MyProfile \/ BlockProfile \/ UnblockProfile \/ UNCHANGED profileVars PROVE Noted
    BY <2>6 DEF MyProfile, BlockProfile, UnblockProfile, profileVars
  <2> HIDE DEF Noted
  <2>7. Noted
    BY <2>1, <2>2, <2>3, <2>4, <2>5, <2>6 DEF ActivationNext
  <2> QED
    BY <1>4, <2>7 DEF Noted
<1>8. \A g \in ProfileCalls : CallIsOfCatalog(g)'
  <2> DEFINE Good == \A g \in ProfileCalls : CallIsOfCatalog(g)'
  <2>1. CASE UNCHANGED fCall
    BY <1>1, <2>1 DEF CallIsOfCatalog
  <2>2. ASSUME NEW h \in ProfileCalls, Closes(h) PROVE Good
    <3>1. PICK r : r = AtRest
      OBVIOUS
    <3>2. r.form = <<>> /\ r.patch = <<>> /\ \A f : f \notin DOMAIN <<>>
      BY <3>1, AtRestHas, NothingThere
    <3>3. fCall' = [fCall EXCEPT ![h] = r]
      BY <2>2, <3>1 DEF Closes
    <3> QED
      BY <1>1, <3>2, <3>3, OneCallMoves
  <2>3. ASSUME NEW h \in ProfileCalls, NEW step, NEW form \in PageForms, Begins(h, step, form, <<>>)
        PROVE  Good
    <3>1. PICK r : r = [at |-> step, form |-> form, patch |-> <<>>, stale |-> FALSE]
      OBVIOUS
    <3>2. r.form = form /\ r.patch = <<>> /\ \A f : f \notin DOMAIN <<>>
      BY <3>1, NothingThere
    <3>3. fCall' = [fCall EXCEPT ![h] = r]
      BY <2>3, <3>1 DEF Begins
    <3>4. "label" \in DOMAIN r.form => r.form.label \in CityLabels \union {Unlisted, NoValue}
      BY <3>2, ActivationAssumption
    <3> QED
      BY <1>1, <3>2, <3>3, <3>4, OneCallMoves
  <2>4. ASSUME NEW h \in ProfileCalls, NEW step, NEW patch, Begins(h, step, <<>>, patch),
               "city" \in DOMAIN patch => patch["city"] \in CityLabels \union {NoValue},
               "services" \in DOMAIN patch => patch["services"] \subseteq Trades
        PROVE  Good
    <3>1. PICK r : r = [at |-> step, form |-> <<>>, patch |-> patch, stale |-> FALSE]
      OBVIOUS
    <3>2. r.form = <<>> /\ r.patch = patch /\ \A f : f \notin DOMAIN <<>>
      BY <3>1, NothingThere
    <3>3. fCall' = [fCall EXCEPT ![h] = r]
      BY <2>4, <3>1 DEF Begins
    <3> QED
      BY <1>1, <2>4, <3>2, <3>3, OneCallMoves
  <2>5. ASSUME NEW h \in ProfileCalls, NEW step, NEW patch, Turns(h, step, patch),
               "city" \in DOMAIN patch => patch["city"] \in CityLabels \union {NoValue},
               "services" \in DOMAIN patch => patch["services"] \subseteq Trades
        PROVE  Good
    <3>1. PICK r : r = [at |-> step, form |-> fCall[h].form, patch |-> patch,
                        stale |-> fCall[h].stale]
      OBVIOUS
    <3>2. r.form = fCall[h].form /\ r.patch = patch
      BY <3>1
    <3>3. fCall' = [fCall EXCEPT ![h] = r]
      BY <2>5, <3>1 DEF Turns
    <3>4. "label" \in DOMAIN r.form => r.form.label \in CityLabels \union {Unlisted, NoValue}
      BY <1>1, <3>2 DEF CallIsOfCatalog
    <3> QED
      BY <1>1, <2>5, <3>2, <3>3, <3>4, OneCallMoves
  <2>6. ASSUME NEW h \in ProfileCalls, WriteProfile(h) PROVE Good
    <3>1. CASE Closes(h)
      BY <2>2, <3>1
    <3>2. CASE ~Closes(h)
      <4>1. PICK x : fCall' = [g \in ProfileCalls |->
                                 IF g = h THEN AtRest
                                 ELSE [fCall[g] EXCEPT !.stale = @ \/ (x /\ Stage(g, "write"))]]
        BY <2>6, <3>2 DEF WriteProfile
      <4>2. ASSUME NEW g \in ProfileCalls PROVE CallIsOfCatalog(g)'
        <5>1. CASE g = h
          <6>1. fCall'[g].form = <<>> /\ fCall'[g].patch = <<>> /\ \A f : f \notin DOMAIN <<>>
            BY <4>1, <5>1, AtRestHas, NothingThere
          <6> QED
            BY <6>1 DEF CallIsOfCatalog
        <5>2. CASE g # h
          <6>1. PICK b : b = fCall[g] /\ DOMAIN b = CallFields
            BY <1>1 DEF ProfileShape, CallFields
          <6>2. PICK y : fCall'[g] = [b EXCEPT !.stale = y]
            BY <4>1, <5>2, <6>1
          <6>3. fCall'[g]["form"] = b["form"] /\ fCall'[g]["patch"] = b["patch"]
            BY <6>1, <6>2 DEF CallFields
          <6>4. fCall'[g].form = fCall[g].form /\ fCall'[g].patch = fCall[g].patch
            BY <6>1, <6>3
          <6> QED
            BY <1>1, <6>4 DEF CallIsOfCatalog
        <5> QED
          BY <5>1, <5>2
      <4> QED
        BY <4>2
    <3> QED
      BY <3>1, <3>2
  <2>7. ASSUME NEW h \in ProfileCalls, ReadProfile(h) PROVE Good
    <3>1. PICK p : p = fCall[h].patch
      OBVIOUS
    <3>2. /\ DOMAIN p \subseteq Wishes
          /\ "city" \in DOMAIN p => p["city"] \in CityLabels \union {NoValue}
          /\ "services" \in DOMAIN p => p["services"] \subseteq Trades
      BY <1>1, <2>7, <3>1 DEF ReadProfile, Stage, ProfileShape, CallHoldsItsOwn, CallIsOfCatalog
    <3>3. /\ "city" \in DOMAIN Changes(p) => Changes(p)["city"] \in CityLabels \union {NoValue}
          /\ "services" \in DOMAIN Changes(p) => Changes(p)["services"] \subseteq Trades
      BY <1>1, <3>2, ChangesAreOfCatalog
    <3>4. Closes(h) \/ Turns(h, "write", Changes(p))
      BY <2>7, <3>1 DEF ReadProfile
    <3> HIDE DEF Good
    <3> QED
      BY <2>2, <2>5, <3>3, <3>4
  <2>8. ASSUME NEW h \in ProfileCalls, ResolveForm(h) PROVE Good
    <3>1. PICK form : form = fCall[h].form
      OBVIOUS
    <3>2. Closes(h) \/ (~Refused(form) /\ Turns(h, "read", PatchOf(form)))
      BY <2>8, <3>1 DEF ResolveForm
    <3> HIDE DEF Good
    <3> QED
      BY <2>2, <2>5, <3>2, FormIsOfCatalog
  <2>9. ASSUME NEW h \in ProfileCalls, WriteAccount(h) PROVE Good
    <3>1. Closes(h) \/ Turns(h, "resolve", fCall[h].patch)
      BY <2>9 DEF WriteAccount
    <3>2. /\ "city" \in DOMAIN fCall[h].patch => fCall[h].patch["city"] \in CityLabels \union {NoValue}
          /\ "services" \in DOMAIN fCall[h].patch => fCall[h].patch["services"] \subseteq Trades
      BY <1>1 DEF CallIsOfCatalog
    <3> HIDE DEF Good
    <3> QED
      BY <2>2, <2>5, <3>1, <3>2
  <2>10. ASSUME NEW h \in ProfileCalls, LogIn(h) PROVE Good
    <3>1. PICK patch : patch = [status |-> "active"]
      OBVIOUS
    <3>2. DOMAIN patch = {"status"} /\ Begins(h, "write", <<>>, patch)
      BY <2>10, <3>1 DEF LogIn
    <3> HIDE DEF Good
    <3> QED
      BY <2>4, <3>2
  <2>11. ASSUME NEW h \in ProfileCalls, NEW patch \in ProfilePatches, PatchProfile(h, patch) PROVE Good
    <3>1. Begins(h, "read", <<>>, patch)
      BY <2>11 DEF PatchProfile
    <3> HIDE DEF Good
    <3> QED
      BY <2>4, <3>1, ActivationAssumption
  <2>12. ASSUME NEW h \in ProfileCalls, NEW form \in PageForms,
                SaveProfile(h, form) \/ \E role \in {"client", "provider"} : RegisterProfile(h, role, form)
         PROVE  Good
    <3>1. \E step : Begins(h, step, form, <<>>)
      BY <2>12 DEF SaveProfile, RegisterProfile
    <3> HIDE DEF Good
    <3> QED
      BY <2>3, <3>1
  <2>13. ASSUME NEW h \in ProfileCalls, ProfileFail(h) PROVE Good
    BY <2>2, <2>13 DEF ProfileFail
  <2> HIDE DEF Good
  <2>14. ASSUME NEW h \in ProfileCalls, PageCall(h) PROVE Good
    BY <2>8, <2>9, <2>12, <2>14 DEF PageCall
  <2>15. ASSUME NEW h \in ProfileCalls, ProfileCall(h) PROVE Good
    BY <2>6, <2>7, <2>10, <2>11, <2>15 DEF ProfileCall
  <2>16. ASSUME UNCHANGED fCall PROVE Good
    BY <2>1, <2>16 DEF Good
  <2>17. Good
    BY <2>13, <2>14, <2>15, <2>16
    DEF ActivationNext, PatchMe, OfferAddsService, MyProfile, BlockProfile, UnblockProfile, profileVars
  <2> QED
    BY <2>17 DEF Good
<1> QED
  BY <1>3, <1>5, <1>6, <1>7, <1>8, OfCatalog

\* The account, the profile and the handlers in flight are typed, whatever the page and
\* the other calls do (workspace-profile.service.ts, providers.service.ts).
LEMMA ActivationIsTyped == ActivationSpec => []ActivationTypeOK
<1>1. ActivationInit => ActivationInv /\ ProfileIsOfCatalog
  <2> SUFFICES ASSUME ActivationInit PROVE ProfileIsOfCatalog
    BY ActivationInvInit
  <2>1. /\ person \in [there: BOOLEAN, role: {"client", "provider"},
                       label: CityLabels \union {Unlisted, NoValue}]
        /\ rough = "no" /\ suspended = "no"
    BY DEF ActivationInit
  <2>2. /\ sheet.there = FALSE /\ sheet.blocked = FALSE /\ sheet.status = "draft"
        /\ sheet.services = {} /\ sheet.city = NoValue
    BY DEF ActivationInit, Blank
  <2>3. \A h \in ProfileCalls : fCall[h].at = "idle" /\ fCall[h].form = <<>> /\ fCall[h].patch = <<>>
    BY AtRestHas DEF ActivationInit
  <2> QED
    BY <2>1, <2>2, <2>3, NothingThere
    DEF ProfileIsOfCatalog, ActivationTypeOK, CallIsOfCatalog, ProfileSteps
<1>2. ActivationInv /\ ProfileIsOfCatalog /\ [ActivationNext]_profileVars
        => (ActivationInv /\ ProfileIsOfCatalog)'
  BY ActivationInvStep, CatalogOfNext
<1>3. ProfileIsOfCatalog => ActivationTypeOK
  BY DEF ProfileIsOfCatalog
<1> QED
  BY <1>1, <1>2, <1>3, PTL DEF ActivationSpec
=============================================================================
