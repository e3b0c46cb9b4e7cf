----------------------------- MODULE MCServices -----------------------------
(***************************************************************************)
(* The services beside the marketplace's core, which share no state: in    *)
(* each behaviour one of them is in focus and the others stay as they      *)
(* began, so that one run visits the states of all of them.                *)
(***************************************************************************)
EXTENDS Sessions, Ratings, Chat, ChatPages, OfferQuota, SearchAnalytics, Presence,
        RequestContent, Activation, TLC

CONSTANTS d1, d2

\* Two names of cities that share a key.
MCBaseKey == [n \in CityNames |-> 1]

\* Two services of one category, chosen alone or together, and a third that offers add.
MCTradeCategory == ("s1" :> "a") @@ ("s2" :> "a") @@ ("s3" :> "b")

MCChoice(c, s) == [category |-> c, service |-> s]

MCPageForms ==
  {[label |-> "x", name |-> "n", choice |-> MCChoice("a", NoValue), price |-> 40],
   [label |-> Unlisted, choice |-> MCChoice("a", "s1"), price |-> NoValue],
   [label |-> "x", price |-> -1], [price |-> 40, choice |-> MCChoice("b", "s1")],
   [name |-> "n", choice |-> MCChoice(NoValue, NoValue)]}

MCProfilePatches == {[price |-> 0], [city |-> "x", services |-> {"s3"}]}

VARIABLE focus

serviceVars ==
  <<sessionVars, ratingVars, chatVars, pageVars, quotaVars, searchVars, presenceVars,
    contentVars, profileVars, focus>>

ServicesInit ==
  /\ focus \in {"sessions", "ratings", "chat", "pages", "quota", "search",
               "presence", "content", "profile"}
  /\ PresenceInit /\ ContentInit /\ ActivationInit
  /\ SessionsInit /\ RatingsInit /\ ChatInit /\ PagesInit /\ QuotaInit /\ SearchInit
  /\ focus # "sessions" => redisMode = "memory"
  /\ \A u \in Users : account[u].exists <=> redisMode = "redis"
  /\ \A u \in Users : ~account[u].consent
  /\ focus # "pages" => updatedAt = [t \in Inbox |-> 0]
  /\ focus # "search" => searchMode = "memory"

\* Bound: two sessions are enough for a reset, and over a server, whose every call may
\* fail, for the fork that a lost deletion makes; that of two refreshes at once takes
\* three.  Accounts are blocked over the map alone.
FewerSessions ==
  LET issued == Cardinality({s \in SessionIds : session'[s] # Unused}) IN
  /\ redisMode = "redis" => issued <= 2 /\ \A u \in Users : ~account'[u].blocked
  /\ issued = 3 => \A u \in Users : ~account'[u].blocked /\ account'[u].password = 0

SessionsStep ==
  /\ focus = "sessions" /\ SessionsNext /\ FewerSessions
  /\ UNCHANGED <<focus, ratingVars, chatVars, pageVars, quotaVars, searchVars,
                 presenceVars, contentVars, profileVars>>

RatingsStep ==
  /\ focus = "ratings" /\ RatingsNext
  /\ UNCHANGED <<focus, sessionVars, chatVars, pageVars, quotaVars, searchVars,
                 presenceVars, contentVars, profileVars>>

ChatStep ==
  /\ focus = "chat" /\ ChatNext
  /\ UNCHANGED <<focus, sessionVars, ratingVars, pageVars, quotaVars, searchVars,
                 presenceVars, contentVars, profileVars>>

PagesStep ==
  /\ focus = "pages" /\ PagesNext
  /\ UNCHANGED <<focus, sessionVars, ratingVars, chatVars, quotaVars, searchVars,
                 presenceVars, contentVars, profileVars>>

QuotaStep ==
  /\ focus = "quota" /\ QuotaNext
  /\ UNCHANGED <<focus, sessionVars, ratingVars, chatVars, pageVars, searchVars,
                 presenceVars, contentVars, profileVars>>

\* Bound: a count that an error has made inexact is left there.
SearchStep ==
  /\ focus = "search" /\ exact /\ SearchNext
  /\ UNCHANGED <<focus, sessionVars, ratingVars, chatVars, pageVars, quotaVars,
                 presenceVars, contentVars, profileVars>>

PresenceStep ==
  /\ focus = "presence" /\ PresenceNext
  /\ UNCHANGED <<focus, sessionVars, ratingVars, chatVars, pageVars, quotaVars, searchVars,
                 contentVars, profileVars>>

\* Bound: requests are created before any is edited, with no price, d1 first, and edited
\* while there is one of them; the second is a copy or a second creation.
CreateThenEdit ==
  LET there == {i \in Items : content'[i].there}
      creates == {h \in ContentCalls : dCall'[h].at \in {"city", "enter", "store"}}
      edits == {h \in ContentCalls : dCall'[h].at = "edit"} IN
  /\ edits # {} => Cardinality(there) = 1 /\ creates = {}
  /\ \A h \in creates : dCall'[h].patch.price = Nothing
  /\ creates # {} => \A i \in there :
       content'[i] = NewContent([title |-> content'[i].title, city |-> content'[i].city,
                                 price |-> Nothing])
  /\ d2 \in there => d1 \in there

ContentStep ==
  /\ focus = "content" /\ ContentNext /\ CreateThenEdit
  /\ UNCHANGED <<focus, sessionVars, ratingVars, chatVars, pageVars, quotaVars, searchVars,
                 presenceVars, profileVars>>

\* Bound: after calls have overlapped or one has failed, those under way end and the
\* profile may be blocked; after it was blocked the page is left alone; offers are for s3.
OneOverlap ==
  LET Starts(h) == Stage(h, "idle") /\ fCall'[h].at # "idle" IN
  /\ \A h \in ProfileCalls : Starts(h) => rough = "no" /\ (suspended = "no" \/ fCall'[h].form = <<>>)
  /\ fCall' = fCall =>
       /\ sheet'.services \subseteq sheet.services \union {"s3"}
       /\ rough # "no" \/ suspended # "no" =>
            person' = person /\ sheet'.services = sheet.services

ProfileStep ==
  /\ focus = "profile" /\ ActivationNext /\ OneOverlap
  /\ UNCHANGED <<focus, sessionVars, ratingVars, chatVars, pageVars, quotaVars, searchVars,
                 presenceVars, contentVars>>

ServicesNext ==
  \/ SessionsStep \/ RatingsStep \/ ChatStep \/ PagesStep \/ QuotaStep \/ SearchStep
  \/ PresenceStep \/ ContentStep \/ ProfileStep

ServicesSpec == ServicesInit /\ [][ServicesNext]_serviceVars

\* The types of all the services.
ServicesTypeOK ==
  /\ focus = "sessions" => SessionsTypeOK
  /\ focus = "ratings" => RatingsTypeOK
  /\ focus = "chat" => ChatTypeOK
  /\ focus = "pages" => PagesTypeOK
  /\ focus = "quota" => QuotaTypeOK
  /\ focus = "search" => SearchTypeOK
  /\ focus = "presence" => PresenceTypeOK
  /\ focus = "content" => ContentTypeOK
  /\ focus = "profile" => ActivationTypeOK

Symmetry ==
  Permutations(SessionCalls) \union Permutations(Visitors) \union Permutations(ProfileCalls)
=============================================================================
