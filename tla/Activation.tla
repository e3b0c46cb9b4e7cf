----------------------------- MODULE Activation -----------------------------
(***************************************************************************)
(* A person's account and provider profile (workspace-profile.service.ts,  *)
(* providers.service.ts, users.service.ts): registration, the profile page,*)
(* the APIs that change one of the two, the service an offer adds, and the *)
(* activation of a complete draft.  The page writes the account first and  *)
(* the profile after it.  A save writes the fields that differ from the    *)
(* copy its handler has read, and fails if the services were saved by      *)
(* another handler meanwhile (mongoose's __v).                             *)
(***************************************************************************)
EXTENDS Integers, FiniteSets

CONSTANTS
  Trades,           \* the services of the catalogue
  TradeCategory,    \* their categories
  CityLabels,       \* names of cities of the catalogue, each standing for its id too
  Unlisted,         \* a name the catalogue does not have
  PageForms,        \* what the page sends: a record with the fields it sends
  ProfilePatches,   \* what PATCH /providers/me/profile sends
  ProfileCalls,     \* handlers that may be in flight together
  NoValue           \* null, or an empty field of the form

ASSUME ActivationAssumption ==
  /\ IsFiniteSet(ProfileCalls)
  /\ Unlisted \notin CityLabels /\ NoValue \notin CityLabels \union {Unlisted}
  /\ \A s \in Trades : TradeCategory[s] # NoValue
  /\ \A form \in PageForms :
       "label" \in DOMAIN form => form.label \in CityLabels \union {Unlisted, NoValue}
  /\ \A patch \in ProfilePatches :
       /\ DOMAIN patch \subseteq {"name", "city", "services", "price"}
       /\ "city" \in DOMAIN patch => patch.city \in CityLabels \union {NoValue}
       /\ "services" \in DOMAIN patch => patch.services \subseteq Trades

VARIABLES
  person,           \* the account: whether there is one, its role and its city's name
  sheet,            \* the provider profile
  fCall,            \* the handlers in flight
  rough,            \* history: calls have "overlapped", or one has "failed" half way
  suspended,        \* history: "yes" once the profile was blocked, "overtaken" if a call
                    \* was about to activate it
  cityFromPage,     \* history: the last change of a city ended a call of the page
  lateService,      \* history: an offer has completed a draft
  chosen            \* history: the services the page has saved last, if nothing changed
                    \* them since

profileVars ==
  <<person, sheet, fCall, rough, suspended, cityFromPage, lateService, chosen>>

-----------------------------------------------------------------------------
Blank == [there |-> FALSE, status |-> "draft", blocked |-> FALSE, name |-> NoValue,
          city |-> NoValue, services |-> {}, price |-> NoValue]

AtRest == [at |-> "idle", form |-> <<>>, patch |-> <<>>, stale |-> FALSE]

Stage(h, step) == fCall[h].at = step

Overlaps ==
  rough' = IF \A h \in ProfileCalls : Stage(h, "idle") THEN rough ELSE "overlapped"

Begins(h, step, form, patch) ==
  /\ Stage(h, "idle")
  /\ fCall' = [fCall EXCEPT ![h] = [at |-> step, form |-> form, patch |-> patch, stale |-> FALSE]]
  /\ Overlaps

Turns(h, step, patch) ==
  fCall' = [fCall EXCEPT ![h] = [at |-> step, form |-> fCall[h].form, patch |-> patch,
                                 stale |-> fCall[h].stale]]

Closes(h) == fCall' = [fCall EXCEPT ![h] = AtRest]

\* isProviderProfileComplete(): a price of zero is a price.
IsComplete(s) ==
  s.name # NoValue /\ s.city # NoValue /\ s.services # {} /\ s.price # NoValue

\* resolveCityIdFromLabel()
CityOf(label) == IF label \in CityLabels THEN label ELSE NoValue

\* resolveServiceKeys(): the service chosen, or all of the category's.
TradesOf(choice) ==
  IF choice.service # NoValue THEN {choice.service}
  ELSE {s \in Trades : TradeCategory[s] = choice.category}

\* resolveServiceKeys() and parseOptionalBasePrice() refuse the form.
Refused(form) ==
  \/ "price" \in DOMAIN form /\ form.price # NoValue /\ form.price < 0
  \/ /\ "choice" \in DOMAIN form
     /\ \/ /\ form.choice.service # NoValue
           /\ \/ form.choice.service \notin Trades
              \/ form.choice.category \notin {NoValue, TradeCategory[form.choice.service]}
        \/ /\ form.choice.service = NoValue /\ form.choice.category # NoValue
           /\ \A s \in Trades : TradeCategory[s] # form.choice.category

\* The fields of the provider profile that a form changes.
PatchOf(form) ==
  LET given == ({"name", "price"} \intersect DOMAIN form)
                 \union (IF "choice" \in DOMAIN form THEN {"services"} ELSE {})
                 \union (IF "label" \in DOMAIN form THEN {"city"} ELSE {})
  IN [f \in given |-> CASE f = "services" -> TradesOf(form.choice)
                        [] f = "city" -> CityOf(form.label)
                        [] OTHER -> form[f]]

\* The fields of s with those of p in place.
PutOver(s, p) == [f \in DOMAIN s |-> IF f \in DOMAIN p THEN p[f] ELSE s[f]]

ActivationInit ==
  /\ person = [there |-> FALSE, role |-> "client", label |-> NoValue]
  /\ sheet = Blank
  /\ fCall = [h \in ProfileCalls |-> AtRest]
  /\ rough = "no" /\ suspended = "no"
  /\ cityFromPage = FALSE /\ lateService = FALSE /\ chosen = NoValue

-----------------------------------------------------------------------------
(* The profile page *)

\* registerProfile(): the city is checked and the account made, for a provider with the
\* draft that activateIfComplete() creates.
RegisterProfile(h, role, form) ==
  /\ ~person.there
  /\ "label" \in DOMAIN form /\ form.label \in CityLabels
  /\ person' = [there |-> TRUE, role |-> role, label |-> form.label]
  /\ sheet' = IF role = "provider" THEN [sheet EXCEPT !.there = TRUE] ELSE sheet
  /\ Begins(h, IF role = "provider" THEN "account" ELSE "customer", form, <<>>)
  /\ UNCHANGED <<suspended, cityFromPage, lateService, chosen>>

SaveProfile(h, form) ==
  /\ person.there
  /\ Begins(h, "account", form, <<>>)
  /\ UNCHANGED <<person, sheet, suspended, cityFromPage, lateService, chosen>>

\* users.updateMe() of both; a customer's registration ends here.
WriteAccount(h) ==
  LET form == fCall[h].form IN
  /\ Stage(h, "account") \/ Stage(h, "customer")
  /\ IF "label" \in DOMAIN form
       THEN person' = [person EXCEPT !.label = form.label] /\ cityFromPage' = FALSE
       ELSE UNCHANGED <<person, cityFromPage>>
  /\ IF Stage(h, "customer")
       THEN Closes(h)
       ELSE Turns(h, "resolve", fCall[h].patch)
  /\ UNCHANGED <<sheet, rough, suspended, lateService, chosen>>

\* Variant: the name of the city is not looked up.
ResolveFormKeepCity(h) ==
  LET form == fCall[h].form
      patch == [f \in DOMAIN PatchOf(form) \ {"city"} |-> PatchOf(form)[f]] IN
  /\ Stage(h, "resolve")
  /\ IF Refused(form) \/ DOMAIN patch = {}
       THEN Closes(h) /\ UNCHANGED sheet
       ELSE /\ sheet' = [sheet EXCEPT !.there = TRUE]
            /\ Turns(h, "read", patch)
  /\ UNCHANGED <<person, rough, suspended, cityFromPage, lateService, chosen>>

\* What the form says of the provider is resolved, and refused if it names no service or
\* no price; getOrCreateMyProfile().
ResolveForm(h) ==
  LET form == fCall[h].form IN
  /\ Stage(h, "resolve")
  /\ IF Refused(form) \/ DOMAIN PatchOf(form) = {}
       THEN Closes(h) /\ UNCHANGED sheet
       ELSE /\ sheet' = [sheet EXCEPT !.there = TRUE]
            /\ Turns(h, "read", PatchOf(form))
  /\ UNCHANGED <<person, rough, suspended, cityFromPage, lateService, chosen>>

-----------------------------------------------------------------------------
(* updateMyProfile(), by the page and by PATCH /providers/me/profile *)

PatchProfile(h, patch) ==
  /\ person.there /\ sheet.there
  /\ Begins(h, "read", <<>>, patch)
  /\ UNCHANGED <<person, sheet, suspended, cityFromPage, lateService, chosen>>

\* What save() is going to write: the fields that differ, and the status of a draft
\* that is complete with them.
Changes(patch) ==
  LET after == PutOver(sheet, patch)
      status == IF sheet.status = "draft" /\ IsComplete(after) THEN {"status"} ELSE {}
      fields == {f \in DOMAIN patch : patch[f] # sheet[f]}
  IN [f \in fields \union status |-> IF f = "status" THEN "active" ELSE patch[f]]

ReadProfile(h) ==
  /\ Stage(h, "read")
  /\ IF sheet.blocked
       THEN Closes(h)
       ELSE Turns(h, "write", Changes(fCall[h].patch))
  /\ UNCHANGED <<person, sheet, rough, suspended, cityFromPage, lateService, chosen>>

\* The other copies of the profile are out of date for a save of the services.
WriteProfile(h) ==
  LET c == fCall[h]
      fromPage == c.form # <<>>
      services == "services" \in DOMAIN c.patch IN
  /\ Stage(h, "write")
  /\ IF services /\ c.stale
       THEN Closes(h) /\ UNCHANGED <<sheet, cityFromPage, chosen>>
       ELSE /\ sheet' = PutOver(sheet, c.patch)
            /\ fCall' = [g \in ProfileCalls |->
                           IF g = h THEN AtRest
                           ELSE [fCall[g] EXCEPT !.stale = @ \/ (services /\ Stage(g, "write"))]]
            /\ cityFromPage' = IF fromPage /\ "label" \in DOMAIN c.form THEN TRUE
                               ELSE cityFromPage /\ "city" \notin DOMAIN c.patch
            /\ chosen' = IF fromPage /\ "choice" \in DOMAIN c.form THEN c.form.choice
                         ELSE IF services THEN NoValue ELSE chosen
  /\ UNCHANGED <<person, rough, suspended, lateService>>

-----------------------------------------------------------------------------
(* The other calls *)

\* PATCH /users/me
PatchMe(label) ==
  /\ person.there
  /\ person' = [person EXCEPT !.label = label]
  /\ cityFromPage' = FALSE
  /\ Overlaps
  /\ UNCHANGED <<sheet, fCall, suspended, lateService, chosen>>

\* GET /providers/me/profile, and a provider's login: getOrCreateMyProfile()
MyProfile ==
  /\ person.there
  /\ sheet' = [sheet EXCEPT !.there = TRUE]
  /\ UNCHANGED <<person, fCall, rough, suspended, cityFromPage, lateService, chosen>>

\* Variant: whatever is not active yet is activated.
LogInActivateAny(h) ==
  /\ person.role = "provider"
  /\ ~sheet.blocked /\ sheet.status # "active" /\ IsComplete(sheet)
  /\ Begins(h, "write", <<>>, [status |-> "active"])
  /\ UNCHANGED <<person, sheet, suspended, cityFromPage, lateService, chosen>>

\* activateIfComplete() at login
LogIn(h) ==
  /\ person.role = "provider"
  /\ ~sheet.blocked /\ sheet.status = "draft" /\ IsComplete(sheet)
  /\ Begins(h, "write", <<>>, [status |-> "active"])
  /\ UNCHANGED <<person, sheet, suspended, cityFromPage, lateService, chosen>>

\* An offer adds the service of its request to the profile of its provider, or makes a
\* profile; isBlocked was read before, and the status is left to the next login.
OfferAddsService(s) ==
  /\ person.there
  /\ s \notin sheet.services
  /\ person' = [person EXCEPT !.role = "provider"]
  /\ sheet' = [sheet EXCEPT !.there = TRUE, !.services = @ \union {s}]
  /\ lateService' = (lateService \/ (sheet.status = "draft" /\ IsComplete(sheet')))
  /\ chosen' = NoValue
  /\ Overlaps
  /\ UNCHANGED <<fCall, suspended, cityFromPage>>

BlockProfile ==
  /\ sheet.there
  /\ sheet' = [sheet EXCEPT !.blocked = TRUE, !.status = "suspended"]
  /\ suspended' = IF \E h \in ProfileCalls : "status" \in DOMAIN fCall[h].patch
                  THEN "overtaken" ELSE IF suspended = "no" THEN "yes" ELSE suspended
  /\ UNCHANGED <<person, fCall, rough, cityFromPage, lateService, chosen>>

\* The status stays "suspended".
UnblockProfile ==
  /\ sheet.there
  /\ sheet' = [sheet EXCEPT !.blocked = FALSE]
  /\ UNCHANGED <<person, fCall, rough, suspended, cityFromPage, lateService, chosen>>

\* A rejected database call or a stopped process: what is written stays.
ProfileFail(h) ==
  /\ ~Stage(h, "idle")
  /\ rough' = IF rough = "no" THEN "failed" ELSE rough
  /\ Closes(h)
  /\ UNCHANGED <<person, sheet, suspended, cityFromPage, lateService, chosen>>

-----------------------------------------------------------------------------
PageCall(h) ==
  \/ \E form \in PageForms :
       \/ SaveProfile(h, form)
       \/ \E role \in {"client", "provider"} : RegisterProfile(h, role, form)
  \/ WriteAccount(h) \/ ResolveForm(h)

ProfileCall(h) ==
  \/ \E patch \in ProfilePatches : PatchProfile(h, patch)
  \/ ReadProfile(h) \/ WriteProfile(h) \/ LogIn(h)

ActivationNext ==
  \/ \E h \in ProfileCalls : PageCall(h) \/ ProfileCall(h) \/ ProfileFail(h)
  \/ \E label \in CityLabels \union {Unlisted} : PatchMe(label)
  \/ \E s \in Trades : OfferAddsService(s)
  \/ MyProfile \/ BlockProfile \/ UnblockProfile

ActivationSpec == ActivationInit /\ [][ActivationNext]_profileVars

-----------------------------------------------------------------------------
(* What the person is shown *)

\* resolveProviderSelection()
SelectedCategory(services) ==
  LET categories == {TradeCategory[s] : s \in services} IN
  IF Cardinality(categories) = 1 THEN CHOOSE c \in categories : TRUE ELSE NoValue

SelectedService(services) ==
  IF Cardinality(services) = 1 THEN CHOOSE s \in services : TRUE ELSE NoValue

\* buildResponse(): the city of the profile, or the one the account names.
ShownCity == IF sheet.city # NoValue THEN sheet.city ELSE CityOf(person.label)

Points(given, n) == IF given THEN n ELSE 0

Priced == sheet.price # NoValue /\ sheet.price > 0

OnList == sheet.there /\ sheet.status = "active" /\ ~sheet.blocked

\* computeProviderCompleteness(), in percent
ProviderReady(bio, company) ==
  IF ~sheet.there THEN 0
  ELSE Points(sheet.name # NoValue, 15) + Points(bio, 15) + Points(sheet.city # NoValue, 15)
         + Points(sheet.services # {}, 25) + Points(Priced, 10) + Points(company, 10)
         + Points(OnList, 10)

\* computeClientCompleteness(): name, mail, avatar and consent are always given.
ClientReady(phone, clientProfile) ==
  60 + Points(person.label # NoValue, 20) + Points(phone, 15) + Points(clientProfile, 5)

\* getActionsRail(): the steps it asks for.
Rail(bio, company, phone, clientProfile, clientBio) ==
  LET ready == ProviderReady(bio, company) IN
  {step \in {"service", "price", "bio", "activate"} :
     CASE step = "service" -> ready < 100 /\ sheet.services = {}
       [] step = "price" -> ready < 100 /\ ~Priced
       [] step = "bio" -> ClientReady(phone, clientProfile) < 100 /\ ~clientBio
       [] OTHER -> ~OnList}

-----------------------------------------------------------------------------
(* Properties *)

ProfileSteps == {"idle", "account", "customer", "resolve", "read", "write"}

\* The type of the account, the profile and the handlers in flight.
ActivationTypeOK ==
  /\ person \in [there: BOOLEAN, role: {"client", "provider"},
                 label: CityLabels \union {Unlisted, NoValue}]
  /\ sheet.there \in BOOLEAN /\ sheet.blocked \in BOOLEAN
  /\ sheet.status \in {"draft", "active", "suspended"}
  /\ sheet.services \subseteq Trades /\ sheet.city \in CityLabels \union {NoValue}
  /\ \A h \in ProfileCalls : fCall[h].at \in ProfileSteps
  /\ rough \in {"no", "failed", "overlapped"} /\ suspended \in {"no", "yes", "overtaken"}

\* A profile that was blocked while no call was about to activate it is never
\* active again: unblocking leaves it suspended, and only a draft is activated.
BlockedStaysSuspended ==
  suspended = "yes" => sheet.status = "suspended"

\* As long as calls have neither overlapped nor failed half way, the account, the profile
\* and what the person is shown go together.  A profile with all it needs is active,
\* unless it was blocked or an offer brought the last service: so whom the rail asks
\* for nothing but the activation still lacks a name or a city.  After a call of the
\* page both cities are the same, and the page shows the category and the service
\* that it saved.
ProfileGoesTogether ==
  rough = "no" /\ (\A h \in ProfileCalls : Stage(h, "idle")) =>
    /\ suspended = "no" /\ ~lateService =>
         /\ IsComplete(sheet) => OnList
         /\ \A bio, company, phone, clientProfile, clientBio \in BOOLEAN :
              Rail(bio, company, phone, clientProfile, clientBio) = {"activate"} =>
                sheet.name = NoValue \/ sheet.city = NoValue
    /\ cityFromPage => ShownCity = CityOf(person.label) /\ sheet.city = ShownCity
    /\ chosen # NoValue =>
         /\ chosen.service # NoValue => SelectedService(sheet.services) = chosen.service
         /\ chosen.category # NoValue => SelectedCategory(sheet.services) = chosen.category
         /\ chosen.service = NoValue /\ chosen.category = NoValue => sheet.services = {}

-----------------------------------------------------------------------------
(* What makes them hold: the inductive invariant *)

Wishes == {"name", "city", "services", "price"}

\* What a call has to write at each of its steps.
CallHoldsItsOwn(h) ==
  LET c == fCall[h] IN
  /\ c.at \in ProfileSteps
  /\ c.at \notin {"read", "write"} => c.patch = <<>>
  /\ c.at = "read" => /\ DOMAIN c.patch \subseteq Wishes
                      /\ c.form # <<>> => c.patch = PatchOf(c.form) /\ ~Refused(c.form)
  /\ c.at = "write" => /\ DOMAIN c.patch \subseteq Wishes \union {"status"}
                       /\ "status" \in DOMAIN c.patch => c.patch["status"] = "active"
  /\ c.at # "idle" => person.there
  /\ c.at \in {"read", "write"} => sheet.there

ProfileShape ==
  /\ DOMAIN fCall = ProfileCalls /\ DOMAIN person = {"there", "role", "label"}
  /\ \A h \in ProfileCalls : DOMAIN fCall[h] = {"at", "form", "patch", "stale"}
  /\ DOMAIN sheet = DOMAIN Blank
  /\ sheet.status \in {"draft", "active", "suspended"}
  /\ suspended = "no" => ~sheet.blocked /\ sheet.status # "suspended"
  /\ person.role = "provider" \/ sheet.services # {} \/ cityFromPage => person.there
  /\ sheet.services # {} => sheet.there
  /\ \A h \in ProfileCalls : CallHoldsItsOwn(h)

\* Once it is blocked no call is about to write the status.
StatusIsLeft ==
  suspended = "yes" =>
    /\ sheet.status = "suspended"
    /\ \A h \in ProfileCalls : "status" \notin DOMAIN fCall[h].patch

\* A complete profile s is active.
IsServed(s) == suspended = "no" /\ ~lateService /\ IsComplete(s) => s.status = "active"

\* s has the city and the services of a form.
Follows(s, form) ==
  /\ "label" \in DOMAIN form => s.city = CityOf(form.label)
  /\ "choice" \in DOMAIN form => s.services = TradesOf(form.choice) /\ ~Refused(form)

\* The choice names a category or a service of its own.
IsAChoice(choice) ==
  /\ choice.service # NoValue => choice.category \in {NoValue, TradeCategory[choice.service]}
  /\ choice.service = NoValue /\ choice.category # NoValue => TradesOf(choice) # {}

\* In calm times there is one call at most, and what it is going to write is a profile
\* that goes together with its form and with the account.
CalmGoesTogether ==
  rough = "no" =>
    /\ \A g, h \in ProfileCalls : ~Stage(g, "idle") /\ ~Stage(h, "idle") => g = h
    /\ IsServed(sheet)
    /\ cityFromPage => sheet.city = CityOf(person.label)
    /\ chosen # NoValue => sheet.services = TradesOf(chosen) /\ IsAChoice(chosen)
    /\ \A h \in ProfileCalls :
         /\ Stage(h, "write") => /\ IsServed(PutOver(sheet, fCall[h].patch))
                                /\ Follows(PutOver(sheet, fCall[h].patch), fCall[h].form)
         /\ fCall[h].at \in {"resolve", "read", "write"} /\ "label" \in DOMAIN fCall[h].form =>
              person.label = fCall[h].form.label

ActivationInv == ProfileShape /\ StatusIsLeft /\ CalmGoesTogether

\* What a call has been sent and is going to write is of the catalogue.
CallIsOfCatalog(h) ==
  LET c == fCall[h] IN
  /\ "label" \in DOMAIN c.form => c.form.label \in CityLabels \union {Unlisted, NoValue}
  /\ "city" \in DOMAIN c.patch => c.patch["city"] \in CityLabels \union {NoValue}
  /\ "services" \in DOMAIN c.patch => c.patch["services"] \subseteq Trades

ProfileIsOfCatalog == ActivationTypeOK /\ \A h \in ProfileCalls : CallIsOfCatalog(h)
=============================================================================
