# A verification model of the marketplace backend

The backend lets clients publish requests, providers answer them with offers, and both
turn an accepted offer into a contract, a booking and a review. It is a NestJS application
over MongoDB and Redis. This directory holds a TLA+ model of its core, the TLC runs that
check the model on small instances, and proofs checked by TLAPS for every instance. Paths
below are relative to the repository.

## 1. The system

Every HTTP call runs a handler of one service. Handlers share nothing but the database;
each `await` on it lets other handlers run, in the same process or in another one. MongoDB
makes a single operation on one document atomic, and the unique indexes are enforced in
the operation that writes. Only `BookingsService.reschedule` uses a transaction:
everything else that takes several writes can be overtaken or stopped between two of them.

| component | state | operations that change it | interacts with |
|---|---|---|---|
| offers (`src/modules/offers`) | `offers`: status, price; one per request and provider | create, update, delete (provider); accept, decline (client) | reads and locks requests, forms contracts |
| requests (`src/modules/requests`) | `requests`: status, `matchedProviderUserId`, `assignedContractId`, `archivedAt`, `purgeAt` | create, duplicate, update, publish, unpublish, archive, delete; a TTL index purges | counts offers, favorites and chats |
| contracts (`src/modules/contracts`) | `contracts`: status, price; one per offer | confirm (client), cancel, complete (both) | writes requests, calls bookings |
| bookings (`src/modules/bookings`) | `bookings`: status, slot, contract, reschedule links; four unique indexes | create, cancel, reschedule, complete; history | reads availability |
| availability | weekly schedule, blackouts | update, add/remove blackout; slot computation | reads bookings |
| auth, `infra/redis.service` | sessions and reset tokens in Redis or in a map of the process | register, login, refresh, logout, forgot, reset and change password, social sign-in | users |
| reviews, profiles | reviews; rating averages on profiles | review a client, a provider, the platform | bookings |
| chats | threads, messages, unread counters | open, send, list, mark read | requests, offers, contracts, presence |
| presence, analytics | keys in Redis, `lastSeenAt`; counters of searches | connect, disconnect, ping, any authenticated call; a search | |
| users, providers | accounts, provider profiles | register, edit, activate, block; an offer adds its service | auth, offers |
| catalog | cities | a request may enter one; search, list | requests, workspace |
| workspace | none but the profile page, which writes account and profile | panels, lists and rails for the frontend | reads all collections |
| favorites, geo, uploads, legal | single documents or files | one write per call | |

What is hard in this system is what happens between two database operations:

- `acceptForClient` makes five writes without a transaction. It must leave one live
  contract per request although acceptances, cancellations, edits and the owner's commands
  overlap it, and although it may stop half way.
- `confirmByClient`, `cancel` and `complete` each write two or three collections and check
  only a copy they have read before.
- The owner's commands on a request (publish, unpublish, delete) check a copy and then
  write by id, whatever has become of the request.
- `reschedule` replaces a booking by another one; links, unique indexes and the later
  completion must agree about it.
- Sessions, ratings, unread counters, the daily offer limit, edits of a request, the
  profile page and the double-booking check are read-then-write without protection.
- A page of the workspace is put together from up to twenty-one queries that see different
  moments, from windows that slide, and from the same figure computed in several places
  with rounding, cuts and thresholds of their own.

What makes each component correct:

- *offers*: at most one offer of a request leads to a live contract; an accepted offer is
  out of its provider's hands; a lock leads to a contract.
- *requests*: a live contract keeps its request locked; a request shown as matched is
  matched by a contract; a deleted request stays out of the feed.
- *contracts*: formed once, confirmed only with a booking, over for good.
- *bookings*: one active booking per request and per contract; the history of reschedules
  is a chain; no two active bookings of a provider overlap.
- *auth*: a password reset ends every session; a refresh token is used once.
- *reviews, chats*: averages and counters agree with what they summarise.
- *presence, analytics*: the two answers to who is online agree; a visitor counts once.
- *users, catalog*: account and profile go together; no city is entered twice.
- *workspace*: what is counted, cut, sorted and paged in different places agrees, a
  command that is shown works, and work under way is shown to both its parties.

`PROJECT.json` lists every component with its status, and under "hazards" each of these
dangers at the line where it bites, with the properties that cover it.

## 2. The modules

| module | models |
|---|---|
| `ContractLife` | abstract specification: the contracts of one request come one after another |
| `Matching` | offers, the status of requests, contract cancellation |
| `Fulfilment` | extends `Matching` by contract confirmation and completion and by bookings |
| `BookingHistory` | extends `Fulfilment` by the walk of `getHistory` over reschedule links |
| `Slots` | pure: `getSlots`, `assertStartAtIsSlot` over integer time |
| `Calendar` | extends `Slots` by one provider's settings, blackouts and bookings, and the booking calls that check and insert |
| `WorkspaceCards` | extends `Fulfilment` by the cards and commands both parties are shown of a request |
| `RequestFeed` | extends `Fulfilment` by the public lists of requests and who may open one |
| `PartyLists` | extends `RequestFeed` by the parties' lists of offers, contracts and bookings |
| `Sessions` | accounts, sessions, password resets, over both Redis clients |
| `Ratings` | reviews of bookings and the averages on profiles |
| `Chat`, `ChatPages` | one conversation; the pages of an inbox |
| `OfferQuota` | the daily limit on offers |
| `SearchAnalytics` | the counting of searches |
| `Presence` | the online key and the last visit |
| `RequestContent` | creating, duplicating and editing a request, and the cities it enters |
| `Activation` | account and provider profile: registration, profile page, activation |
| `Listing` | sorting and pages, shared by the modules below |
| `Insights`, `ProfileFunnel`, `UserSignals` | statistics: insights, the viewer against the market, what is retold of both |
| `CityRanking`, `PriceAdvice` | statistics: cities and their radar; short ranges filled with thirty days, prices |
| `Statistics` | statistics: the funnels and figures counted by separate queries |
| `PlatformActivity` | the activity chart, the viewer's series, the live feed |
| `ProviderDirectory`, `Boards` | the list of providers; the private and public boards of requests |
| `PrivateOverview` | the private start page with its monthly bars |
| `Inbox`, `ReviewRail` | the rails of chat and reviews |
| `CityLookup` | the search of cities and the places of their activity |
| `Workspace` | the panels, lists and rails together, one in focus per behaviour |
| `MCMatching`, `MCFulfilment`, `MCCalendar`, `MCServices`, `MCWorkspace` | instances for TLC (`MCFulfilment` of `BookingHistory` and the three modules of lists and cards) |
| `MatchingProofs`, `FulfilmentProofs`, `CalendarProofs`, `DocumentProofs`, `SessionsProofs`, `ServicesProofs`, `ListingProofs`, `WorkspaceProofs` | the theorems |

The services share no state in the model: `MCServices` puts one of them in focus per
behaviour, so that a single run visits the states of all, and `Workspace` does the same
with the panels. The three modules of cards and lists are state functions over the
documents of `Fulfilment`, and so see whatever its handlers leave behind.

`Calendar` does not extend `Fulfilment`. They see the same handlers of bookings from two
sides: `Fulfilment` has the documents, links and unique indexes and lets a booking be
refused for any reason; `Calendar` has time, of one provider, and lets a call fail for any
reason, the unique indexes among them.

**State.** `request`, `offer`, `contract` and `booking` are the four collections,
functions from ids to documents cut down to the fields that decide something. Ids are
never reused; a document not inserted yet is "absent" (or "none"). The unique index on
`offerId` makes it possible to call a contract by its offer. `job` and `task` hold the
handlers in flight: where each is suspended, about which document, and the price it
carries. `job` belongs to the handlers of `Matching`, `task` to the ones `Fulfilment`
adds.

**Actions.** A handler is cut at its awaits. The step that starts it makes all reads up to
its first write, or up to a read whose result matters (the offer of a decline and then its
request); each later step is one database operation with its filter. Reads whose answer
cannot change until the write, or that the write repeats, are part of the write. A call
that is refused before its first write changes nothing and has no step. `Fail` and
`TaskFail` end a handler anywhere: a rejected database call, a lost connection, a stopped
process. What it has written stays.

| handler | actions |
|---|---|
| `createForProvider` | `CreateOfferRead`, `CreateOfferInsert` |
| `updateForProvider` | `UpdateOfferRead`, `UpdateOfferWrite` |
| `deleteForProvider` | `DeleteOfferRead`, `DeleteOfferWrite` |
| `acceptForClient` | `AcceptRead`, `AcceptLock`, `AcceptMark`, `AcceptContract`, `AcceptAssign`, `AcceptDeclineOthers` |
| `declineForClient` | `DeclineRead`, `DeclineReadRequest`, `DeclineWrite` |
| `publishForClient` | `PublishRead`, `PublishWrite` |
| `unpublishMyClientRequest` | `UnpublishRead`, `UnpublishCount`, `UnpublishWrite` |
| `archiveMyClientRequest`, TTL index | `ArchiveRequest`, `PurgeRequest` |
| `deleteMyClientRequest` | `DeleteRequestRead`, `DeleteRequestCount`, `DeleteRequestCancel`, `DeleteRequestRemove` |
| `ContractsService.cancel` | `CancelRead`, `CancelWrite`, `CancelRelease` |
| `confirmByClient` | `ConfirmRead`, `ConfirmBook`, `ConfirmContract`, `ConfirmRequest` |
| `ContractsService.complete` | `CompleteRead`, `CompleteContract`, `CompleteBooking`, `CompleteRequest` |
| `createByClient` (`POST /bookings`) | `BookDirectly` |
| `cancelByClient` | `CancelBookingRead`, `CancelBookingSave` |
| `cancelByProvider`, `cancelByAdmin` | `CancelBookingAtomic` |
| `reschedule`, `BookingsService.complete` | `RescheduleBooking`, `FinishBooking` |
| `getHistory` | `Root`, `Items`, `Conflict` of `BookingHistory` (read-only) |

The same in `Calendar`:

| handler | actions |
|---|---|
| `createByClient` | `CreateRead`, `SlotBlackouts`, `SlotBookings`, `CountBookings`, `CountBlackouts`, `Insert` |
| `reschedule` | `RescheduleRead`, the same four checks, `TransactionRead`, `TransactionCommit` |
| the cancel handlers, `BookingsService.complete` | `CancelBooking`, `FinishBooking` |
| `updateMy`, `addMyBlackout`, `removeMyBlackout` | `UpdateMy`, `AddMyBlackout`, `RemoveMyBlackout` |
| `getSlots` | `GetSlots` of `Slots` (read-only; inside a booking call it is cut at its reads) |

The services:

| handler | actions |
|---|---|
| `login`, `register`, social sign-in, `completeOauthSignup` | `Login`, `Register`, `ResolveSocialAuth`, `CompleteSignupRead`/`Create`/`Consent`, `Issue` of `Sessions` |
| `refresh`, `logout` | `RefreshRead`, `RefreshGet`, `RefreshDel`, `Issue`; `Logout` |
| `forgotPassword`, `resetPassword`, `changePassword` | `ForgotPassword`; `ResetRead`, `ResetSetPassword`, `ResetDelKey`, `ResetScan`, `ResetPurge`; `ChangeRead`, `ChangeWrite` |
| a new process, `blockUser`, `unblockUser` | `Restart`; `SetBlocked` |
| `createForProvider`, `createForClient` (reviews), `applyRating` | `ReviewRead`, `ReviewInsert`, `RatingLoad`, `RatingSave` of `Ratings` |
| `createOrGetConversation`, `sendMessage`, `markRead`, `listMessages` | `OpenRead`/`Relink`/`Create`, `SendRead`/`Insert`/`Count`, `ReadThread`/`Mark`/`Clear`, `ListMessages` of `Chat` |
| `listConversations` | `FirstPage`, `NextPage` of `ChatPages`, with `Touch` for any write of a thread |
| `createForProvider` (offers), the limit | `QuotaRead`, `QuotaInsert`, `QuotaRefused`, `QuotaDelete`, `Midnight` |
| `trackSearchEvent` | `SearchBegin`, `DedupeServer` or `DedupeGet` and `DedupeSet`, `Count`, `CountDuplicateKey`, `CountAgain` |
| `markOnline`, `touchLastSeen`, `markOffline` | `Active` or `Ping`, `MarkOnline`, `TouchLastSeen`, `Disconnect`, `PresenceTick` |
| `createPublic`, `createForClient` (requests), `createDynamic` | `CreateBegin`, `CityLookup`, `CityEnter`, `Store` of `RequestContent` |
| `duplicateMyClientRequest`, `updateMyClientRequest` | `Duplicate`; `EditRead`, `EditWrite` |
| `registerProfile`, `saveProfile` | `RegisterProfile` or `SaveProfile`, `WriteAccount`, `ResolveForm`, `ReadProfile`, `WriteProfile`, `LogIn` of `Activation` |
| `PATCH me`, `PATCH me/profile`, `GET me/profile`, an offer, blocking | `PatchMe`, `PatchProfile`, `MyProfile`, `OfferAddsService`, `BlockProfile`, `UnblockProfile` |

The panels: a call loads its figures in one or more steps (`LoadOverview`, `LoadOwnWindow`
and `LoadOlderWindow`, `LoadChart`, `RailCounts`, `ReadPage` ...) and the answer is a
state function of what it has loaded. Where queries see different moments and that
matters, they are different steps with the writes of others in between: `PriceAdvice` (the
second call for thirty days), `PrivateOverview` (months taken again after the queries),
`Inbox` (counts and list), `ReviewRail` (pages). Where they do not, the inputs are
enumerated: every figure on either side of every threshold that the code compares it with.
`Statistics` keeps requests, offers and contracts with one action per handler (`Post`,
`Publish`, `SendOffer`, `Accept`, `Confirm`, `Complete`, `Cancel` ...), for what it asks
is whether different queries select the same documents.

Decisions worth knowing:

- `AcceptContract` stands for findOne, create and the second findOne: contracts are never
  deleted, so however they interleave the contract is found or made.
- The retention check of a delete counts offers, favorites and chats. Favorites and chats
  are not modelled, so a request may be retained at any time and is removed only when it
  has no offer.
- Purging does not wait for the purge date: it may come at any time while the status is
  "cancelled". A request published again by a contract's cancellation keeps its `purgeAt`,
  which the index ignores until the next cancellation.
- `RescheduleBooking` and the one-write handlers are single steps because the transaction,
  or the filter of the write, repeats the check of the read.
- Times, slots and blackouts only refuse bookings. Any booking may be refused (by
  `TaskFail`, or by not being tried), so no property depends on them.
- `POST /bookings` takes its ids from the client. `BookDirectly` covers calls whose ids
  belong together (an offer with no contract or with its own).
- `getHistory` is taken on the booking asked for and on the links as they are: `Walk` is a
  recursive function of the number of hops left, `MaxHops` is the code's `MAX_HOPS`, 200.
- Time in `Slots` and `Calendar` is an integer and a zone a constant offset. Summer time,
  on whose two days a provider's day is not `Day` long, is left out, and so is the cut of
  `getSlots` at 500 slots. `Calendar` leaves out the hours before start within which
  cancelling and rescheduling are refused; the checked properties hold without them.
- `BeginCall` chooses a slot that the read of the settings and the comparison with the
  clock accept; other starts are refused there. The four checks are four reads, each a
  step.
- The reschedule transaction sees a snapshot. It conflicts with a write of the booking it
  replaces, and is then tried again, but not with an insert.
- `CancelBooking` may cancel a completed booking: `cancelByClient` saves a copy it read
  while the booking was confirmed.
- In `Sessions` a session has a root, the sign-in it descends from, and a basis, the
  password of that moment. Redis errors are swallowed by the service: a failed read
  answers null and a failed write does nothing, at any call. Comparing hashes and signing
  tokens is taken to work. The made-up password of a social account is like any other:
  nobody can type it in the code, somebody could in the model.
- `Chat` counts what is read and computed; `Inbox` takes each of its handlers as one step
  and asks about many threads. `Ratings` rounds at each step as the code does, in
  hundredths, and leaves out what floating point adds.
- A title in `RequestContent` stands for all that the search text is made from. Cities are
  compared by their lower-case name; `BaseKey` is the normalisation, which may send two
  names to one key.
- `Activation` has the fields that activation depends on: name, city, services and price.
- Scores and ratios of `CityRanking` and `PriceAdvice` are integers, rounded as the code
  rounds them for display; a tie that only floating point makes or breaks is not modelled.
- A card shows the contract updated last; the model keeps no times and lets it be any of
  the party's contracts, as PartyLists does.
- Everything worded (texts, labels, colours, units, formats) is left out of the panels.
- The statuses "withdrawn" (offer) and "in_progress" (contract) are declared and never
  written; they are left out.

**Variants.** A definition directly before the one it resembles, commented "Variant", is
the same code with a plausible mistake. `PROJECT.json` pairs each property with one that
breaks it, so each property is known to depend on the code.

## 3. The runs

| run | instance | checks |
|---|---|---|
| `matching` | 1 request, 2 offers of 2 providers, 2 prices, 2 handlers, failures; 0.9 million states | `TypeOK`, `OneLiveContract`, `LiveContractHoldsRequest`, `AcceptedOfferIsFrozen`, `ImplementsContractLife` |
| `matching_liveness` | the same with 1 price and no failures, fair | `LockLeadsToContract` |
| `fulfilment` | 1 request, 1 offer, 1 handler of `Matching` and 2 tasks, 3 bookings, failures; 0.4 million states | `MarketTypeOK`, `ConfirmedHasBooking`, `MatchedHasBooking`, `HistoryIsAChain`, `HistoryShowsTheChain`, `CommandsOnCardWork`, `LiveContractOnBothCards`, `ListsShowTheWork`, `EndedStaysEnded` |
| `calendar` | 1 provider, 3 bookings, 2 calls, 2 settings, 2 spans for blackouts, days of 5 units; 0.9 million states | `TypeOK`, `OverlapNeedsOverlappingCalls`, `ShownSlotsAreFree`, `SlotsFitWorkDay` |
| `services` | nine services, one in focus per behaviour, 2 calls each; 0.5 million states | `ServicesTypeOK` and the twelve properties below |
| `workspace` | thirteen panels, one in focus per behaviour; 0.2 million states | `WorkspaceTypeOK` and the seven properties below |
| `decline_race` | 1 offer, 2 handlers, no failures | `AcceptedNeverDeclined`, violated |
| `retained_request` | 1 offer, 1 handler, no failures | `RetainedUntilOwnerPublishes`, violated |
| `cancel_confirm_race` | 1 offer, 1 handler, 1 task, no failures | `CancelReleasesRequest`, violated |
| `complete_rescheduled` | 1 offer, 1 handler, 1 task, no failures | `CompleteClosesAll`, violated |
| `double_booking` | as `calendar`, no failures | `NoDoubleBooking`, violated |
| `shown_not_bookable` | a provider west of UTC | `ShownSlotsAreBookable`, violated |

What `services` shows, by focus:

- *sessions* (`ResetEndsSessions`, `OneSessionPerSignIn`): over the map in memory a reset
  ends every session of the old password but those of calls that overlapped it; a sign-in
  keeps one session alive, unless two refreshes read one key together or the server loses
  the deletion.
- *ratings* (`ScoreAgreesWithReviews`): with no overlap and no failure each review counts
  once and rounding stays below (n + 1)/4 hundredths; otherwise ratings are lost, never
  added.
- *chat* (`ThreadAgreesWithMessages`), *pages* (`PagesCoverInbox`): counters and last
  message agree between calls that do not overlap and never exceed what was sent; pages
  neither skip nor repeat a thread nobody wrote.
- *quota* (`QuotaHolds`): the limit is exceeded by less than the calls that run at a time,
  midnight included.
- *search* (`VisitorsCountOnce`), *presence* (`OnlineEverywhere`): a visitor counts once
  per bucket unless an operation fails or two meet in memory; whom the pages show online
  the chats do too.
- *content* (`OneCityPerName`, `DerivedFieldsFollow`): a city is entered once; search text
  and price arrow follow an edit.
- *profile* (`ProfileGoesTogether`, `BlockedStaysSuspended`): account, profile and what is
  shown of them go together; a blocked profile is not active again.

What `workspace` shows, by focus:

- *insights* (`CutKeepsWhatMatters`), *funnel* and *fit* (`PanelsAgree`): the cut at four
  keeps the warning, and the panels about the viewer say the same of the same figures.
- *cities* and *prices* (`MarketAgrees`): list, radar and advice agree, also when a short
  range was filled; *lookup*, *directory*, *boards* (`ListsAgree`): lists agree with their
  counts, pages, queues and the catalogue.
- *statistics* (`StatisticsAddUp`): the funnels of market, provider and customer count the
  same jobs.
- *overview*, *activity* (`SeriesAddUp`), *inbox*, *opinions* (`RailsAgree`): series and
  rails add up to what is beside them.

*Bounds.* Handlers meet only through a request and its offers, so one request is enough;
two offers are needed for a competing acceptance, two handlers for any overlap of two
calls, two prices to tell an edit from none. A handler that stops leaves its writes, so
two handlers at a time still give any number of abandoned calls. Three bookings give a
chain with two links, two tasks the overlap of any two of confirm, complete and cancel
beside a handler of `Matching`. The theorems remove these bounds where they apply.
`Permutations` of handlers, tasks and bookings are symmetries: no definition tells them
apart. The liveness run uses none. Deadlock is not checked because the system may stop:
nothing is left to do for a deleted request whose contracts are over.

`MaxHops` is 3, the length of the longest chain of the instance: a walk that stopped a hop
early would lose a booking of it. Of a chain longer than `MaxHops` the code shows a part;
the property says nothing of it.

In `calendar` a day has five units and working hours end before the last of them, as they
end at 23:59 at the latest: a day holds one slot of two units, or two of one unit with a
buffer of one; the two settings lie in different zones, so that the provider's midnight
and the UTC one differ, and one weekday is off. The blackout from -2 to 2 begins before
the day, which the filter of `getSlots` must catch, and the one from 2 to 2 is empty,
which `addMyBlackout` must refuse. Three bookings and two calls let a third booking meet
an overlap of two. Time runs over three instants (`FirstTime` to `LastTime`), enough for a
slot to end while a call is in flight.

The services have two calls, enough for any overlap of two, and as many documents as make
a third party to it: three sessions (a refresh of a refresh), three bookings to review,
four threads on pages of two, a limit of two, three instants of a bucket of two. Bounds in
the guards of `MCServices`: `FewerSessions` (two sessions over a Redis server, where every
call may fail, and where a password changes or an account is blocked), a search count that
an error has made inexact is left there, `CreateThenEdit` (requests are created before one
is edited, with no price first) and `OneOverlap` (after calls overlapped or failed nothing
new is begun on the profile but blocking). The accounts begin unused over memory and used
over a server. Calls and visitors are symmetries of `services`, jobs and tradesmen of
`workspace`. In `MCWorkspace` a constant named after what is loaded holds values on either
side of each threshold, lists longer than each cut (eight profiles and nine requests
against a queue of five) and no more; `MostBids` keeps two offers at a time. `PerHit`,
`FewestCandidates` and `MostFound` (4, 12 and 50 in the code) are 2, 3 and 4 so that six
cities already overflow the cuts.

*Fairness.* `ReliableSpec` is weakly fair in `Resume(h)` for each handler and has no
failures: the driver answers every operation it is sent, and the event loop then runs the
handler that waits for it. New calls are not fair: nobody needs to call.

### What the violations show

- **decline_race.** The decline reads the offer ("sent") and the request ("published");
  the acceptance runs; the decline writes "declined" by id. The contract is pending and
  the request locked for an offer that shows as declined. The provider's own commands
  repeat `status: 'sent'` in the write.
- **retained_request.** After accept, the request is "paused" and may be deleted: with its
  offer it is retained as "cancelled". Cancelling the contract sets it to "published"
  without clearing `purgeAt`, against the owner's wish. (`requests/README.md` also says
  that "paused" means the owner removed the publication before any response; accepting an
  offer pauses the request as well.)
- **cancel_confirm_race.** Confirm's update of the contract does not match, since the
  contract was cancelled; its update of the request does, since the cancellation has set
  `assignedContractId` to null. The request is matched by a cancelled contract for good.
  With a second cancellation of the same contract still in flight and two further offers,
  this also undoes `OneLiveContract`: the request, taken by the confirmation from a second
  contract, is released by that cancellation and can be given to a third. TLC finds this
  with three offers, two handlers and one task in the composed system when the calls are
  limited to creating and accepting offers, cancelling and confirming. `OneLiveContract`
  and its theorem are therefore about `Matching`'s handlers. With two offers a completion
  that was under way goes one step further. The confirmation takes the request for its
  cancelled contract after the next offer's contract was formed and before it is assigned;
  the completion, begun before the cancellation, writes "completed" over "cancelled" and
  closes the request. The second contract is live and its owner finds the request among
  the completed ones. The search for an inductive invariant showed this, as the
  `fulfilment` run has one offer; `LiveContractOnBothCards` leaves out the owner's card in
  this one case (`ClosedByAnother`), and its theorem says that there is no other.
- **complete_rescheduled.** The copy a reschedule makes has no `contractId`. Completing
  the contract turns the *old* booking to "completed", which the unique index refuses
  beside the new one: the call fails with the contract completed and the request still
  matched, and a retry returns early because the contract is completed.
- **double_booking.** Two clients book the same start. Each call finds the slot free, in
  `getSlots` and in `assertSlotFree`; both insert. No unique index is about the provider's
  time, so the error text "slot already taken" of the insert never applies to it.
  `OverlapNeedsOverlappingCalls` says how far this can go, and `OneCallAtATime` that the
  check is sound when calls do not overlap.
- **shown_not_bookable.** `assertStartAtIsSlot` asks `getSlots` for the UTC day of the
  start, in zone UTC. `getSlots` turns that midnight into a day of the provider. West of
  UTC it is the day before, so a start in the provider's morning or afternoon is never
  found; east of UTC only starts between local midnight and UTC midnight are lost. The
  page, which asks in the provider's zone, shows these slots.

A `tz` of the caller has one more effect: bookings and blackouts are read for the caller's
days and slots listed for the provider's, so that a slot outside the caller's days is
shown even when it is taken. `ShownSlotsAreFree` is therefore about the provider's own
days. Booking such a slot is refused.

Two more things TLC shows that no document speaks about: a contract can carry a price
older than its offer's (the offer is read before the lock), and cancelling a confirmed
contract leaves its booking active, so the next contract of the request cannot be
confirmed until that booking is cancelled.

## 4. The proofs

`MatchingProofs` proves, for any sets of requests, offers, prices and handlers:

- `TypeCorrect`: `Spec => []TypeOK`;
- `AcceptanceWorksAlone`: `Spec => []MatchInv`, the inductive invariant;
- `NeverTwoLiveContracts`, `LiveContractsHoldRequests`: the two invariants, from
  `MatchInv`;
- `AcceptedOffersAreFrozen`: `Spec => AcceptedOfferIsFrozen`;
- `ContractsComeInTurn`: `Spec => ImplementsContractLife`, the refinement.

`FulfilmentProofs` proves, for the composed system: `MarketTypeCorrect`,
`EndedContractsStayEnded`, `ConfirmedContractsHaveBookings`,
`MatchedRequestsHaveBookings`, `HistoriesAreChains`, from `TasksLeaveBookingsInOrder`
(`MarketSpec => []FulfilmentInv`); and of what is shown of it `CardCommandsWork`
(`[]CommandsOnCardWork`), `LiveContractsAreOnCards` (`[]LiveContractOnBothCards`) and
`ListsAlwaysShowTheWork` (`[]ListsShowTheWork`), from `CardsInv` and `ListsInv`, and
`HistoriesAreShownWhole` (`[]HistoryShowsTheChain`), from `HistoryInv`.

`CalendarProofs` proves, for any settings, spans, numbers of bookings and calls:

- `TypeCorrect`: `Spec => []TypeOK`;
- `CapacityIsKept`: `Spec => []CapacityInv`, and from it `OverlapsNeedOverlappingCalls`;
- `OneCallAtATime`: with at most one call at a time, `Spec => []NoDoubleBooking`;
- `ShownSlotsAreNotTaken`, `ShownSlotsFit`: `Spec => []ShownSlotsAreFree` and `Spec =>
  []SlotsFitWorkDay`.

`DocumentProofs` proves, for any names, keys, prices, requests and calls, `OneCityEach`
(`[]OneCityPerName`) and `DerivedFieldsAlwaysFollow` (`[]DerivedFieldsFollow`); and for
any cities, services, categories and calls, `SuspensionStands` (`[]BlockedStaysSuspended`)
and `AccountAndProfileAgree` (`[]ProfileGoesTogether`).

`SessionsProofs` proves `SessionsInOrder` (`SessionsSpec => []SessionsInv`) and from it
`ResetsEndSessions` and `OneSessionEach`, for any users, sessions, reset tokens, passwords
and calls; and `DatesGoWithKeys` (`PresenceSpec => []PresenceInv`) and from it
`OnlineInBothPlaces` (`PresenceSpec => []OnlineEverywhere`), for any users, calls and
times.

`ServicesProofs` proves of the remaining services, for any number of what they keep and of
calls: `OffersStayWithinLimitAndCalls` (`QuotaSpec => []QuotaHolds`),
`ProfilesAgreeWithReviews` (`[]ScoreAgreesWithReviews`), `VisitorsAreCountedOnce`
(`[]VisitorsCountOnce`), `ThreadCountsMessages` (`[]ThreadAgreesWithMessages`) and
`PagesShowEachOnce` (`[]PagesCoverInbox`). Of all services together it proves
`ServicesKeepApart`, that the composition implements the specification of each service
alone, so that the theorems about one hold in it, and from it `ServicesAreTyped`
(`ServicesSpec => []ServicesTypeOK`).

`WorkspaceProofs` proves of `WorkspaceSpec` that all its invariants always hold, for any
documents, figures, limits and orders of the steps: `WorkspaceIsTyped`
(`WorkspaceTypeOK`), `CutsAreSafe` (`CutKeepsWhatMatters`), `PanelsTellOneStory`
(`PanelsAgree`), `PanelsCountTheSame` (`StatisticsAddUp`), `RailsAgreeWithLists`
(`RailsAgree`), `ListsTellTheSame` (`ListsAgree`), `SeriesAreWhole` (`SeriesAddUp`) and
`MarketTellsOneStory` (`MarketAgrees`). All eight follow from one inductive invariant,
`WorkspaceInv == PanelsTypeOK /\ StatsInv /\ InboxInv /\ OpinionsInv`. `ListingProofs` has
the lemmas about lists, windows, sums and rounding that they rest on.

*Assumptions.* `ConstantsAssumption`: every offer id belongs to a request and a provider,
and null is none of the ids and prices. `BookingsAssumption`: null is no booking.
`DayAssumption`, `CalendarAssumption`: a day has a positive length, bookings and calls are
finite sets, and the settings have the shape the services accept: working ranges lie
within a day (`parseRange`). Two ranges of a weekday may overlap, as nothing in the code
keeps them apart, and then no buffer lies between their slots; so the buffer is claimed
for one range a weekday (`OneRangeADay`), as a premise inside the property.
`QuotaAssumption`: calls are finitely many and the limit is positive. `ContentAssumption`:
every name has a key, prices are numbers and null is none of the values.
`PresenceAssumption`: the time to live and two delays fit into the chats' window.
`RatingsAssumption`, `SearchAssumption`, `ChatAssumption`: bookings, visitors and calls
are finitely many, stars are 1 to 5, a bucket has a positive length and both parties of a
chat differ. `StatsAssumption`: requests and providers are finitely many. The assumptions
of the panels (`InsightsAssumption`, `FunnelAssumption`, `FitAssumption`,
`CitiesAssumption`, `PriceAssumption`, `CatalogAssumption`, `DirectoryAssumption`,
`BoardAssumption`, `OverviewAssumption`, `ActivityAssumption`, `InboxAssumption`,
`ReviewRailAssumption`) give what a call may load the types of its schemas: lists are
finite, counts, prices and days are natural numbers or null, a status is one of its kind.
Beyond types they say what the writers of those documents guarantee: a contract has a date
of completion exactly if it is completed, nothing is dated after the day asked for, a card
with something to do has a priority, what a filter leaves is no more than what there is.
`PagesAssumption`: a page has 1 to 100 threads. `ActivationAssumption`: a patch of the
profile has no fields but the four `updateMyProfile` picks, and every service has its
category (`service.schema.ts:19`). `SessionsAssumption`: sessions are numbered and null is
none of the ids. TLC evaluates all of them.

*Argument for `OneLiveContract`.* It is not inductive: nothing in it forbids a state in
which an acceptance is about to form a second contract. `MatchInv` adds who holds a
request. The lock of `acceptForClient` sets the provider, and until it has assigned its
contract that handler is the only one in that part of the code for the request
(`AcquiringAlone`); then `assignedContractId` takes over, and every other contract of the
request is not live (`AssignedIsTheLiveOne`); the provider is cleared only by a
cancellation that finds its own contract assigned, and whose contract is cancelled by then
(`CancelledBeforeRelease`). The owner's late writes disturb none of this, as they leave
both fields alone (`QuietStep` in the proof). Each other action that writes one of these
parts has a lemma of its own.

*Argument for the bookings.* A booking is never deleted and keeps its `contractId`, so
"has a booking" is stable once true (`BookedForever`); a confirmation makes the booking
before it touches the contract and the request (`TasksHaveBookings`). The links of a
reschedule are written in one transaction, to a booking that was confirmed and so had no
successor; the new booking had no links at all, so a chain grows only at its end
(`ReplacedKeepsChain`).

*Argument for the cards.* Which commands a card shows follows from one state, if the
documents of that state fit together; `CardsInv` says that they do. A contract is formed
of an offer that was marked before, and no offer is "sent" again (`FormedIsAnswered`), so
nothing can be withdrawn or answered twice. What a request names, and what a task is about
to write into it, is a contract of that request that was formed, and only one that is over
closes it (`WorkIsFormed`).

*Argument for the lists.* `OneAppointment` is the unique index seen from the documents: of
all bookings of a request one at most is active. It is inductive only with what a booking
is tied to: it is of an offer, and of no other contract than that of the offer, which is
why the completion of a contract, the one write that finds its booking by the contract,
compares with the right request. `MatchedIsAgreed` follows a confirmation to its last
write: by then it has tried to confirm the contract, which is confirmed, or over, for
good.

*Argument for the calendar.* That bookings covering an instant are no more than the calls
says nothing of calls that have passed their checks and will insert. `CapacityInv` counts
both: once a booking covers an instant, no further call finds it free, so the bookings
there and the calls that had found it free before only change places. A call joins the
count only when nothing is booked there, and there are no more calls than `Handlers`. A
reschedule counts only where its new time lies outside the old one; inside, it replaces
what it cancels. With one call at a time the count is one.

What `getSlots` lists it has compared with everything busy in the days that were read; for
a day of the provider these contain the slot (`ShownSlotsAreNotTaken`). The start of a
slot is the start of a working range plus a number of steps, and a day's minutes are the
time modulo `Day` in the provider's zone, so that a slot lies in its range, and two starts
of one range differ by at least a slot and the buffer (`ShownSlotsFit`).

*Argument for the quota.* A call that has counted fewer than the limit will insert
whatever happens meanwhile, so `QuotaInv` adds those calls (`counted`) to the offers of
the day; only a call that finds room joins, and then there are fewer than the limit and
itself at most one of all. At midnight they carry over to a day without offers.

*Argument for ratings.* `NoReviewIsInvented`: for each review counted on a profile, and
each about to be, there is one in the collection. A call that loads the profile has
inserted its review before, which is the one missing from the count; it takes that room
with it until it saves. `CalmCountsAll` holds while nothing overlaps or fails: the one
call there may be accounts for what is missing. A rounding adds at most half a hundredth
to an average, so n of them at most n(n + 1)/4 to the sum.

*Argument for searches.* A key lives longer than its bucket is written
(`KeysOutliveBuckets`, with `NoLonger`, the last time a call of a bucket may ask), so no
call finds a key of its own bucket gone. Then documents and calls about to write them only
change places, as bookings do in the calendar.

*Argument for the statistics.* The queries agree because of what the handlers keep true of
the documents they select (`StatsInv`): a contract comes of an accepted offer that nothing
takes back (`DealsAreAccepted`), a request that is there is held by its one live or
completed contract (`DealHoldsJob`), and the times say how a contract ended
(`TimesGoWithStatus`). So the two conditions of the market's funnel, which ask for *any*
accepted offer and *any* signed contract, speak of the same provider, and he is the one
whose funnel counts the job. Here each handler is one action; where two overlap, the races
of section 3 can break this (*decline_race*, *cancel_confirm_race*).

*Argument for chats.* As for ratings: `NoMessageIsInvented` bounds every counter, and
every copy of one that a call holds, by what was sent; `TidyCountsAll` says that without
overlap the copy is the thread's, and that only the message just inserted may be missing.

*Argument for pages.* A conversation nobody wrote keeps its place in the order (time, then
id), which is strict and total. One that was shown is behind the cursor (`ShownIsBehind`),
one that was not is ahead of it (`TheRestIsAhead`): the page takes the first threads ahead
of the cursor, and its last one becomes the cursor. Where the walk ends a page was not
full, and no thread ahead was left; that a nonempty rest has a first element is a lemma
about finite strict orders.

*Argument for accounts and profiles.* `CallHoldsItsOwn` says what a call may still write
at each of its steps: only its own form or patch, and no status but "active". A profile
blocked while no call held that status stays suspended (`StatusIsLeft`). While nothing
overlaps or fails `CalmGoesTogether` follows the one call there is: what it has written
into the account, what it has still to write into the profile, and that a profile with all
it needs becomes active in the write that completes it.

*Argument for the cities.* Unique keys do not make names unique: a name could be entered
under two numbers of its key. `CitiesInTurn` says that a name was entered only after all
lower numbers held other names, and `LooksInTurn` that a call in the loop has seen that.
Entries never change, so what was seen stays true, and the unique index refuses an entry
whose number was taken in between; of two entries of a name the higher would have seen the
lower.

*Argument for edits.* `CopiesAreFresh`: the copy an edit works from is the request as it
is, unless another edit wrote in between, and that one has marked the request
`interrupted`. So the text follows where nothing is marked; the arrow compares the price
sent with the previous price stored beside it, and needs no freshness at all.

*Argument for presence.* The key and the date are written by two calls in either order, so
neither alone says anything of the other. `DateGoesWithKey` says of a key that is set that
the date is there already, no older than the key's start less two delays, or that its
write is still on its way; `SentInTime` says that such a write carries an instant at most
one delay old. A late answer may set the date back (`touchLastSeen` stores the instant of
its call), by no more than that delay, which is where the second one comes from.

*Argument for the sessions.* A sign-in's place is a token: `OneHolder` says that one live
session has it, or one refresh, or both when that session is the one the refresh is about
to delete. Two refreshes that have read one key, and a deletion the server lost, break it,
and they are what marks a root `forked`; `RootsAreIssued` gives a new sign-in a root of
its own. For resets `OlderIsLate` follows the password a call has seen into the session it
stores: a purge deletes what it has read, and what was stored after that, or comes of a
call in flight at that moment, overlapped it. `PasswordsComeInTurn` keeps a reset from
being later than the password of the account, which is why a sign-in that reads the
account afterwards is not older.

*Argument for the histories.* `getHistory` walks back over `rescheduledFromId` and then
forward over `rescheduledToId`, a bounded number of hops, and only to bookings of the same
offer. The walk is a recursive function of its hops, so instead of an induction each claim
takes the least hop where it fails (`LeastNumber`). A walk meets no booking twice: of two
equal ones the links lead to two equal ones a hop earlier. So if it has not come to an end
after `MaxHops` hops, it has met more bookings than a chain of `MaxHops` has, which bounds
what the property speaks of; and if it has come to an end, what it has met is closed under
both links, and is the chain (`WholeWalkIsClosed`, `WayBack`). `HistoryInv` adds to
`FulfilmentInv` that no link leaves the offer, so that no link leads to a booking the code
would not load, and that finitely many bookings have been written.

*Argument for the composition.* In `MCServices` one service is in focus and the others
stutter. So a behaviour of `ServicesSpec` is, for each service, a behaviour of its own
specification: its initial states map to initial states and every step to a step or a
stutter (`ServicesKeepApart`). The inductive invariants of the services then hold in it by
themselves; they need not be proved again.

*Argument for lists.* A sort is what `InOrder` picks: the one sequence of the members of a
set whose keys, sequences of integers, grow in the order of their first difference. That
there is one for a finite set with different keys is `InOrderSorts`; everything else is
said of that sequence. A page is a window of it (`PagesAre`), so the pages show each
member once (`PlacesCount`), a cut keeps the first (`FirstOfIs`), and a queue of the best
five has nothing before it that it leaves out. The directory (`DirectoryAgreesInv`), the
boards (`BoardsAgreeInv`) and the search of cities (`SearchFindsInv`) follow from the keys
alone: that an urgent request comes before others, or a city whose postal code was typed
in full before one that merely begins like it, is a difference in an early place of the
key. For the activity of cities (`ActivityIsPlacedInv`) the rows are merged one after
another under names and ids; that the id found in the end is one that a row brought is
proved by taking the first row after which it is not.

*Argument for the cut of the insights* (`CutsAreSafe`). An insight has a score and the
number of the rule that made it, and comes before another if its score is higher or, of
equal scores, its number smaller. The warning of unanswered requests has a score which few
rules reach; which do, and that they are fewer than the places, is said rule by rule from
the thresholds of the code. Local promotion is advised only where a city is in such demand
that the chance in it was found too, with a higher score, so the cut that shows the one
shows the other before it (`CutKeeps`).

*Argument for the panels of one viewer* (`PanelsTellOneStory`). Each panel rounds for
itself: the rates of the stages, the conversion, the gap between viewer and market. If the
viewer's rate is nowhere above the market's, stage by stage and rounded, then neither is
his conversion, the product of the rates, by more than five points (`ConversionFollows`);
and five is what the code asks for before it calls a conversion good or weak. So it never
does without a stage to name. The stage a person is told of is one with the largest gap of
a finite set.

*Argument for the rails* (`RailsAgreeWithLists`). `InboxInv` says that each conversation
has one place in the inbox, that the viewer and the client belong to it however it was
opened, and that what a rail has counted is so until something moves. What the queue then
shows of the loaded ones follows from its sort: an unread conversation has a higher
priority than any that is read. `OpinionsInv` follows a reader from page to page while
others write and days pass. Newest first a review is where its number says: what he has
not seen of those that were there lies behind his offset, as a new review only moves it
further down (`SeenOrToCome`). Best first this holds as long as the list stays as it was
(`SeenUpToOffset`).

*Argument for the series* (`SeriesAreWhole`). The bars of a chart are the same documents
as the figure beside them, cut into pieces. Every day lies in one month, the quotient by
the length of a month (`MonthIs`, `QuotientBetween`), so six bars and the one that was
dropped are disjoint and make up what was loaded; their numbers add up, and so do their
values, as `ValueOf`, the sum over a finite set, adds up over disjoint sets. The last
point of the stock counts everything, and the stock has its peak at the first point from
which it does not grow, which is the step of the last post. A viewer's posts of a step are
among those the market grew by. Half of a sorted sequence lies before its middle and half
behind it. The feed is merged of two lists already cut; it is that of all posts, because
what a cut leaves out has as many newer ones before it as the feed shows. A percentage
rounded to zero hides one in two hundred (`OfTwoHundred`), no more.

*Argument for the market* (`MarketTellsOneStory`). Cities are ranked by score, so the best
three have no better city outside. The rivals of a city are its neighbours in the ranking:
`RivalPlace` gives the place of each, and their number is that of the places taken
(`Cardinality` of an interval), two or all there are. What is filled in from thirty days
is taken field by field as the larger count, so that no count shrinks, and the balance is
computed of the counts beside it (`MetricsKept`) unless the filter hides requests. A price
is rounded to five: it is at most two and a half from what it rounds (`Around3`), the best
part lies inside the range (`InTheMiddle`), and a price at more than a tenth from the
average is needed to be outside (`OutsideIsFar`). Here the proof corrected the model: the
claim once said "an average of fifty or more", and no proof was found because it is false.
At an average shown as 60 somebody who charges 54 or 66 may be told to adjust, at 65
somebody who charges 71. It holds from seventy on; the instance of TLC now has prices on
either side of that.

*Only model-checked:* `LockLeadsToContract`, as liveness under fairness is out of TLAPS's
reach. Every invariant and every action property of the passing runs is a theorem.

## 5. What the model shows beside its runs

Where code and expectation differ and no run was spent on it, this section says what was
read or seen while modelling. A file without a directory is in `src/modules/workspace`.

*Sessions.* `deleteByPattern` (`src/infra/redis.service.ts:109`) takes `scan` off its
client and calls it alone. The map in memory does not mind; a Redis client rejects it, and
the error is swallowed. So over a Redis server a password reset leaves every session
alive, though `README.md:423` says that it revokes them; the tests replace the method
(`test/auth.e2e-spec.ts:30`). `ResetScan` has it, and `ResetEndsSessions` is therefore
about the map.

*Statistics.* In the panel "Customer vs Market" / "Provider vs Market" the rows of
`formulaMetrics` (`workspace-statistics.service.ts:179`) take the viewer's figures from
`profileFunnel`, which `buildProfileFunnelContext` has filled with the *market's* counts:
offer rate, response rate, conversion, completion, revenue and order value of the "user"
are the market's. The insights are fed from it too. Further:

- the provider's "unanswered over 24 hours" counts declined requests; over a range of 24
  hours the customer's and the market's are always zero; the customer's includes drafts,
  paused and cancelled requests, the market's only published ones;
- the market counts offers and viewers count requests; a provider's offer rate is always
  100 percent and a customer's `completedCount` 0;
- `profileGap.lostCount` subtracts the viewer's count from the whole market's; the largest
  gap may be in a stage with too little data, hiding another that is reliable; a completed
  contract whose offer shows as declined (see *decline_race*) is in no funnel;
- no two insights share a context key, so `dedupeInsights` never drops one;
  `user_fast_response` says "below the platform's average" and is never compared with it;
  several chances may give signals with one id;
- a city named in the filter that is not ranked gets the price of the best city; where a
  day has no revenue the price comes from thirty days while the radar beside it is of the
  day; the radar filled in at `workspace-statistics.service.ts:912` is always overwritten
  at 982;
- below about 17 euros the recommended minimum (at least 5) may exceed the average.

*Cards and lists.* After a cancelled contract the owner's card stays "in_progress" and the
provider's "completed"; a provider is asked to confirm a contract though only the client
can; "send again" on a declined offer never succeeds; a confirmed contract with open
offers asks for a choice of offers while its main button leads to the contract. After a
reschedule the contract's row shows the old, cancelled booking, as the copy has no
`contractId`; a review may be offered while its contract is pending or cancelled, when the
booking was finished first; an accepted offer's row may say "matched" by another's
contract after a cancellation. `getPublicById` answers 404 for matched and closed requests
that `listPublic` lists. The public board selects by `updatedAt` and filters its page by
activity, so that a request edited lately but published earlier is counted and dropped;
the policy in memory does not know `price_asc`; "deadline" puts requests without one first
in the database and last in memory.

*Directory and cities.* The badge "Top Anbieter" needs a response rate of 80 and the
made-up rate is 78 at most; sorting by falling price puts providers without one first. The
candidates of a city search are cut before they are scored, so that a small city named
exactly may be lost; the third branch of the scoring is dead. `resolveActivityCoords` asks
for aliases and compares names only, so a city found by an alias has no place; of three
rows of a name whose first two differ in the id, the third brings its own back.
`resolveCityByName` has no sort and no caller.

*Profiles.* `saveProfile` writes the account before it validates price and services, and
before the 403 of a blocked profile; when the second part of `registerProfile` fails the
account stays and a retry is answered 409; two overlapping saves of services end in a 500.
A price of 0 activates a profile while the rail keeps asking for one; the step for a photo
never shows; an active profile may be edited to an incomplete one and stays listed;
services from several categories show no selection on the page, and saving that clears
them all. `blockProfile`, `unblockProfile`, `blockUser` and `unblockUser` have no caller.

*Rails and series.* Months are taken before and after the queries, so at a month's turn
the bars shift against the figures; bars count archived requests and open counts do not.
Months with nothing sent or accepted show an activity of 12 percent. No code sets a thread
to archived or closed; unread threads beyond the 24 loaded are counted and not queued.
Reviews paged best first over a sliding range may be missed; the rail's panel is of one
page and may say "no critical feedback" when there is some. Closing one of two tabs takes
the online key away.

## 6. What is not modelled, and why

- *Presentation*: DTOs (4000 lines), controllers, guards and pipes (3000), texts, labels,
  colours and formats of the panels. They refuse calls or copy fields; nothing of them
  changes a document.
- *Seeds, scripts, migrations and configuration* (3500): run once, by hand.
- *Pure I/O*: uploads, the geocoder, delivery of mails, the legal pages, the events of the
  gateways, which repeat what was written.
- *Single writes of one document*: favorites, phone numbers, languages, pictures, the
  acceptance of the privacy policy.
- *Workspace*: the decision layer's wording, the enrichment of public requests, and
  actions that forward to another service.
- *Time zones with summer time* and the cut of `getSlots` at 500 slots; the hours before a
  start within which cancelling is refused.

The map of `PROJECT.json` covers 31 percent of the implementation's lines; most of the
rest is in this list.

Next, in this order: for the composed system, the part of `OneLiveContract` that holds
there (see *cancel_confirm_race*); liveness of `Fulfilment`'s handlers; favorites.
