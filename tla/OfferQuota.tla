----------------------------- MODULE OfferQuota -----------------------------
(***************************************************************************)
(* The daily limit on the offers of one provider (offers.service.ts):      *)
(* createForProvider() counts the offers of the current UTC day and        *)
(* inserts its own some awaits later, perhaps on the next day.             *)
(***************************************************************************)
EXTENDS Naturals, FiniteSets

CONSTANTS
  QuotaCalls,       \* createForProvider() calls that may be in flight together
  DailyLimit,       \* PROVIDER_DAILY_OFFER_LIMIT
  LastDay           \* bound: days

ASSUME QuotaAssumption ==
  /\ IsFiniteSet(QuotaCalls) /\ QuotaCalls # {}
  /\ DailyLimit \in Nat \ {0} /\ LastDay \in Nat

VARIABLES
  day,              \* the UTC day it is
  offersOn,         \* the provider's offers by the day of createdAt
  counted           \* the calls that have passed the limit and will insert

quotaVars == <<day, offersOn, counted>>

QuotaInit ==
  /\ day = 0
  /\ offersOn = [d \in 0..LastDay |-> 0]
  /\ counted = {}

\* Variant: the limit may be reached as well as passed.
QuotaReadInclusive(h) ==
  /\ h \notin counted
  /\ offersOn[day] <= DailyLimit
  /\ counted' = counted \union {h}
  /\ UNCHANGED <<day, offersOn>>

\* enforceProviderDailyLimit()
QuotaRead(h) ==
  /\ h \notin counted
  /\ offersOn[day] < DailyLimit
  /\ counted' = counted \union {h}
  /\ UNCHANGED <<day, offersOn>>

QuotaInsert(h) ==
  /\ h \in counted
  /\ offersOn' = [offersOn EXCEPT ![day] = @ + 1]
  /\ counted' = counted \ {h}
  /\ UNCHANGED day

\* The request is not open, the offer exists already, or the call fails.
QuotaRefused(h) ==
  /\ h \in counted
  /\ counted' = counted \ {h}
  /\ UNCHANGED <<day, offersOn>>

\* deleteForProvider() gives the place of any day back.
QuotaDelete(d) ==
  /\ offersOn[d] > 0
  /\ offersOn' = [offersOn EXCEPT ![d] = @ - 1]
  /\ UNCHANGED <<day, counted>>

Midnight ==
  /\ day < LastDay
  /\ day' = day + 1
  /\ UNCHANGED <<offersOn, counted>>

QuotaNext ==
  \/ \E h \in QuotaCalls : QuotaRead(h) \/ QuotaInsert(h) \/ QuotaRefused(h)
  \/ \E d \in 0..LastDay : QuotaDelete(d)
  \/ Midnight

QuotaSpec == QuotaInit /\ [][QuotaNext]_quotaVars

-----------------------------------------------------------------------------
\* The type of the counters and the calls in flight.
QuotaTypeOK ==
  /\ day \in 0..LastDay
  /\ offersOn \in [0..LastDay -> Nat]
  /\ counted \subseteq QuotaCalls

\* A provider has at most as many offers of one day as the limit and the other calls
\* that run at the time allow, those counted before midnight included.
QuotaHolds == \A d \in 0..LastDay : offersOn[d] < DailyLimit + Cardinality(QuotaCalls)

\* What makes it inductive: the calls that will insert today count as well.
QuotaInv ==
  /\ QuotaTypeOK
  /\ offersOn[day] + Cardinality(counted) < DailyLimit + Cardinality(QuotaCalls)
  /\ \A d \in 0..LastDay : d > day => offersOn[d] = 0
  /\ QuotaHolds
=============================================================================
