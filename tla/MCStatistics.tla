----------------------------- MODULE MCStatistics -----------------------------
(***************************************************************************)
(* The two kinds of statistics, EventStats and ActivityStats, on small     *)
(* instances. They share no state but the clock, so a behaviour of this    *)
(* module is one of either.                                                *)
(*                                                                         *)
(* Events: two delegations that differ in every part of the aggregation    *)
(* key and one with a session of less than a second. Activity: an anchor   *)
(* with passkeys on two II domains, and one with an OpenID credential.     *)
(***************************************************************************)
EXTENDS Naturals

CONSTANTS
    Day,
    \* EventStats
    Delegations, Hostnames, Retention, MaxToProcess, CounterMax, RetrieveLimit, MaxEventTime, MaxEvents,
    \* ActivityStats
    Keys, AnchorOf, MethodOf, OriginsOf, MonthDays, Modulus, MaxActivityTime, MaxUses, MaxChanges

VARIABLES
    part,   \* which of the two runs
    now,
    eventData, aggregations, windowStart, counter,
    keys, activeAnchors, activeDomains, activeMethods, uses, lastChange

Event == INSTANCE EventStats WITH
    Events <- Delegations, Frontends <- Hostnames, MaxTime <- MaxEventTime

Activity == INSTANCE ActivityStats WITH MaxTime <- MaxActivityTime

MCDelegations ==
    {[domain |-> "IdAi", frontend |-> 1, seconds |-> 2],
     [domain |-> "InternetComputerOrg", frontend |-> 2, seconds |-> 0],
     [domain |-> "InternetComputerOrg", frontend |-> 1, seconds |-> 1]}

MCAnchorOf == [p1 |-> 1, p2 |-> 1, oidc |-> 2]
MCMethodOf == [p1 |-> "webauthn_auth", p2 |-> "webauthn_auth", oidc |-> "openid_credential"]
MCOriginsOf == [p1 |-> {"Ic0App", "Other"}, p2 |-> {"IdAi"}, oidc |-> {"Other"}]

ASSUME MCStatisticsAssumption ==
    Event!EventStatsAssumption /\ Activity!ActivityStatsAssumption

eventVars == <<eventData, aggregations, windowStart, counter>>
activityVars == <<keys, activeAnchors, activeDomains, activeMethods, uses, lastChange>>
vars == <<part, now, eventVars, activityVars>>

Init ==
    \/ /\ part = "events" /\ Event!Init
       /\ keys = <<>> /\ activeAnchors = <<>> /\ activeDomains = <<>> /\ activeMethods = <<>>
       /\ uses = {} /\ lastChange = 0
    \/ /\ part = "activity" /\ Activity!Init
       /\ eventData = <<>> /\ aggregations = <<>> /\ windowStart = <<>> /\ counter = 0

Next ==
    \/ part = "events" /\ Event!Next /\ UNCHANGED <<part, activityVars>>
    \/ part = "activity" /\ Activity!Next /\ UNCHANGED <<part, eventVars>>

Spec == Init /\ [][Next]_vars

-----------------------------------------------------------------------------
(***************************************************************************)
(* The properties of the two, see there.                                   *)
(***************************************************************************)

\* EventStats: every total is that of the events in its window.
TotalsAreExact == part = "events" => Event!TypeOK /\ Event!TotalsAreExact

\* EventStats: every total is shown where it belongs.
EveryTotalIsReported == part = "events" => Event!EveryTotalIsReported

\* EventStats: events leave their windows in time, in portions.
OutdatedEventsLeave == [][part = "events" => Event!OutdatedEventsLeaveStep]_vars

\* ActivityStats: the days and months of the three statistics fit together.
PeriodsFitTogether == part = "activity" => Activity!TypeOK /\ Activity!PeriodsFitTogether

\* ActivityStats: each period counts who was active in it, once.
EveryoneIsCountedOnce == part = "activity" => Activity!EveryoneIsCountedOnce

\* ActivityStats: being active on a second domain does not change the total.
TotalRemainsTheSame == part = "activity" => Activity!TotalRemainsTheSame

=============================================================================
