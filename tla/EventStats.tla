----------------------------- MODULE EventStats -----------------------------
(***************************************************************************)
(* The event-based statistics (event_stats.rs, event_aggregations.rs).     *)
(*                                                                         *)
(* Every delegation is kept as an event for thirty days.  Running totals   *)
(* over the last day and the last thirty days are brought up to date by    *)
(* the next event only: at most MaxToProcess old events leave each of the  *)
(* two windows per call.  The daily window has no data of its own but a    *)
(* key into the events, which the monthly window deletes.                  *)
(***************************************************************************)
EXTENDS Integers, Sequences, FiniteSets, FiniteSetsExt, SequencesExt

CONSTANTS
    Events,         \* delegations to come: [domain, frontend, seconds]
    Frontends,      \* FrontendHostname, the data of a key
    Day, Retention, \* DAY_NS and RETENTION_PERIOD
    MaxToProcess,   \* MAX_EVENTS_TO_PROCESS
    CounterMax,     \* u16::MAX
    RetrieveLimit,  \* AGGREGATIONS_LIMIT
    MaxTime, MaxEvents \* bounds

\* enum IIDomain, in the order it is declared; the origin may be no II domain.
IIDomains == <<"Ic0App", "InternetComputerOrg", "IdAi">>
Domains == {"None"} \cup Range(IIDomains)

EventStatsAssumption ==
    /\ {Day, Retention, MaxToProcess, RetrieveLimit} \subseteq Nat \ {0}
    /\ Day < Retention
    /\ CounterMax \in Nat \ {0}
    /\ Events \subseteq [domain : Domains, frontend : Frontends, seconds : Nat]
    /\ Frontends = 1..Cardinality(Frontends)

VARIABLES
    eventData,      \* event_data: key |-> event
    aggregations,   \* event_aggregations: aggregation key |-> weight
    windowStart,    \* event_stats_24h_start, or NoKey
    counter,        \* event_data_uniqueness_counter
    now

vars == <<eventData, aggregations, windowStart, counter, now>>

-----------------------------------------------------------------------------
(***************************************************************************)
(* Keys.  An event's key is the number its big-endian bytes stand for, so  *)
(* that the order of the keys is the order of the numbers.                 *)
(***************************************************************************)

KeyOf(time, count) == time * (CounterMax + 1) + count
MinKey(time) == KeyOf(time, 0)
MaxKey(time) == KeyOf(time, CounterMax)
TimeOf(key) == key \div (CounterMax + 1)
NextKey(key) == key + 1
NoKey == -1

Kinds == <<"PrepareDelegationCount", "PrepareDelegationSessionSeconds",
           "PruneEventCount">>
Windows == <<"Day", "Month">>
NoData == 0

\* struct AggregationKey; the empty data sorts before every frontend.
AggregationKeys ==
    [kind : Range(Kinds), window : Range(Windows), domain : Domains,
     data : Frontends \cup {NoData}]

IndexIn(x, s) == CHOOSE j \in 1..Len(s) : s[j] = x
DomainRank(d) == IF d = "None" THEN 0 ELSE IndexIn(d, IIDomains)

\* The derived order, as a number: field by field, and the variants in the
\* order they are declared in.
Rank(k) ==
    ((IndexIn(k.kind, Kinds) * 3 + IndexIn(k.window, Windows)) * 4
        + DomainRank(k.domain)) * (Cardinality(Frontends) + 1) + k.data
Before(k, l) == Rank(k) < Rank(l)

PruneEvent == [domain |-> "None", frontend |-> NoData, seconds |-> 0]

-----------------------------------------------------------------------------
(***************************************************************************)
(* The aggregations over the events.                                       *)
(***************************************************************************)

PrepareDelegationAggregation(kind, window, weight, event) ==
    IF event = PruneEvent THEN {}
    ELSE {[key |-> [kind |-> kind, window |-> window, domain |-> event.domain,
                    data |-> event.frontend],
           weight |-> weight]}

CountOf(window, event) ==
    PrepareDelegationAggregation("PrepareDelegationCount", window, 1, event)

SessionSecondsOf(window, event) ==
    IF event = PruneEvent THEN {}
    ELSE PrepareDelegationAggregation("PrepareDelegationSessionSeconds", window,
                                      event.seconds, event)

PruneCountOf(window, event) ==
    IF event # PruneEvent THEN {}
    ELSE {[key |-> [kind |-> "PruneEventCount", window |-> window,
                    domain |-> "None", data |-> NoData],
           weight |-> 1]}

\* What an event adds to the AGGREGATIONS of a window.
ProcessEvent(window, event) ==
    CountOf(window, event) \cup SessionSecondsOf(window, event)
        \cup PruneCountOf(window, event)

Changed(window, event) == {a.key : a \in ProcessEvent(window, event)}

\* What is added to this key, by one event and by several.
WeightIn(key, event) ==
    MapThenSumSet(LAMBDA a : a.weight,
                  {a \in ProcessEvent(key.window, event) : a.key = key})
TotalWeight(key, keys) ==
    MapThenSumSet(LAMBDA k : WeightIn(key, eventData[k]), keys)

Stored(aggs, key) == IF key \in DOMAIN aggs THEN aggs[key] ELSE 0

\* update_aggregation for one key: the new event's weight is set off against
\* the pruned weight, and what is left is added, or subtracted saturating at 0.
Updated(current, added, pruned) ==
    IF added >= pruned THEN current + (added - pruned)
    ELSE Max({0, current - (pruned - added)})

\* update_aggregations; a total of zero is removed from the map.
UpdateAggregations(aggs, window, event, pruned) ==
    LET NewValue(key) ==
            IF key.window # window THEN Stored(aggs, key)
            ELSE Updated(Stored(aggs, key), WeightIn(key, event),
                         TotalWeight(key, pruned))
        value == [key \in DOMAIN aggs \cup Changed(window, event) |->
                     NewValue(key)]
    IN  Restrict(value, {key \in DOMAIN value : value[key] > 0})

-----------------------------------------------------------------------------
(***************************************************************************)
(* The windows.                                                            *)
(***************************************************************************)

\* range(..).take(MAX_EVENTS_TO_PROCESS)
FirstOnes(keys) ==
    {k \in keys : Cardinality({j \in keys : j < k}) < MaxToProcess}

\* window_start_from_current_key, when the start is not known.
WindowStart(key) ==
    LET before == {k \in DOMAIN eventData : k < key}
    IN  IF windowStart # NoKey THEN windowStart
        ELSE IF before = {} THEN NoKey
        ELSE MinKey(TimeOf(Max(before)) - Day)

\* Mutant: the end of the range is excluded.
RemovedFromOpenDay(key) ==
    IF WindowStart(key) = NoKey THEN {}
    ELSE FirstOnes({k \in DOMAIN eventData :
                       WindowStart(key) <= k /\ k < MinKey(now - Day)})

\* events_to_remove_from_24h_aggregations
RemovedFromDay(key) ==
    IF WindowStart(key) = NoKey THEN {}
    ELSE FirstOnes({k \in DOMAIN eventData :
                       WindowStart(key) <= k /\ k <= MaxKey(now - Day)})

\* prune_events
Pruned == FirstOnes({k \in DOMAIN eventData : k <= MaxKey(now - Retention)})

\* The next call starts after the last event that was removed.
NextStart(removed) ==
    IF removed = {} THEN windowStart ELSE NextKey(Max(removed))

-----------------------------------------------------------------------------
(***************************************************************************)
(* The state machine.                                                      *)
(***************************************************************************)

NoEvents == [k \in {} |-> PruneEvent]

\* An event that an older version injected, with its counts.
OldEvent == [k \in {MinKey(Retention)} |-> PruneEvent]
OldAggregations ==
    [k \in {[kind |-> "PruneEventCount", window |-> w, domain |-> "None",
             data |-> NoData] : w \in Range(Windows)} |-> 1]

Init ==
    /\ \/ eventData = NoEvents /\ aggregations = [k \in {} |-> 0] /\ counter = 0
       \/ eventData = OldEvent /\ aggregations = OldAggregations /\ counter = 1
    /\ windowStart = NoKey
    /\ now = Retention

NewKey == KeyOf(now, counter)

\* Mutant: the old events are deleted before the daily totals see them.
UpdateMonthFirst(event) ==
    LET key == NewKey
        kept == DOMAIN eventData \ Pruned
        removed == RemovedFromDay(key) \cap kept
    IN  /\ eventData' = [k \in kept \cup {key} |->
                            IF k = key THEN event ELSE eventData[k]]
        /\ aggregations' =
              UpdateAggregations(UpdateAggregations(aggregations, "Day", event,
                                                    removed),
                                 "Month", event, Pruned)
        /\ windowStart' = NextStart(removed)

\* update_events_internal
UpdateEventsInternal(event) ==
    LET key == NewKey
        removed == RemovedFromDay(key)
        daily == UpdateAggregations(aggregations, "Day", event, removed)
    IN  /\ eventData' = [k \in (DOMAIN eventData \ Pruned) \cup {key} |->
                            IF k = key THEN event ELSE eventData[k]]
        /\ aggregations' = UpdateAggregations(daily, "Month", event, Pruned)
        /\ windowStart' = NextStart(removed)

\* update_event_based_stats; the counter wraps around.  A round of execution
\* has one time and far fewer than 2^16 calls, so that the key is new.
PrepareDelegation(event) ==
    /\ Cardinality(DOMAIN eventData) < MaxEvents
    /\ NewKey \notin DOMAIN eventData
    /\ UpdateEventsInternal(event)
    /\ counter' = (counter + 1) % (CounterMax + 1)
    /\ UNCHANGED now

\* Only the counter is in heap memory; the new version runs in a later round.
Upgrade ==
    /\ now < MaxTime
    /\ counter' = 0
    /\ now' = now + 1
    /\ UNCHANGED <<eventData, aggregations, windowStart>>

Tick ==
    /\ now < MaxTime
    /\ now' = now + 1
    /\ UNCHANGED <<eventData, aggregations, windowStart, counter>>

Next == (\E event \in Events : PrepareDelegation(event)) \/ Upgrade \/ Tick

Spec == Init /\ [][Next]_vars

-----------------------------------------------------------------------------
(***************************************************************************)
(* Retrieving the aggregations.                                            *)
(***************************************************************************)

StartOf(kind, window, domain) ==
    [kind |-> kind, window |-> window, domain |-> domain, data |-> NoData]
Unbounded == StartOf("", "", "")

\* Mutant: after the last domain comes the next kind, not the next window.
UpperBoundOfKind(kind, window, domain) ==
    LET NextOf(x, s) == s[IndexIn(x, s) + 1]
    IN  IF domain = "None" THEN StartOf(kind, window, IIDomains[1])
        ELSE IF domain # Last(IIDomains)
             THEN StartOf(kind, window, NextOf(domain, IIDomains))
        ELSE IF kind # Last(Kinds)
             THEN StartOf(NextOf(kind, Kinds), "Day", "None")
        ELSE Unbounded

\* The end of the range of keys with this kind, window and domain.
UpperBound(kind, window, domain) ==
    LET NextOf(x, s) == s[IndexIn(x, s) + 1]
    IN  IF domain = "None" THEN StartOf(kind, window, IIDomains[1])
        ELSE IF domain # Last(IIDomains)
             THEN StartOf(kind, window, NextOf(domain, IIDomains))
        ELSE IF window # Last(Windows)
             THEN StartOf(kind, NextOf(window, Windows), "None")
        ELSE IF kind # Last(Kinds)
             THEN StartOf(NextOf(kind, Kinds), "Day", "None")
        ELSE Unbounded

\* retrieve_aggregation_internal: the first keys of the range, heaviest first.
RetrieveAggregation(kind, window, domain) ==
    LET end == UpperBound(kind, window, domain)
        inRange == {k \in DOMAIN aggregations :
                       /\ ~Before(k, StartOf(kind, window, domain))
                       /\ end = Unbounded \/ Before(k, end)}
        taken == {k \in inRange :
                     Cardinality({l \in inRange : Before(l, k)}) < RetrieveLimit}
    IN  SortSeq(SetToSeq({[label |-> k.data, weight |-> aggregations[k]] :
                             k \in taken}),
                LAMBDA a, b : a.weight > b.weight)

\* all_aggregations_top_n: the series that are not empty, cut at the limit.
AllAggregationsTopN(limit) ==
    LET series == [s \in Range(Kinds) \X Range(Windows) \X Domains |->
                      RetrieveAggregation(s[1], s[2], s[3])]
    IN  [s \in {r \in DOMAIN series : series[r] # <<>>} |->
            SubSeq(series[s], 1, Min({limit, Len(series[s])}))]

-----------------------------------------------------------------------------
(***************************************************************************)
(* Properties.                                                             *)
(***************************************************************************)

\* Types: totals of zero are not kept, and the events are those of Events.
TypeOK ==
    /\ DOMAIN aggregations \subseteq AggregationKeys
    /\ \A key \in DOMAIN aggregations : aggregations[key] \in Nat \ {0}
    /\ DOMAIN eventData \subseteq MinKey(0)..MaxKey(now)
    /\ Range(eventData) \subseteq Events \cup {PruneEvent}
    /\ windowStart \in {NoKey} \cup MinKey(0)..MaxKey(now)
    /\ counter \in 0..CounterMax

InDay == {k \in DOMAIN eventData : windowStart = NoKey \/ k >= windowStart}

\* Each total is the weight of exactly the events in its window, although old
\* events leave in portions and the month deletes what the day still refers to:
\* an event always leaves the day before it is deleted.
TotalsAreExact ==
    \A key \in DOMAIN aggregations
              \cup UNION {Changed(window, eventData[k]) :
                             window \in Range(Windows), k \in DOMAIN eventData} :
        Stored(aggregations, key)
            = TotalWeight(key, IF key.window = "Day" THEN InDay
                               ELSE DOMAIN eventData)

\* An event is counted in a window it no longer belongs to only as long as
\* every call since then has removed as many events as one call may.
OutdatedEventsLeaveStep ==
    counter' # counter /\ now' = now =>
     /\ \/ \A k \in InDay' : TimeOf(k) > now - Day
        \/ Cardinality((InDay \ InDay') \cup (InDay \ DOMAIN eventData'))
             >= MaxToProcess
     /\ \/ \A k \in DOMAIN eventData' : TimeOf(k) > now - Retention
        \/ Cardinality(DOMAIN eventData \ DOMAIN eventData')
             >= MaxToProcess

\* What the stats and the metrics show is all and only what was aggregated:
\* every total appears in the one series it belongs to, at the right place.
EveryTotalIsReported ==
    LET top == AllAggregationsTopN(RetrieveLimit)
    IN  \A kind \in Range(Kinds), window \in Range(Windows), domain \in Domains :
            LET keys == {k \in DOMAIN aggregations :
                            /\ k.kind = kind
                            /\ k.window = window
                            /\ k.domain = domain}
                s == <<kind, window, domain>>
            IN  IF keys = {} THEN s \notin DOMAIN top
                ELSE /\ s \in DOMAIN top
                     /\ Range(top[s]) = {[label |-> k.data,
                                          weight |-> aggregations[k]] : k \in keys}
                     /\ \A i, j \in 1..Len(top[s]) :
                           i < j => top[s][i].weight >= top[s][j].weight

=============================================================================
