--------------------------- MODULE ActivityStats ---------------------------
(***************************************************************************)
(* The activity statistics (activity_stats.rs, maintenance.rs and the      *)
(* three counters): active anchors, active anchors by II domain, and       *)
(* authentication methods, each over a day and over sliding windows of     *)
(* thirty days that are offset by a day.                                   *)
(*                                                                         *)
(* Windows are opened and closed by the calls that are counted, and        *)
(* whether a call counts is read off the anchor, from when its devices     *)
(* were last used: nothing records who was counted where.                  *)
(***************************************************************************)
EXTENDS Integers, Sequences, FiniteSets, FiniteSetsExt, SequencesExt

CONSTANTS
    Keys,            \* device keys and OpenID credentials
    AnchorOf,        \* key |-> its anchor
    MethodOf,        \* key |-> what kind of authentication method it is
    OriginsOf,       \* key |-> origins it may be registered with
    Day, MonthDays,  \* DAY_NS, and the 30 days of a month
    Modulus,         \* 2^64
    MaxTime, MaxUses, MaxChanges \* bounds

Credential == "openid_credential"
MethodBuckets == {"recovery_phrase", "browser_storage_key", "webauthn_auth",
                  "webauthn_recovery", "other", Credential}

\* There are fewer keys than a counter can count.
ActivityStatsAssumption ==
    /\ {Day, MonthDays, Modulus} \subseteq Nat \ {0}
    /\ IsFiniteSet(Keys) /\ Cardinality(Keys) < Modulus
    /\ DOMAIN AnchorOf = Keys /\ MethodOf \in [Keys -> MethodBuckets]
    /\ DOMAIN OriginsOf = Keys

Month == MonthDays * Day

VARIABLES
    keys,            \* the anchors' keys: key |-> [origin, used]
    activeAnchors,   \* active_anchor_stats
    activeDomains,   \* domain_active_anchor_stats
    activeMethods,   \* active_authn_method_stats
    now,
    uses,            \* history: [key, origin, time] of every authentication
    lastChange       \* history: when a key was last removed or moved

stats == <<activeAnchors, activeDomains, activeMethods>>
vars == <<keys, stats, now, uses, lastChange>>

Never == -1
IIDomains == {"Ic0App", "InternetComputerOrg", "IdAi"}
DomainBuckets == IIDomains \cup {"both"}

-----------------------------------------------------------------------------
(***************************************************************************)
(* What an anchor tells about its past (storage/anchor.rs).                *)
(***************************************************************************)

KeysOf(anchor) == {k \in DOMAIN keys : AnchorOf[k] = anchor}

LastActivity(anchor) == Max({Never} \cup {keys[k].used : k \in KeysOf(anchor)})

UsedDomains(anchor, time) ==
    {keys[k].origin : k \in {h \in KeysOf(anchor) :
                                MethodOf[h] # Credential /\ keys[h].used >= time}}

\* domain_activity_since: other origins are dropped beside an II domain.
DomainActivitySince(anchor, time) ==
    LET origins == UsedDomains(anchor, time)
    IN  IF Cardinality(origins \cap IIDomains) > 1 THEN "both"
        ELSE IF origins \cap IIDomains # {}
             THEN CHOOSE o \in IIDomains : o \in origins
        ELSE IF origins # {} THEN "NonIIDomain"
        ELSE "None"

-----------------------------------------------------------------------------
(***************************************************************************)
(* The counters.  A counter is [start, counts]; only its buckets differ.   *)
(***************************************************************************)

NewCounter(buckets, start) == [start |-> start, counts |-> [b \in buckets |-> 0]]
Increment(c, b) == [c EXCEPT !.counts[b] = (@ + 1) % Modulus]
Decrement(c, b) ==
    [c EXCEPT !.counts[b] = IF b = "IdAi" THEN Max({0, @ - 1})
                            ELSE (@ - 1) % Modulus]

\* ActiveAnchorCounter: the anchor has no activity in this window yet.
CountAnchor(c, k) ==
    IF c.start > LastActivity(AnchorOf[k]) THEN Increment(c, "anchors") ELSE c

\* Mutant: the second domain is counted, the first not taken back.
CountDomainTwice(c, k) ==
    LET domain == keys[k].origin
        activity == DomainActivitySince(AnchorOf[k], c.start)
    IN  IF activity \in {"None", "NonIIDomain"} THEN Increment(c, domain)
        ELSE IF activity \in IIDomains \ {domain} THEN Increment(c, "both")
        ELSE c

\* DomainActiveAnchorCounter: active on a second domain, the anchor moves to
\* the bucket of those active on both.
CountDomain(c, k) ==
    LET domain == keys[k].origin
        activity == DomainActivitySince(AnchorOf[k], c.start)
    IN  IF activity \in {"None", "NonIIDomain"} THEN Increment(c, domain)
        ELSE IF activity \in IIDomains \ {domain}
             THEN Increment(Decrement(c, activity), "both")
        ELSE c

\* The bucket of AuthnMethodCounter, or none: WebAuthn keys count on an II
\* domain only, a credential for its issuer (there is one here).
MethodBucket(k) ==
    IF MethodOf[k] \in {"recovery_phrase", "browser_storage_key", Credential}
    THEN {MethodOf[k]}
    ELSE IF keys[k].origin \in IIDomains THEN {MethodOf[k]} ELSE {}

CountMethod(c, k) ==
    IF keys[k].used >= c.start \/ MethodBucket(k) = {} THEN c
    ELSE Increment(c, CHOOSE b \in MethodBuckets : b \in MethodBucket(k))

-----------------------------------------------------------------------------
(***************************************************************************)
(* ActivityStats<T>, and its maintenance.                                  *)
(***************************************************************************)

NoWindow == <<>>

\* ActivityStats::new
NewStats(buckets, time) ==
    [completedDay |-> NoWindow, completedMonth |-> NoWindow,
     day |-> NewCounter(buckets, time),
     months |-> <<NewCounter(buckets, time)>>]

\* process_daily_stats: the day that is over becomes the completed one, or an
\* empty one does if it is not the last day; the new day is on the same grid.
ProcessDay(s, buckets) ==
    LET start == now - ((now - s.day.start) % Day)
    IN  IF s.day.start + Day > now THEN s
        ELSE [s EXCEPT
                !.completedDay = IF s.day.start + 2 * Day <= now
                                 THEN <<NewCounter(buckets, start - Day)>>
                                 ELSE <<s.day>>,
                !.day = NewCounter(buckets, start)]

\* The months that are over leave; the last of them is the completed one.
CloseMonths(s) ==
    LET over == {j \in 1..Len(s.months) : s.months[j].start + Month <= now}
        n == Cardinality(over)
    IN  [s EXCEPT !.months = SubSeq(@, n + 1, Len(@)),
                  !.completedMonth = IF n = 0 THEN @ ELSE <<s.months[n]>>]

\* A completed month that ended more than a day ago gives way to an empty one.
ReplaceOutdatedMonth(s, buckets) ==
    IF s.completedMonth = NoWindow THEN s
    ELSE LET last == s.completedMonth[1].start
         IN  IF last + Month + Day > now THEN s
             ELSE [s EXCEPT !.completedMonth =
                      <<NewCounter(buckets, now - Month - ((now - last) % Day))>>]

\* Mutant: a month is opened by every call.
OpenMonthAlways(s, buckets) ==
    [s EXCEPT !.months = Append(@, NewCounter(buckets, s.day.start))]

\* A month is opened with the first call of a day.
OpenMonth(s, buckets) ==
    IF s.months # <<>> /\ Last(s.months).start + Day > now THEN s
    ELSE [s EXCEPT !.months = Append(@, NewCounter(buckets, s.day.start))]

\* process_stats; the months are aligned to the day.
ProcessStats(s, buckets) ==
    OpenMonth(ReplaceOutdatedMonth(CloseMonths(ProcessDay(s, buckets)), buckets),
              buckets)

\* count_event of the ActivityCounter with these buckets.
CountEvent(buckets, counter, k) ==
    CASE buckets = {"anchors"}   -> CountAnchor(counter, k)
      [] buckets = DomainBuckets -> CountDomain(counter, k)
      [] buckets = MethodBuckets -> CountMethod(counter, k)

\* update_counters
UpdateCounters(s, buckets, k) ==
    LET t == ProcessStats(s, buckets)
    IN  [t EXCEPT !.day = CountEvent(buckets, t.day, k),
                  !.months = [j \in DOMAIN t.months |-> CountEvent(buckets, t.months[j], k)]]

\* update_activity_stats: by domain for a device on an II domain only.
UpdateActivityStats(k) ==
    /\ activeAnchors' =
          UpdateCounters(activeAnchors, {"anchors"}, k)
    /\ activeDomains' =
          IF MethodOf[k] # Credential /\ keys[k].origin \in IIDomains
          THEN UpdateCounters(activeDomains, DomainBuckets, k)
          ELSE activeDomains
    /\ activeMethods' =
          UpdateCounters(activeMethods, MethodBuckets, k)

-----------------------------------------------------------------------------
(***************************************************************************)
(* The state machine.                                                      *)
(***************************************************************************)

Init ==
    /\ keys \in [Keys -> {[origin |-> o, used |-> Never] :
                             o \in UNION {OriginsOf[k] : k \in Keys}}]
    /\ \A k \in Keys : keys[k].origin \in OriginsOf[k]
    /\ now = 0
    /\ activeAnchors = NewStats({"anchors"}, now)
    /\ activeDomains = NewStats(DomainBuckets, now)
    /\ activeMethods = NewStats(MethodBuckets, now)
    /\ uses = {}
    /\ lastChange = Never

Changes == Cardinality({u \in uses : u.change})

\* activity_bookkeeping, once per authenticated call: the statistics are
\* updated before the key is marked as used, and both before the operation.
ActivityBookkeeping(k, change) ==
    /\ k \in DOMAIN keys
    /\ Cardinality(uses) < MaxUses
    /\ UpdateActivityStats(k)
    /\ uses' = uses \cup {[key |-> k, origin |-> keys[k].origin, time |-> now,
                           change |-> change]}
    /\ UNCHANGED now

Used(k) == [keys EXCEPT ![k].used = now]

\* A call that changes nothing about the keys.
Authenticate(k) ==
    /\ ActivityBookkeeping(k, FALSE)
    /\ keys' = Used(k)
    /\ UNCHANGED lastChange

\* A key removes a key of its anchor, possibly itself.
RemoveKey(k, removed) ==
    /\ Changes < MaxChanges
    /\ ActivityBookkeeping(k, TRUE)
    /\ removed \in KeysOf(AnchorOf[k])
    /\ keys' = [h \in DOMAIN keys \ {removed} |-> Used(k)[h]]
    /\ lastChange' = now

\* A key adds a key to its anchor; it was never used.
AddKey(k, added, origin) ==
    /\ ActivityBookkeeping(k, TRUE)
    /\ added \notin DOMAIN keys
    /\ AnchorOf[added] = AnchorOf[k]
    /\ origin \in OriginsOf[added]
    /\ keys' = [h \in DOMAIN keys \cup {added} |->
                   IF h = added THEN [origin |-> origin, used |-> Never]
                   ELSE Used(k)[h]]
    /\ UNCHANGED lastChange

\* update_device: the origin of a device is data of the client.
MoveKey(k, moved, origin) ==
    /\ Changes < MaxChanges
    /\ ActivityBookkeeping(k, TRUE)
    /\ moved \in KeysOf(AnchorOf[k])
    /\ origin \in OriginsOf[moved]
    /\ keys' = [Used(k) EXCEPT ![moved].origin = origin]
    /\ lastChange' = now

Tick ==
    /\ now < MaxTime
    /\ now' = now + 1
    /\ UNCHANGED <<keys, stats, uses, lastChange>>

Next ==
    \/ Tick
    \/ \E k \in Keys :
          \/ Authenticate(k)
          \/ \E h \in Keys :
                \/ RemoveKey(k, h)
                \/ \E o \in OriginsOf[h] : AddKey(k, h, o) \/ MoveKey(k, h, o)

Spec == Init /\ [][Next]_vars

-----------------------------------------------------------------------------
(***************************************************************************)
(* Properties.                                                             *)
(***************************************************************************)

\* The periods fit together: there are at most MonthDays months, a day apart
\* from each other or more, the last one starts with the current day, and the
\* completed day and month end where the current day starts.
PeriodsFitTogether ==
    \A j \in 1..3 :
        LET s == stats[j]
        IN  /\ Len(s.months) \in 1..MonthDays
            /\ Last(s.months).start = s.day.start
            /\ \A i \in 2..Len(s.months) :
                  /\ s.months[i].start > s.months[i - 1].start
                  /\ (s.months[i].start - s.months[i - 1].start) % Day = 0
            /\ s.months[1].start > s.day.start - Month
            /\ s.completedDay # NoWindow =>
                  s.completedDay[1].start + Day = s.day.start
            /\ s.completedMonth # NoWindow =>
                  s.completedMonth[1].start + Month = s.day.start

\* Types: counters do not leave their machine words.
TypeOK ==
    /\ \A k \in DOMAIN keys : keys[k].origin \in OriginsOf[k] /\ keys[k].used \in Never..now
    /\ \A j \in 1..3 : \A c \in {stats[j].day} \cup Range(stats[j].months) :
          /\ c.start \in 0..now
          /\ \A b \in DOMAIN c.counts : c.counts[b] \in 0..Modulus - 1

UsesIn(start, end) == {u \in uses : start <= u.time /\ u.time < end}

AnchorsIn(used) == {AnchorOf[u.key] : u \in used}
DomainsIn(anchor, used) ==
    {u.origin : u \in {v \in used : /\ AnchorOf[v.key] = anchor
                                    /\ MethodOf[v.key] # Credential}} \cap IIDomains

AnchorsExactly(c, used) == c.counts["anchors"] = Cardinality(AnchorsIn(used))
DomainsExactly(c, used) ==
    /\ \A d \in IIDomains :
          c.counts[d] = Cardinality({a \in AnchorsIn(used) :
                                        DomainsIn(a, used) = {d}})
    /\ c.counts["both"] = Cardinality({a \in AnchorsIn(used) :
                                          Cardinality(DomainsIn(a, used)) > 1})
MethodsExactly(c, used) ==
    \A b \in MethodBuckets :
        c.counts[b] =
            Cardinality({k \in {u.key : u \in {v \in used :
                                   \/ v.origin \in IIDomains
                                   \/ MethodOf[v.key] \notin
                                        {"webauthn_auth", "webauthn_recovery",
                                         "other"}}} :
                            MethodOf[k] = b})

\* An empty month is made up when its first day had no activity.
MonthsOf(s, Relevant(_)) ==
    Range(s.months) \cup
        {c \in Range(s.completedMonth) :
            \E u \in UsesIn(c.start, c.start + Day) : Relevant(u)}

\* Each period counts every anchor (by domain: in the one right bucket; by
\* method: every key) that was active in it, exactly once, provided that no
\* key was removed or moved to another origin since the period started.
EveryoneIsCountedOnce ==
    LET Exact(s, Exactly(_, _), Relevant(_)) ==
            /\ \A c \in {s.day} \cup Range(s.completedDay) :
                  lastChange < c.start => Exactly(c, UsesIn(c.start, c.start + Day))
            /\ \A c \in MonthsOf(s, Relevant) :
                  lastChange < c.start => Exactly(c, UsesIn(c.start, c.start + Month))
        All(u) == TRUE
        OnDomain(u) == MethodOf[u.key] # Credential /\ u.origin \in IIDomains
    IN  /\ Exact(activeAnchors, AnchorsExactly, All)
        /\ Exact(activeDomains, DomainsExactly, OnDomain)
        /\ Exact(activeMethods, MethodsExactly, All)

\* "the anchor switched from being active on only one II domain to being
\* active on both --> total active remains the same": moving an anchor to the
\* bucket of both domains takes it from the bucket it is in.
TotalRemainsTheSame ==
    \A c \in {activeDomains.day} \cup Range(activeDomains.months) :
        MapThenSumSet(LAMBDA b : c.counts[b], DomainBuckets)
            <= Cardinality(UsesIn(c.start, now + 1))

=============================================================================
