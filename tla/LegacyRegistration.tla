------------------------- MODULE LegacyRegistration -------------------------
(***************************************************************************)
(* The legacy registration: create_challenge and register, and what        *)
(* decides whether a captcha is required (captcha.rs, registration.rs,     *)
(* registration_rates.rs, captcha_required in registration_flow_v2.rs).    *)
(*                                                                         *)
(* A challenge can be tried once, within its lifetime.  Whether one is     *)
(* needed depends on the rates of registrations over a short and a long    *)
(* interval, known from two heaps of time stamps that registrations prune, *)
(* a few at a time.  The configuration changes with an upgrade only, which *)
(* keeps the heaps (stable memory) and nothing else.                       *)
(*                                                                         *)
(* The rate limit, shared with the registration flow, is in                *)
(* RegistrationFlow.                                                       *)
(***************************************************************************)
EXTENDS Integers, Sequences, FiniteSets, FiniteSetsExt, Functions, SequencesExt

CONSTANTS
    Configs,            \* CaptchaConfig: [trigger, maxUnsolved, current,
                        \*                 reference, threshold]
    ChallengeKeys,      \* random keys of challenges
    ChallengeLifetime,  \* CAPTCHA_CHALLENGE_LIFETIME_NS
    RatesMaxToPrune,    \* MAX_TO_PRUNE of registration_rates.rs
    Principals, Devices, KeyExpiration, MaxToPrune, MaxIdentities, MaxAdded,
    MaxTime,            \* see TempKeys
    MaxIssued, MaxRegistrations, MaxUpgrades \* bounds

ASSUME LegacyRegistrationAssumption ==
    /\ {ChallengeLifetime, RatesMaxToPrune} \subseteq Nat \ {0}
    /\ {KeyExpiration, MaxToPrune} \subseteq Nat \ {0} /\ MaxIdentities \in Nat
    /\ \A c \in Configs :
          /\ c.trigger \in {"disabled", "enabled", "dynamic"}
          /\ {c.maxUnsolved, c.current, c.reference, c.threshold} \subseteq Nat

VARIABLES
    config,             \* persistent_state.captcha_config
    challenges,         \* inflight_challenges: key |-> created
    reference, current, \* the two heaps, in ascending order
    referencePruned, currentPruned, \* *_last_pruned_interval_ns, or Unknown
    now, devices, tempKeys, keyExpirations, \* see TempKeys
    \* What happened so far.
    issued, attempts,   \* challenges created, and tried
    registrations,      \* times of the registrations since the last change
    upgrades

TK == INSTANCE TempKeys

keyVars == <<devices, tempKeys, keyExpirations>>
rateVars == <<reference, current, referencePruned, currentPruned>>
history == <<issued, attempts, registrations, upgrades>>
vars == <<config, challenges, rateVars, now, keyVars, history>>

Unknown == -1
NoChallenges == [c \in {} |-> 0]

-----------------------------------------------------------------------------
(***************************************************************************)
(* Registration rates.                                                     *)
(***************************************************************************)

Dynamic == config.trigger = "dynamic"

\* Mutant: a time stamp in the interval goes as well.
PruneDataEarly(data, interval) ==
    Max({n \in 0..Min({RatesMaxToPrune, Len(data)}) :
            \A j \in 1..n : data[j] <= now - interval + 1})

\* prune_data: how many time stamps it pops.
PruneData(data, interval) ==
    Max({n \in 0..Min({RatesMaxToPrune, Len(data)}) :
            \A j \in 1..n : data[j] <= now - interval})

Rest(data, n) == SubSeq(data, n + 1, Len(data))

\* The interval of the last time stamp popped, or what it was before.
LastPruned(data, n, before) == IF n = 0 THEN before ELSE now - data[n]

\* new_registration: prune_expired, then count this registration.
NewRegistration ==
    LET r == PruneData(reference, config.reference)
        c == PruneData(current, config.current)
    IN  IF ~Dynamic THEN UNCHANGED rateVars
        ELSE /\ reference' = Append(Rest(reference, r), now)
             /\ current' = Append(Rest(current, c), now)
             /\ referencePruned' = LastPruned(reference, r, referencePruned)
             /\ currentPruned' = LastPruned(current, c, currentPruned)

\* registration_rates: data that was pruned for a shorter interval.
Insufficient(pruned, interval) == pruned # Unknown /\ pruned < interval

\* The current rate exceeds the reference rate by the threshold, in percent.
RateExceeded ==
    Len(current) * config.reference * 100
        > Len(reference) * config.current * (100 + config.threshold)

\* captcha_required
CaptchaRequired ==
    \/ config.trigger = "enabled"
    \/ /\ Dynamic
       /\ \/ Insufficient(referencePruned, config.reference)
          \/ Insufficient(currentPruned, config.current)
          \/ RateExceeded

-----------------------------------------------------------------------------
(***************************************************************************)
(* Challenges.                                                             *)
(***************************************************************************)

\* prune_expired_challenges
Unexpired ==
    Restrict(challenges, {c \in DOMAIN challenges :
                             challenges[c] > now - ChallengeLifetime})

\* create_challenge, after it has awaited the random bytes: it traps if there
\* are too many, so that the pruning is undone as well.
CreateChallenge(c) ==
    /\ issued < MaxIssued
    /\ Cardinality(DOMAIN Unexpired) < config.maxUnsolved
    /\ c \notin DOMAIN Unexpired
    /\ challenges' = TK!Put(Unexpired, c, now)
    /\ issued' = issued + 1
    /\ UNCHANGED <<config, rateVars, now, keyVars, attempts, registrations, upgrades>>

\* Mutant: a challenge can be tried until it is solved.
CheckChallengeUntilSolved(c, solved) ==
    /\ c \in DOMAIN Unexpired
    /\ challenges' = IF solved THEN Restrict(Unexpired, DOMAIN Unexpired \ {c})
                     ELSE Unexpired
    /\ attempts' = attempts + 1

\* check_challenge: the challenge is gone, whether it is solved or not.
CheckChallenge(c, solved) ==
    /\ c \in DOMAIN Unexpired
    /\ challenges' = Restrict(Unexpired, DOMAIN Unexpired \ {c})
    /\ attempts' = attempts + 1

\* register with a wrong solution or an unknown challenge.
BadChallenge ==
    /\ CaptchaRequired
    /\ \/ \E c \in ChallengeKeys : CheckChallenge(c, FALSE)
       \/ challenges' = Unexpired /\ UNCHANGED attempts
    /\ UNCHANGED <<config, rateVars, now, keyVars, issued, registrations, upgrades>>

\* The challenge that register asks for.
ChallengePassed ==
    IF CaptchaRequired THEN \E c \in ChallengeKeys : CheckChallenge(c, TRUE)
    ELSE UNCHANGED <<challenges, attempts>>

Registered ==
    /\ Len(registrations) < MaxRegistrations
    /\ ChallengePassed
    /\ NewRegistration
    /\ registrations' = Append(registrations, now)
    /\ UNCHANGED <<config, issued, upgrades>>

\* register by the device itself; the identity has no temporary key.
RegisterWithDevice == Registered /\ UNCHANGED <<now, keyVars>>

\* register by a temporary key.
RegisterWithTempKey(d, p) == Registered /\ TK!Register(d, p)

-----------------------------------------------------------------------------

Init ==
    /\ config \in Configs
    /\ challenges = NoChallenges
    /\ reference = <<>> /\ current = <<>>
    /\ referencePruned = Unknown /\ currentPruned = Unknown
    /\ TK!Init
    /\ issued = 0 /\ attempts = 0 /\ upgrades = 0
    /\ registrations = <<>>

\* An upgrade, with a new captcha configuration or none.
Upgrade(new) ==
    /\ upgrades < MaxUpgrades
    /\ config' = new
    /\ challenges' = NoChallenges
    /\ referencePruned' = Unknown /\ currentPruned' = Unknown
    /\ TK!Upgrade
    /\ registrations' = IF new = config THEN registrations ELSE <<>>
    /\ issued' = 0 /\ attempts' = 0
    /\ upgrades' = upgrades + 1
    /\ UNCHANGED <<reference, current>>

Unrelated == UNCHANGED <<config, challenges, rateVars, history>>

\* Time passes, and the identities' other methods use the temporary keys.
Tick == TK!Tick /\ Unrelated
Authenticate == TK!Authenticate /\ Unrelated
ChangeDevices ==
    /\ \E i \in DOMAIN devices, d \in Devices :
          \/ \E p \in Principals : TK!ExitRegistrationMode(i, d, p)
          \/ \E pruned \in BOOLEAN :
                \/ TK!AddDevice(i, d, pruned)
                \/ TK!RemoveDevice(i, d, pruned)
                \/ \E new \in Devices : TK!ReplaceDevice(i, d, new, pruned)
    /\ Unrelated

Next ==
    \/ \E c \in ChallengeKeys : CreateChallenge(c)
    \/ BadChallenge
    \/ RegisterWithDevice
    \/ \E d \in Devices, p \in Principals : RegisterWithTempKey(d, p)
    \/ \E new \in Configs : Upgrade(new)
    \/ Tick
    \/ Authenticate
    \/ ChangeDevices

Spec == Init /\ [][Next]_vars

-----------------------------------------------------------------------------
(***************************************************************************)
(* Properties.                                                             *)
(***************************************************************************)

\* Types: the heaps are kept in the order of time.
TypeOK ==
    /\ config \in Configs
    /\ DOMAIN challenges \subseteq ChallengeKeys
    /\ \A c \in DOMAIN challenges : challenges[c] \in 0..now
    /\ \A data \in {reference, current} :
          /\ Range(data) \subseteq 0..now
          /\ \A i, j \in DOMAIN data : i < j => data[i] <= data[j]
    /\ {referencePruned, currentPruned} \subseteq {Unknown} \cup 0..now
    /\ TK!TypeOK

\* A challenge buys one attempt: attempts and challenges that can still be
\* tried never exceed the challenges that were created, and no more of these
\* are in flight than the configuration admits.
AttemptsArePaid ==
    /\ attempts + Cardinality(DOMAIN challenges) <= issued
    /\ Cardinality(DOMAIN challenges) <= config.maxUnsolved

CountSince(data, time) == Cardinality({j \in 1..Len(data) : data[j] > time})

\* No rate is underestimated: every registration in the interval since the
\* configuration last changed is in the heap, however late it is pruned.
RatesAreComplete ==
    Dynamic =>
        /\ CountSince(reference, now - config.reference)
              >= CountSince(registrations, now - config.reference)
        /\ CountSince(current, now - config.current)
              >= CountSince(registrations, now - config.current)

\* A temporary key goes with the device it stands for, and when it expires
\* (remove_temp_key, prune_expired_keys; see TempKeys).
KeysLeave == TypeOK /\ TK!KeyNeedsDevice /\ TK!EveryKeyExpires

=============================================================================
