-------------------------- MODULE RegistrationFlow --------------------------
(***************************************************************************)
(* The registration of a new identity (registration_flow_v2.rs).           *)
(*                                                                         *)
(* A principal starts a flow, solves a captcha if one is required and      *)
(* finishes by supplying an authentication method.  Starts are subject to  *)
(* a rate limit (rate_limit.rs); flows expire (flow_states.rs).  Making a  *)
(* captcha awaits the management canister's raw_rand, so that the calls of *)
(* one principal overlap: what such a call knew before the await may be    *)
(* out of date after it.                                                   *)
(*                                                                         *)
(* A captcha is known by whether it is answered correctly; whether one is  *)
(* required depends on the registration rates and is left open.            *)
(***************************************************************************)
EXTENDS Integers, Sequences, FiniteSets, FiniteSetsExt, Functions

CONSTANTS
    Principals,     \* callers, without the anonymous one
    Calls,          \* calls that may be awaiting raw_rand at the same time
    FlowExpiration, \* FLOW_EXPIRATION_NS
    MaxTokens,      \* RateLimitConfig.max_tokens
    TimePerToken,   \* RateLimitConfig.time_per_token_ns
    Devices, KeyExpiration, MaxToPrune, MaxIdentities, MaxTime, \* see TempKeys
    MaxStarts,      \* bound: flows started within the rate limit
    MaxCleared      \* bound: captchas solved or not required, per principal

RegistrationFlowAssumption ==
    /\ FlowExpiration \in Nat \ {0}
    /\ MaxTokens \in Nat
    /\ TimePerToken \in Nat \ {0}
    /\ {KeyExpiration, MaxToPrune, MaxIdentities} \subseteq Nat

VARIABLES
    flows,          \* registration_flows: principal |-> [step, created]
    expirations,    \* expirations: a queue of [principal, expiration]
    bucket,         \* RateLimitState: [tokens, stamp]
    pending,        \* calls awaiting raw_rand: [kind, principal, created]
    now, devices, tempKeys, keyExpirations, \* see TempKeys
    \* What happened so far, by principal.
    admitted,       \* starts that got a token
    cleared,        \* captchas solved, and starts that required none
    registered      \* identities created

TK == INSTANCE TempKeys WITH MaxAdded <- MaxIdentities

flowVars == <<flows, expirations>>
keyVars == <<devices, tempKeys, keyExpirations>>
history == <<admitted, cleared, registered>>
vars == <<flowVars, bucket, pending, now, keyVars, history>>

NoBucket == [tokens |-> -1, stamp |-> 0]
Steps == {"captcha", "finish"}

TypeOK ==
    /\ DOMAIN flows \subseteq Principals
    /\ \A p \in DOMAIN flows : flows[p] \in [step : Steps, created : Nat]
    /\ expirations \in Seq([principal : Principals, expiration : Nat])
    /\ bucket \in [tokens : 0..MaxTokens, stamp : 0..now] \cup {NoBucket}
    /\ DOMAIN pending \subseteq Calls
    /\ \A c \in DOMAIN pending :
          pending[c] \in [kind : {"start", "retry"}, principal : Principals,
                          created : Nat]
    /\ TK!TypeOK
    /\ {admitted, cleared, registered} \subseteq [Principals -> Nat]

NoFlows == [p \in {} |-> 0]

Init ==
    /\ flows = NoFlows
    /\ expirations = <<>>
    /\ bucket = NoBucket
    /\ pending = NoFlows
    /\ TK!Init
    /\ admitted = [p \in Principals |-> 0]
    /\ cleared = [p \in Principals |-> 0]
    /\ registered = [p \in Principals |-> 0]

Put(f, x, y) == [z \in DOMAIN f \cup {x} |-> IF z = x THEN y ELSE f[z]]
Drop(f, x) == Restrict(f, DOMAIN f \ {x})
Count(f, x) == [f EXCEPT ![x] = @ + 1]

-----------------------------------------------------------------------------
(***************************************************************************)
(* The rate limit.                                                         *)
(***************************************************************************)

\* add_tokens, or the initialization after an upgrade.
Refilled ==
    LET new == (now - bucket.stamp) \div TimePerToken
    IN  IF bucket = NoBucket THEN [tokens |-> MaxTokens, stamp |-> now]
        ELSE [tokens |-> Min({MaxTokens, bucket.tokens + new}),
              stamp |-> bucket.stamp + new * TimePerToken]

TakeToken == /\ Refilled.tokens > 0
             /\ bucket' = [Refilled EXCEPT !.tokens = @ - 1]

\* identity_registration_start is refused: RateLimitExceeded, or InvalidCaller
\* for the anonymous principal, which costs a token all the same.
StartRefused ==
    /\ \/ Refilled.tokens = 0 /\ bucket' = Refilled
       \/ TakeToken
    /\ UNCHANGED <<flowVars, pending, now, keyVars, history>>

-----------------------------------------------------------------------------
(***************************************************************************)
(* struct FlowStates.                                                      *)
(***************************************************************************)

\* How many entries prune_expired_flows takes from the front of the queue.
PruneCount ==
    Max({n \in 0..Min({MaxToPrune, Len(expirations)}) :
            \A j \in 1..n : expirations[j].expiration <= now})

FlowsAfterPrune ==
    Restrict(flows, DOMAIN flows \
                    {expirations[j].principal : j \in 1..PruneCount})

QueueAfterPrune == SubSeq(expirations, PruneCount + 1, Len(expirations))

\* new_registration_flow fails if there is one, but prunes in any case.
NewRegistrationFlow(p, flow) ==
    IF p \in DOMAIN FlowsAfterPrune
    THEN /\ flows' = FlowsAfterPrune
         /\ expirations' = QueueAfterPrune
    ELSE /\ flows' = Put(FlowsAfterPrune, p, flow)
         /\ expirations' = Append(QueueAfterPrune,
                [principal |-> p, expiration |-> flow.created + FlowExpiration])

\* Mutant: a flow that is gone is created again.
UpdateOrInsert(p, flow) ==
    /\ flows' = Put(FlowsAfterPrune, p, flow)
    /\ expirations' = QueueAfterPrune

UpdateRegistrationFlow(p, flow) ==
    /\ flows' = IF p \in DOMAIN FlowsAfterPrune
                THEN Put(FlowsAfterPrune, p, flow) ELSE FlowsAfterPrune
    /\ expirations' = QueueAfterPrune

\* The entry in the queue stays.
RemoveRegistrationFlow(p) ==
    /\ flows' = Drop(FlowsAfterPrune, p)
    /\ expirations' = QueueAfterPrune

\* registration_flow_state finds a flow at this step.
InProgress(p, step) ==
    /\ p \in DOMAIN flows
    /\ flows[p].created + FlowExpiration > now
    /\ flows[p].step = step

-----------------------------------------------------------------------------
(***************************************************************************)
(* The canister methods.                                                   *)
(***************************************************************************)

Starts == MapThenSumSet(LAMBDA p : admitted[p], Principals)

\* identity_registration_start, no captcha required.
StartWithoutCaptcha(p) ==
    /\ Starts < MaxStarts
    /\ cleared[p] < MaxCleared
    /\ TakeToken
    /\ NewRegistrationFlow(p, [step |-> "finish", created |-> now])
    /\ admitted' = Count(admitted, p)
    /\ cleared' = Count(cleared, p)
    /\ UNCHANGED <<pending, now, keyVars, registered>>

\* identity_registration_start up to the await.
StartWithCaptcha(p, c) ==
    /\ Starts < MaxStarts
    /\ TakeToken
    /\ c \notin DOMAIN pending
    /\ pending' = Put(pending, c,
                      [kind |-> "start", principal |-> p, created |-> now])
    /\ admitted' = Count(admitted, p)
    /\ UNCHANGED <<flowVars, now, keyVars, cleared, registered>>

\* The rest of it: the flow starts at the time of the call.
CaptchaCreated(c) ==
    /\ c \in DOMAIN pending
    /\ pending[c].kind = "start"
    /\ NewRegistrationFlow(pending[c].principal,
                           [step |-> "captcha", created |-> pending[c].created])
    /\ pending' = Drop(pending, c)
    /\ UNCHANGED <<bucket, now, keyVars, history>>

\* check_captcha with the correct solution.
SolveCaptcha(p) ==
    /\ InProgress(p, "captcha")
    /\ cleared[p] < MaxCleared
    /\ UpdateRegistrationFlow(p, [step |-> "finish", created |-> flows[p].created])
    /\ cleared' = Count(cleared, p)
    /\ UNCHANGED <<bucket, pending, now, keyVars, admitted, registered>>

\* check_captcha with a wrong solution, up to the await.
FailCaptcha(p, c) ==
    /\ InProgress(p, "captcha")
    /\ c \notin DOMAIN pending
    /\ pending' = Put(pending, c, [kind |-> "retry", principal |-> p,
                                   created |-> flows[p].created])
    /\ UNCHANGED <<flowVars, bucket, now, keyVars, history>>

\* The rest of it: the flow goes back to a new captcha, if it still exists.
CaptchaReplaced(c) ==
    /\ c \in DOMAIN pending
    /\ pending[c].kind = "retry"
    /\ UpdateRegistrationFlow(pending[c].principal,
                              [step |-> "captcha", created |-> pending[c].created])
    /\ pending' = Drop(pending, c)
    /\ UNCHANGED <<bucket, now, keyVars, history>>

\* raw_rand fails and the call traps.
CaptchaFailed(c) ==
    /\ c \in DOMAIN pending
    /\ pending' = Drop(pending, c)
    /\ UNCHANGED <<flowVars, bucket, now, keyVars, history>>

\* Mutant: finishing does not ask which step the flow is at.
AnyStep(p) == \E step \in Steps : InProgress(p, step)

FinishReady(p) == InProgress(p, "finish")

\* identity_registration_finish: the identity is created with a new device
\* and the principal becomes its temporary key.  If the identity cannot be
\* created, nothing changes.
FinishWithDevice(p, d) ==
    LET i == Cardinality(DOMAIN devices) + 1
    IN  /\ FinishReady(p)
        /\ i <= MaxIdentities
        /\ \A j \in DOMAIN devices : d \notin devices[j]
        /\ devices' = Put(devices, i, {d})
        /\ RemoveRegistrationFlow(p)
        /\ TK!AddTempKey(i, d, p)
        /\ registered' = Count(registered, p)
        /\ UNCHANGED <<bucket, pending, now, admitted, cleared>>

\* openid_identity_registration_finish: no device, no temporary key.
FinishWithOpenId(p) ==
    LET i == Cardinality(DOMAIN devices) + 1
    IN  /\ FinishReady(p)
        /\ i <= MaxIdentities
        /\ devices' = Put(devices, i, {})
        /\ RemoveRegistrationFlow(p)
        /\ registered' = Count(registered, p)
        /\ UNCHANGED <<bucket, pending, now, tempKeys, keyExpirations, admitted,
                       cleared>>

\* All of this but the identities is in heap memory.
Upgrade ==
    /\ flows' = NoFlows
    /\ expirations' = <<>>
    /\ bucket' = NoBucket
    /\ pending' = NoFlows
    /\ TK!Upgrade
    /\ UNCHANGED history

Tick == TK!Tick /\ UNCHANGED <<flowVars, bucket, pending, history>>

Next ==
    \/ StartRefused
    \/ \E p \in Principals :
          \/ StartWithoutCaptcha(p)
          \/ SolveCaptcha(p)
          \/ FinishWithOpenId(p)
          \/ \E d \in Devices : FinishWithDevice(p, d)
          \/ \E c \in Calls : StartWithCaptcha(p, c) \/ FailCaptcha(p, c)
    \/ \E c \in Calls : CaptchaCreated(c) \/ CaptchaReplaced(c) \/ CaptchaFailed(c)
    \/ Upgrade
    \/ Tick

Spec == Init /\ [][Next]_vars

-----------------------------------------------------------------------------
(***************************************************************************)
(* Properties.                                                             *)
(***************************************************************************)

PendingStarts(p) ==
    {c \in DOMAIN pending : pending[c].kind = "start" /\ pending[c].principal = p}

\* Every identity and every flow was paid for with a token of its own: calls
\* of one principal that overlap never get two flows or two identities, nor
\* revive a finished flow, for one start.
EveryFlowIsPaid ==
    \A p \in Principals :
        registered[p] + Cardinality(DOMAIN flows \cap {p})
            + Cardinality(PendingStarts(p)) <= admitted[p]

\* Every identity and every flow ready to finish stands for one captcha that
\* was solved (or not required): a solution is good for one registration.
EveryFinishIsCleared ==
    \A p \in Principals :
        registered[p] + Cardinality({q \in DOMAIN flows \cap {p} :
                                        flows[q].step = "finish"}) <= cleared[p]

\* Every flow has an entry in the queue, so that it will be pruned: a flow
\* that is updated, or started again after an end, is never forgotten.
EveryFlowIsQueued ==
    \A p \in DOMAIN flows :
        \E j \in 1..Len(expirations) : expirations[j].principal = p

\* "The total number of flow states is limited by the registration rate
\* limit": what the limit admits within the life time of a flow.
FlowsWithinRateLimit ==
    Cardinality({p \in DOMAIN flows : flows[p].created + FlowExpiration > now})
        <= MaxTokens + (FlowExpiration - 1) \div TimePerToken + 1

=============================================================================
