---------------------------- MODULE MCRegistration ----------------------------
(***************************************************************************)
(* The two ways to add a passkey, RegistrationFlow (a new identity) and    *)
(* TentativeRegistration (another device of an identity), on small         *)
(* instances. They share no state, so a behaviour of this module is one    *)
(* of either, and the variables that both have stand for those of the one  *)
(* that runs.                                                              *)
(***************************************************************************)
EXTENDS TLC

CONSTANTS
    Users,      \* the principals of RegistrationFlow, the anchors of TentativeRegistration
    Devices,    \* of both
    \* RegistrationFlow
    FlowCalls, FlowExpiration, MaxTokens, TimePerToken, KeyExpiration,
    MaxToPrune, MaxIdentities, MaxFlowTime, MaxStarts, MaxCleared,
    \* TentativeRegistration
    ModeCalls, Sessions, RegIds, NoId, Duration, MaxModes, MaxAttempts, MaxModeTime

VARIABLES
    part,   \* which of the two runs
    now, devices, pending,
    flows, expirations, bucket, tempKeys, keyExpirations, admitted, cleared, registered,
    pubkeyIndex, registrations, lookup, window

Flow == INSTANCE RegistrationFlow WITH
    Principals <- Users, Calls <- FlowCalls, MaxTime <- MaxFlowTime
Tentative == INSTANCE TentativeRegistration WITH
    Anchors <- Users, Calls <- ModeCalls, MaxTime <- MaxModeTime

ASSUME MCRegistrationAssumption ==
    /\ Flow!RegistrationFlowAssumption
    /\ Tentative!TentativeRegistrationAssumption

vars ==
    <<part, now, devices, pending,
      flows, expirations, bucket, tempKeys, keyExpirations, admitted, cleared, registered,
      pubkeyIndex, registrations, lookup, window>>

Init ==
    \/ /\ part = "flow" /\ Flow!Init
       /\ pubkeyIndex = <<>> /\ registrations = <<>> /\ lookup = <<>> /\ window = <<>>
    \/ /\ part = "tentative" /\ Tentative!Init
       /\ flows = <<>> /\ expirations = <<>> /\ bucket = <<>>
       /\ tempKeys = <<>> /\ keyExpirations = <<>>
       /\ admitted = <<>> /\ cleared = <<>> /\ registered = <<>>

Next ==
    \/ /\ part = "flow" /\ Flow!Next
       /\ UNCHANGED <<part, pubkeyIndex, registrations, lookup, window>>
    \/ /\ part = "tentative" /\ Tentative!Next
       /\ UNCHANGED <<part, flows, expirations, bucket, tempKeys, keyExpirations,
                      admitted, cleared, registered>>

Spec == Init /\ [][Next]_vars

Symmetry == Permutations(Users) \cup Permutations(FlowCalls)

-----------------------------------------------------------------------------
(***************************************************************************)
(* The properties of the two, see there.                                   *)
(***************************************************************************)

\* RegistrationFlow: one token for each flow and identity, whatever calls
\* overlap; no flow is forgotten, nor are there more than the limit lets in.
FlowsArePaid ==
    part = "flow" =>
        /\ Flow!TypeOK
        /\ Flow!EveryFlowIsPaid
        /\ Flow!EveryFlowIsQueued
        /\ Flow!FlowsWithinRateLimit

\* RegistrationFlow: one solved captcha for each identity.
EveryFinishIsCleared == part = "flow" => Flow!EveryFinishIsCleared

\* TentativeRegistration: a registration id leads to the anchor that chose it,
\* and the codes that may be tried in one mode are few.
LookupIsSound ==
    part = "tentative" =>
        /\ Tentative!TypeOK
        /\ Tentative!LookupIsSound
        /\ Tentative!GuessesBounded

\* TentativeRegistration: what the owner confirms is what the device showed,
\* once for each mode and in time.
NoSubstitution ==
    [][part = "tentative" =>
          Tentative!NoSubstitutionStep /\ Tentative!AddedWithinWindowStep]_vars

\* TentativeRegistration: no passkey gets into two identities.
PasskeysAreUnique == part = "tentative" => Tentative!PasskeysAreUnique

=============================================================================
