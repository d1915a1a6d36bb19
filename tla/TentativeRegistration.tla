------------------------ MODULE TentativeRegistration ------------------------
(***************************************************************************)
(* Adding a device from another browser (tentative_device_registration.rs).*)
(*                                                                         *)
(* The owner of an identity (an anchor) opens its registration mode.  Any- *)
(* one may then add one tentative device, or one tentative session, and is *)
(* shown a confirmation code.  The owner submits the code: the device is   *)
(* added, or the session is confirmed and may itself add one device.  The  *)
(* mode ends then, after too many wrong codes, or in time.                 *)
(*                                                                         *)
(* Making a code awaits the management canister's raw_rand.  Codes are not *)
(* modelled: a submitted code is the right one or it is not.  Devices are  *)
(* passkeys, each known by its public key, and pubkeyIndex is the storage's*)
(* index of them.                                                          *)
(***************************************************************************)
EXTENDS Integers, FiniteSets, Functions

CONSTANTS
    Anchors,        \* identities
    Devices,        \* device public keys
    Sessions,       \* principals of tentative sessions
    RegIds,         \* registration ids
    NoId,           \* no registration id
    Calls,          \* calls that may be awaiting raw_rand at the same time
    Duration,       \* REGISTRATION_MODE_DURATION
    MaxModes,       \* MAX_ANCHORS_IN_REGISTRATION_MODE
    MaxAttempts,    \* MAX_DEVICE_REGISTRATION_ATTEMPTS
    MaxTime         \* bound on the clock

TentativeRegistrationAssumption ==
    /\ Duration \in Nat \ {0}
    /\ MaxModes \in Nat
    /\ MaxAttempts \in Nat \ {0}
    /\ NoId \notin RegIds
    /\ Devices \cap Sessions = {}

VARIABLES
    now,            \* time()
    devices,        \* the devices of each anchor
    pubkeyIndex,    \* device |-> an anchor that has it
    registrations,  \* tentative_device_registrations, by anchor
    lookup,         \* lookup_tentative_device_registration: id |-> anchor
    pending,        \* calls awaiting raw_rand: call |-> [anchor, subject]
    window          \* history of each anchor's last registration mode:
                    \* [entered, guesses, added]

vars == <<now, devices, pubkeyIndex, registrations, lookup, pending, window>>

Subjects == Devices \cup Sessions

\* RegistrationState; the subject of an active mode is the empty set.
Active == [kind |-> "active", subjects |-> {}, attempts |-> 0]
Added(s) == [kind |-> "added", subjects |-> {s}, attempts |-> 0]
Confirmed(s) == [kind |-> "confirmed", subjects |-> {s}, attempts |-> 0]

TypeOK ==
    /\ now \in Nat
    /\ devices \in [Anchors -> SUBSET Devices]
    /\ DOMAIN pubkeyIndex \subseteq Devices
    /\ \A d \in DOMAIN pubkeyIndex : pubkeyIndex[d] \in Anchors
    /\ DOMAIN registrations \subseteq Anchors
    /\ Cardinality(DOMAIN registrations) <= MaxModes
    /\ \A a \in DOMAIN registrations :
          LET r == registrations[a]
          IN  /\ r.expiration \in 1..(now + Duration)
              /\ r.id \in RegIds \cup {NoId}
              /\ \/ r.state = Active
                 \/ \E s \in Subjects, n \in 0..(MaxAttempts - 1) :
                       r.state = [Added(s) EXCEPT !.attempts = n]
                 \/ \E s \in Sessions : r.state = Confirmed(s)
    /\ DOMAIN lookup \subseteq RegIds
    /\ \A id \in DOMAIN lookup : lookup[id] \in Anchors
    /\ DOMAIN pending \subseteq Calls
    /\ \A c \in DOMAIN pending :
          pending[c] \in [anchor : Anchors, subject : Subjects]
    /\ window \in [Anchors -> [entered : Nat, guesses : Nat, added : Nat]]

Empty == [x \in {} |-> 0]

Init ==
    /\ now = 0
    /\ devices = [a \in Anchors |-> {}]
    /\ pubkeyIndex = Empty
    /\ registrations = Empty
    /\ lookup = Empty
    /\ pending = Empty
    /\ window = [a \in Anchors |-> [entered |-> 0, guesses |-> 0, added |-> 0]]

Put(f, x, y) == [z \in DOMAIN f \cup {x} |-> IF z = x THEN y ELSE f[z]]
Remove(f, S) == Restrict(f, DOMAIN f \ S)

-----------------------------------------------------------------------------
(***************************************************************************)
(* prune_expired_tentative_device_registrations comes first everywhere.    *)
(***************************************************************************)

LiveModes == {a \in DOMAIN registrations : registrations[a].expiration > now}

\* The maps after pruning.
Modes == Restrict(registrations, LiveModes)
Lookup == Remove(lookup, {registrations[a].id :
                             a \in DOMAIN registrations \ LiveModes})

\* Mutant: the lookup table is not cleaned.
EndModeOnly(a) ==
    /\ registrations' = Remove(Modes, {a})
    /\ lookup' = Lookup

\* A mode ends: both maps forget it.
EndMode(a) ==
    /\ registrations' = Remove(Modes, {a})
    /\ lookup' = Remove(Lookup, {Modes[a].id})

SetState(a, state) ==
    /\ registrations' = [Modes EXCEPT ![a].state = state]
    /\ lookup' = Lookup

\* Any call that prunes and then changes nothing: it is refused, or asks only.
Prune == /\ registrations' = Modes
         /\ lookup' = Lookup
         /\ UNCHANGED <<now, devices, pubkeyIndex, pending, window>>

-----------------------------------------------------------------------------
(***************************************************************************)
(* The devices of an anchor: storage.write and its index of public keys,   *)
(* and the owner's own changes.                                            *)
(***************************************************************************)

\* A key that is taken is not taken over; only its owner gives it up.
Write(a, ds) ==
    LET removed == {d \in devices[a] \ ds : d \in DOMAIN pubkeyIndex
                                              /\ pubkeyIndex[d] = a}
        added == (ds \ devices[a]) \ DOMAIN pubkeyIndex
        kept == Remove(pubkeyIndex, removed)
    IN  /\ devices' = [devices EXCEPT ![a] = ds]
        /\ pubkeyIndex' = [d \in DOMAIN kept \cup added |->
                              IF d \in added THEN a ELSE kept[d]]

\* check_passkey_pubkey_is_not_used
NotUsed(d) == d \notin DOMAIN pubkeyIndex

AddDevice(a, d) ==
    /\ NotUsed(d)
    /\ d \notin devices[a]
    /\ Write(a, devices[a] \cup {d})
    /\ UNCHANGED <<now, registrations, lookup, pending, window>>

RemoveDevice(a, d) ==
    /\ d \in devices[a]
    /\ Write(a, devices[a] \ {d})
    /\ UNCHANGED <<now, registrations, lookup, pending, window>>

-----------------------------------------------------------------------------
(***************************************************************************)
(* The registration mode.                                                  *)
(***************************************************************************)

TooManyModes == Cardinality(LiveModes) >= MaxModes

\* An id in use by another anchor is taken over.
Enter(a, id) ==
    /\ ~TooManyModes
    /\ a \notin LiveModes
    /\ registrations' = Put(Modes, a, [expiration |-> now + Duration,
                                       id |-> id, state |-> Active])
    /\ lookup' = IF id = NoId THEN Lookup ELSE Put(Lookup, id, a)
    /\ window' = [window EXCEPT ![a] = [entered |-> now, guesses |-> 0, added |-> 0]]
    /\ UNCHANGED <<now, devices, pubkeyIndex, pending>>

\* exit_device_registration_mode by the owner.
ExitByOwner(a) ==
    /\ a \in LiveModes
    /\ EndMode(a)
    /\ UNCHANGED <<now, devices, pubkeyIndex, pending, window>>

\* add_tentative_device and add_tentative_session up to the await.  The caller
\* needs no authorization, nor need there be a registration mode yet.
RequestCode(a, s, c) ==
    /\ c \notin DOMAIN pending
    /\ pending' = Put(pending, c, [anchor |-> a, subject |-> s])
    /\ UNCHANGED <<now, devices, pubkeyIndex, registrations, lookup, window>>

\* Mutant: a newcomer replaces the one that was there.
AnyMode(a) == a \in LiveModes

Registrable(a) == a \in LiveModes /\ registrations[a].state = Active

\* The rest of it; if it fails it still prunes.
CodeCreated(c) ==
    /\ c \in DOMAIN pending
    /\ LET a == pending[c].anchor
           s == pending[c].subject
       IN  IF Registrable(a) /\ (s \in Devices => NotUsed(s))
           THEN SetState(a, Added(s))
           ELSE registrations' = Modes /\ lookup' = Lookup
    /\ pending' = Remove(pending, {c})
    /\ UNCHANGED <<now, devices, pubkeyIndex, window>>

\* raw_rand fails and the call traps.
CodeFailed(c) ==
    /\ c \in DOMAIN pending
    /\ pending' = Remove(pending, {c})
    /\ UNCHANGED <<now, devices, pubkeyIndex, registrations, lookup, window>>

\* A device or session waits for its confirmation code.
Waiting(a, s) == a \in LiveModes /\ registrations[a].state.kind = "added"
                    /\ s \in registrations[a].state.subjects

\* confirm_tentative_device_or_session with the right code, then add_device,
\* which traps, and so undoes everything, if the anchor has the device.
ConfirmDevice(a, d) ==
    /\ Waiting(a, d)
    /\ d \notin devices[a]
    /\ EndMode(a)
    /\ Write(a, devices[a] \cup {d})
    /\ window' = [window EXCEPT ![a].added = @ + 1]
    /\ UNCHANGED <<now, pending>>

ConfirmSession(a, s) ==
    /\ Waiting(a, s)
    /\ SetState(a, Confirmed(s))
    /\ UNCHANGED <<now, devices, pubkeyIndex, pending, window>>

LastAttempt(n) == n >= MaxAttempts

WrongCode(a) ==
    /\ \E s \in Subjects : Waiting(a, s)
    /\ LET n == registrations[a].state.attempts + 1
       IN  IF LastAttempt(n) THEN EndMode(a)
           ELSE SetState(a, [registrations[a].state EXCEPT !.attempts = n])
    /\ window' = [window EXCEPT ![a].guesses = @ + 1]
    /\ UNCHANGED <<now, devices, pubkeyIndex, pending>>

\* authn_method_registration_mode_exit by the confirmed session.
ExitWithDevice(a, d) ==
    /\ a \in LiveModes
    /\ registrations[a].state.kind = "confirmed"
    /\ NotUsed(d)
    /\ d \notin devices[a]
    /\ EndMode(a)
    /\ Write(a, devices[a] \cup {d})
    /\ window' = [window EXCEPT ![a].added = @ + 1]
    /\ UNCHANGED <<now, pending>>

Tick == /\ now < MaxTime
        /\ now' = now + 1
        /\ UNCHANGED <<devices, pubkeyIndex, registrations, lookup, pending, window>>

\* The registrations are in heap memory.
Upgrade ==
    /\ registrations' = Empty
    /\ lookup' = Empty
    /\ pending' = Empty
    /\ UNCHANGED <<now, devices, pubkeyIndex, window>>

Next ==
    \/ Prune
    \/ \E a \in Anchors :
          \/ ExitByOwner(a)
          \/ WrongCode(a)
          \/ \E id \in RegIds \cup {NoId} : Enter(a, id)
          \/ \E d \in Devices : \/ AddDevice(a, d)
                                \/ RemoveDevice(a, d)
                                \/ ConfirmDevice(a, d)
                                \/ ExitWithDevice(a, d)
          \/ \E s \in Sessions : ConfirmSession(a, s)
          \/ \E s \in Subjects, c \in Calls : RequestCode(a, s, c)
    \/ \E c \in Calls : CodeCreated(c) \/ CodeFailed(c)
    \/ Tick
    \/ Upgrade

Spec == Init /\ [][Next]_vars

-----------------------------------------------------------------------------
(***************************************************************************)
(* Properties.                                                             *)
(***************************************************************************)

\* lookup_by_registration_mode_id never leads to an anchor that did not choose
\* that id: the two maps are changed together, also when two anchors choose
\* the same id.
LookupIsSound ==
    \A id \in DOMAIN lookup :
        /\ lookup[id] \in DOMAIN registrations
        /\ registrations[lookup[id]].id = id

\* The owner confirms what the device showed: as long as the mode lasts, no
\* other caller takes the place of a tentative device or session.
NoSubstitutionStep ==
    \A a \in LiveModes \cap DOMAIN registrations' :
       registrations[a].state.subjects
           \subseteq registrations'[a].state.subjects

\* At most MaxAttempts wrong codes are accepted in one registration mode.
GuessesBounded == \A a \in Anchors : window[a].guesses <= MaxAttempts

\* "If the flow is aborted or not completed within 15 minutes, the tentative
\* device is discarded": only one device is added for each time that the owner
\* enters the mode, within Duration, and never after the last wrong code.
AddedWithinWindowStep ==
    \A a \in Anchors : window'[a].added > window[a].added =>
       /\ window[a].added = 0
       /\ now < window[a].entered + Duration
       /\ window[a].guesses < MaxAttempts

\* "enforce global uniqueness of passkey pubkeys when adding devices directly
\* or via the tentative-device flow."
PasskeysAreUnique ==
    \A a, b \in Anchors : a # b => devices[a] \cap devices[b] = {}

=============================================================================
