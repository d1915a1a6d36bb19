------------------------------ MODULE TempKeys ------------------------------
(***************************************************************************)
(* Temporary keys (state/temp_keys.rs): for ten minutes after a device was *)
(* added, the principal that added it may act in lieu of the device.  Keys *)
(* live in a map; a queue of expirations makes pruning cheap.  Removing a  *)
(* device removes its key from the map but not from the queue.             *)
(*                                                                         *)
(* The actions are the canister methods that add keys, remove devices or   *)
(* check a caller.  Which identities share a device is of no importance    *)
(* here, so nothing checks that a device is new to all identities.         *)
(***************************************************************************)
EXTENDS Integers, Sequences, FiniteSets, FiniteSetsExt, Functions

CONSTANTS
    Principals,     \* callers
    Devices,        \* device public keys
    KeyExpiration,  \* TEMP_KEY_EXPIRATION_NS
    MaxToPrune,     \* MAX_TO_PRUNE
    MaxIdentities,  \* bound: identities that are registered
    MaxAdded,       \* bound: temporary keys in the queue
    MaxTime         \* bound on the clock

VARIABLES
    now,            \* time()
    devices,        \* the devices of each identity
    tempKeys,       \* temp_keys: <<identity, device>> |-> [principal, expiration]
    keyExpirations  \* expirations: a queue of [key, expiration]

vars == <<now, devices, tempKeys, keyExpirations>>

Identities == 1..MaxIdentities
Keys == Identities \X Devices

TypeOK ==
    /\ now \in Nat
    /\ DOMAIN devices \subseteq Identities
    /\ \A i \in DOMAIN devices : devices[i] \subseteq Devices
    /\ DOMAIN tempKeys \subseteq Keys
    /\ \A k \in DOMAIN tempKeys :
          tempKeys[k] \in [principal : Principals, expiration : Nat]
    /\ keyExpirations \in Seq([key : Keys, expiration : Nat])

NoKeys == [k \in {} |-> now]

Init ==
    /\ now = 0
    /\ devices = [i \in {} |-> {}]
    /\ tempKeys = NoKeys
    /\ keyExpirations = <<>>

Put(f, x, y) == [z \in DOMAIN f \cup {x} |-> IF z = x THEN y ELSE f[z]]

-----------------------------------------------------------------------------
(***************************************************************************)
(* struct TempKeys.                                                        *)
(***************************************************************************)

AddTempKey(i, d, p) ==
    /\ tempKeys' = Put(tempKeys, <<i, d>>,
                       [principal |-> p, expiration |-> now + KeyExpiration])
    /\ keyExpirations' = Append(keyExpirations,
                       [key |-> <<i, d>>, expiration |-> now + KeyExpiration])

\* Mutant: the key survives its device.
KeepTempKey(keys, k) == keys

RemoveTempKey(keys, k) == Restrict(keys, DOMAIN keys \ {k})

\* How many entries prune_expired_keys takes from the front of the queue.
PruneCount ==
    Max({n \in 0..Min({MaxToPrune, Len(keyExpirations)}) :
            \A j \in 1..n : keyExpirations[j].expiration <= now})

KeysAfterPrune ==
    Restrict(tempKeys, DOMAIN tempKeys \
                       {keyExpirations[j].key : j \in 1..PruneCount})

QueueAfterPrune == SubSeq(keyExpirations, PruneCount + 1, Len(keyExpirations))

-----------------------------------------------------------------------------
(***************************************************************************)
(* The canister methods.                                                   *)
(***************************************************************************)

\* register and identity_registration_finish: a new identity with a device.
Register(d, p) ==
    LET i == Cardinality(DOMAIN devices) + 1
    IN  /\ i <= MaxIdentities
        /\ Len(keyExpirations) < MaxAdded
        /\ devices' = Put(devices, i, {d})
        /\ AddTempKey(i, d, p)
        /\ UNCHANGED now

\* authn_method_registration_mode_exit by a confirmed session: the session
\* adds a device and becomes its temporary key.
ExitRegistrationMode(i, d, p) ==
    /\ Len(keyExpirations) < MaxAdded
    /\ d \notin devices[i]
    /\ devices' = [devices EXCEPT ![i] = @ \cup {d}]
    /\ AddTempKey(i, d, p)
    /\ UNCHANGED now

\* check_authorization compares the caller with the devices one by one: the
\* caller is the first device, or check_temp_key is called and prunes.
Authorize(pruned) ==
    IF pruned THEN /\ tempKeys' = KeysAfterPrune
                   /\ keyExpirations' = QueueAfterPrune
              ELSE UNCHANGED <<tempKeys, keyExpirations>>

\* Any method that authorizes its caller and leaves the devices alone.
Authenticate == Authorize(TRUE) /\ UNCHANGED <<now, devices>>

\* add, verify_tentative_device, authn_method_confirm: no temporary key.
AddDevice(i, d, pruned) ==
    /\ d \notin devices[i]
    /\ devices' = [devices EXCEPT ![i] = @ \cup {d}]
    /\ Authorize(pruned)
    /\ UNCHANGED now

Authorized(pruned) == IF pruned THEN KeysAfterPrune ELSE tempKeys

RemoveDevice(i, d, pruned) ==
    /\ d \in devices[i]
    /\ devices' = [devices EXCEPT ![i] = @ \ {d}]
    /\ tempKeys' = RemoveTempKey(Authorized(pruned), <<i, d>>)
    /\ keyExpirations' = IF pruned THEN QueueAfterPrune ELSE keyExpirations
    /\ UNCHANGED now

\* The new device may be the old one, with other data.
ReplaceDevice(i, old, new, pruned) ==
    /\ old \in devices[i]
    /\ new \notin devices[i] \ {old}
    /\ devices' = [devices EXCEPT ![i] = (@ \ {old}) \cup {new}]
    /\ tempKeys' = RemoveTempKey(Authorized(pruned), <<i, old>>)
    /\ keyExpirations' = IF pruned THEN QueueAfterPrune ELSE keyExpirations
    /\ UNCHANGED now

Tick == /\ now < MaxTime
        /\ now' = now + 1
        /\ UNCHANGED <<devices, tempKeys, keyExpirations>>

\* The keys are in heap memory.
Upgrade == /\ tempKeys' = NoKeys
           /\ keyExpirations' = <<>>
           /\ UNCHANGED <<now, devices>>

Next ==
    \/ \E d \in Devices, p \in Principals : Register(d, p)
    \/ \E i \in DOMAIN devices, d \in Devices :
          \/ \E p \in Principals : ExitRegistrationMode(i, d, p)
          \/ \E pruned \in BOOLEAN :
                \/ AddDevice(i, d, pruned)
                \/ RemoveDevice(i, d, pruned)
                \/ \E new \in Devices : ReplaceDevice(i, d, new, pruned)
    \/ Authenticate
    \/ Tick
    \/ Upgrade

Spec == Init /\ [][Next]_vars

-----------------------------------------------------------------------------
(***************************************************************************)
(* Properties.                                                             *)
(***************************************************************************)

\* "the temporary key is dropped if the device itself is removed": every key
\* belongs to a device that its identity still has.
KeyNeedsDevice == \A k \in DOMAIN tempKeys : k[2] \in devices[k[1]]

\* Every key in the map has its own expiration in the queue: no key is
\* forgotten in the map, however often it was removed and added again.
EveryKeyExpires ==
    \A k \in DOMAIN tempKeys : \E j \in 1..Len(keyExpirations) :
        keyExpirations[j] = [key |-> k, expiration |-> tempKeys[k].expiration]

=============================================================================
