---------------------------- MODULE DeviceRecords ----------------------------
(***************************************************************************)
(* What becomes of a device in stable memory and in the archive            *)
(* (storage/anchor.rs, special_device_migration.rs, archive.rs).           *)
(*                                                                         *)
(* Every operation reads the whole anchor from its record, changes it, and *)
(* writes it back.  The record has two kinds of entries, passkeys and      *)
(* recovery keys, with fewer fields than a device: what an ordinary        *)
(* passkey or recovery phrase implies is not stored, and all other devices *)
(* carry a special_device_migration with what they had.  The archive gets  *)
(* new devices in full and changed ones as differences, which its readers  *)
(* put together again.                                                     *)
(*                                                                         *)
(* One anchor.  Alias, aaguid and metadata are left out (the metadata is   *)
(* not stored), and so is the order of the devices.                        *)
(***************************************************************************)
EXTENDS Naturals, FiniteSets, Functions

CONSTANTS
    Keys,           \* public keys of the devices
    CredIds,        \* credential ids
    NoCred,         \* no credential id
    Dummy,          \* the credential id 0xdeadbeef
    DeviceOrigins,  \* origins that devices name
    NoOrigin,       \* no origin
    LegacyOrigin,   \* "https://identity.ic0.app", the origin if there is none
    KeyTypes,       \* some of the KeyType
    MaxDevices      \* MAX_DEVICES_PER_ANCHOR

PasskeyTypes == {"platform", "cross_platform", "unknown"}

DeviceRecordsAssumption ==
    /\ NoCred \notin CredIds \cup {Dummy}
    /\ NoOrigin \notin DeviceOrigins \cup {LegacyOrigin}
    /\ KeyTypes \subseteq PasskeyTypes \cup {"seed_phrase", "browser_storage_key"}
    /\ MaxDevices \in Nat

VARIABLES
    passkeys,       \* StorableAnchor.passkey_credentials, by public key
    recoveryKeys,   \* StorableAnchor.recovery_keys, by public key
    given,          \* history: each device as its last call gave it
    archived        \* history: each device as the archive's entries tell it

vars == <<passkeys, recoveryKeys, given, archived>>

\* DeviceData, as far as check_device_invariants admits it.
DeviceData ==
    {d \in [cred : CredIds \cup {NoCred}, purpose : {"recovery", "authentication"},
            keyType : KeyTypes, protected : BOOLEAN,
            origin : DeviceOrigins \cup {NoOrigin}] :
        /\ d.keyType = "seed_phrase" => d.cred = NoCred
        /\ d.protected => d.keyType = "seed_phrase"}

Empty == [k \in {} |-> 0]
Put(f, x, y) == [z \in DOMAIN f \cup {x} |-> IF z = x THEN y ELSE f[z]]
Remove(f, x) == Restrict(f, DOMAIN f \ {x})

-----------------------------------------------------------------------------
(***************************************************************************)
(* From a device to its record, and back.                                  *)
(***************************************************************************)

OrdinaryPhrase(d) ==
    /\ d.cred = NoCred /\ d.purpose = "recovery"
    /\ d.keyType = "seed_phrase" /\ d.origin = NoOrigin

\* Mutant: an origin is taken for granted.
OrdinaryPasskeyOfAnyOrigin(d) ==
    d.cred # NoCred /\ d.purpose = "authentication" /\ d.keyType \in PasskeyTypes

OrdinaryPasskey(d) ==
    /\ d.cred # NoCred /\ d.purpose = "authentication"
    /\ d.keyType \in PasskeyTypes /\ d.origin # NoOrigin

\* SpecialDeviceMigration
Migration(d) == Restrict(d, {"cred", "purpose", "keyType", "origin"})

\* special_device_migration: none, or all that the record does not imply.
Special(d) ==
    IF OrdinaryPhrase(d) \/ OrdinaryPasskey(d) THEN {} ELSE {Migration(d)}

\* Keys of the PIN flow get a credential id, so that they are stored as passkeys.
StoredCred(d) ==
    IF d.cred = NoCred /\ d.keyType = "browser_storage_key" THEN Dummy ELSE d.cred

PasskeyRecord(d) ==
    [cred |-> StoredCred(d),
     origin |-> IF d.origin = NoOrigin THEN LegacyOrigin ELSE d.origin,
     used |-> d.used, special |-> Special(d)]

RecoveryKeyRecord(d) ==
    [protected |-> d.protected, used |-> d.used, special |-> Special(d)]

\* From<Anchor> for (StorableFixedAnchor, StorableAnchor), of which only the
\* second is written.
StoredPasskeys(ds) ==
    [k \in {k \in DOMAIN ds : StoredCred(ds[k]) # NoCred} |-> PasskeyRecord(ds[k])]

StoredRecoveryKeys(ds) ==
    [k \in {k \in DOMAIN ds : StoredCred(ds[k]) = NoCred} |-> RecoveryKeyRecord(ds[k])]

Device(special, ordinary, protected, used) ==
    LET s == IF special = {} THEN ordinary ELSE CHOOSE s \in special : TRUE
    IN  [cred |-> s.cred, purpose |-> s.purpose, keyType |-> s.keyType,
         origin |-> s.origin, protected |-> protected, used |-> used]

\* From<(AnchorNumber, StorableAnchor)> for Anchor
PasskeyRead(p) ==
    Device(p.special,
           [cred |-> p.cred, purpose |-> "authentication", keyType |-> "cross_platform",
            origin |-> p.origin],
           FALSE, p.used)

RecoveryKeyRead(r) ==
    Device(r.special,
           [cred |-> NoCred, purpose |-> "recovery", keyType |-> "seed_phrase",
            origin |-> NoOrigin],
           r.protected, r.used)

\* Storage::read
Devices ==
    [k \in DOMAIN passkeys \cup DOMAIN recoveryKeys |->
        IF k \in DOMAIN passkeys THEN PasskeyRead(passkeys[k])
        ELSE RecoveryKeyRead(recoveryKeys[k])]

\* Storage::write
Write(ds) ==
    /\ passkeys' = StoredPasskeys(ds)
    /\ recoveryKeys' = StoredRecoveryKeys(ds)

-----------------------------------------------------------------------------
(***************************************************************************)
(* What the archive's readers learn.                                       *)
(***************************************************************************)

ArchivedFields == {"cred", "purpose", "keyType", "protected", "origin"}

\* DeviceDataWithoutAlias
Archived(d) == Restrict(d, ArchivedFields)

\* device_diff: a field is there if it has changed, and none has the value
\* None to say so, except for the origin.
DeviceDiff(old, new) ==
    Restrict(new, {f \in ArchivedFields :
                      new[f] # old[f] /\ (f = "cred" => new[f] # NoCred)})

\* A reader changes what is there.
Apply(diff, d) == [f \in DOMAIN d |-> IF f \in DOMAIN diff THEN diff[f] ELSE d[f]]

-----------------------------------------------------------------------------
(***************************************************************************)
(* The operations.                                                         *)
(***************************************************************************)

\* activity_bookkeeping: the device that authorizes the call (in person or
\* with its temporary key; none in case of an OpenID credential).
Callers == {{}} \cup {{c} : c \in DOMAIN Devices}

WithUsage(ds, caller) ==
    [k \in DOMAIN ds |-> [ds[k] EXCEPT !.used = @ \/ k \in caller]]

\* Device::from(DeviceData)
NewDevice(d) ==
    [cred |-> d.cred, purpose |-> d.purpose, keyType |-> d.keyType,
     origin |-> d.origin, protected |-> d.protected, used |-> FALSE]

\* apply_device_data
ApplyDeviceData(device, d) == [NewDevice(d) EXCEPT !.used = device.used]

\* check_anchor_invariants
AnchorInvariants(ds) ==
    /\ Cardinality(DOMAIN ds) <= MaxDevices
    /\ Cardinality({k \in DOMAIN ds : ds[k].keyType = "seed_phrase"}) <= 1

\* check_mutation_allowed
MutationAllowed(device, k, caller) == device.protected => caller = {k}

\* The anchor has been registered, with a device or with an OpenID credential.
Init ==
    \E ds \in {Empty} \cup {Put(Empty, k, [NewDevice(d) EXCEPT !.used = TRUE]) :
                              k \in Keys, d \in DeviceData} :
       /\ passkeys = StoredPasskeys(ds)
       /\ recoveryKeys = StoredRecoveryKeys(ds)
       /\ given = ds
       /\ archived = [k \in DOMAIN ds |-> Archived(ds[k])]

\* add, verify_tentative_device
AddDevice(caller, k, d) ==
    LET ds == Put(WithUsage(Devices, caller), k, NewDevice(d))
    IN  /\ k \notin DOMAIN Devices
        /\ AnchorInvariants(ds)
        /\ Write(ds)
        /\ given' = Put(WithUsage(given, caller), k, NewDevice(d))
        /\ archived' = Put(archived, k, Archived(NewDevice(d)))

\* update
UpdateDevice(caller, k, d) ==
    LET used == WithUsage(Devices, caller)
        new == ApplyDeviceData(used[k], d)
        ds == Put(used, k, new)
    IN  /\ k \in DOMAIN Devices
        /\ MutationAllowed(Devices[k], k, caller)
        /\ AnchorInvariants(ds)
        /\ Write(ds)
        /\ given' = Put(WithUsage(given, caller), k,
                        ApplyDeviceData(WithUsage(given, caller)[k], d))
        /\ archived' = Put(archived, k, Apply(DeviceDiff(used[k], new), archived[k]))

\* replace
ReplaceDevice(caller, old, k, d) ==
    LET ds == Put(Remove(WithUsage(Devices, caller), old), k, NewDevice(d))
    IN  /\ old \in DOMAIN Devices
        /\ k \notin DOMAIN Devices \ {old}
        /\ MutationAllowed(Devices[old], old, caller)
        /\ AnchorInvariants(ds)
        /\ Write(ds)
        /\ given' = Put(Remove(WithUsage(given, caller), old), k, NewDevice(d))
        /\ archived' = Put(Remove(archived, old), k, Archived(NewDevice(d)))

\* remove
RemoveDevice(caller, k) ==
    /\ k \in DOMAIN Devices
    /\ MutationAllowed(Devices[k], k, caller)
    /\ Write(Remove(WithUsage(Devices, caller), k))
    /\ given' = Remove(WithUsage(given, caller), k)
    /\ archived' = Remove(archived, k)

\* check_authz_and_record_activity
RecordActivity(caller) ==
    /\ Write(WithUsage(Devices, caller))
    /\ given' = WithUsage(given, caller)
    /\ UNCHANGED archived

Next ==
    \E caller \in Callers :
       \/ RecordActivity(caller)
       \/ \E k \in Keys :
             \/ RemoveDevice(caller, k)
             \/ \E d \in DeviceData :
                   \/ AddDevice(caller, k, d)
                   \/ UpdateDevice(caller, k, d)
                   \/ \E old \in Keys : ReplaceDevice(caller, old, k, d)

Spec == Init /\ [][Next]_vars

-----------------------------------------------------------------------------
(***************************************************************************)
(* Properties.                                                             *)
(***************************************************************************)

TypeOK ==
    /\ DOMAIN passkeys \cup DOMAIN recoveryKeys \subseteq Keys
    /\ DOMAIN passkeys \cap DOMAIN recoveryKeys = {}
    /\ DOMAIN given = DOMAIN Devices
    /\ DOMAIN archived = DOMAIN Devices
    /\ \A k \in DOMAIN passkeys : passkeys[k].cred # NoCred

\* What kind of authenticator a passkey is is not kept.
SameType(t, u) == t = u \/ {t, u} \subseteq PasskeyTypes

\* However often the anchor has been read and written, a device is what its
\* last call made it: no field is lost in the conversions, and no usage.
DevicesAreKept ==
    \A k \in DOMAIN Devices :
       LET d == Devices[k]
           g == given[k]
       IN  /\ d.cred = g.cred /\ d.purpose = g.purpose /\ d.origin = g.origin
           /\ (d.protected <=> g.protected) /\ (d.used <=> g.used)
           /\ SameType(d.keyType, g.keyType)

\* What the archive tells of a field is what the device has.
Told(d, e, f) == IF f = "keyType" THEN SameType(d[f], e[f]) ELSE d[f] = e[f]

\* The archive tells every field but the credential id as it is.
OtherFieldsAreTold ==
    \A k \in DOMAIN Devices : \A f \in ArchivedFields \ {"cred"} :
       Told(archived[k], Devices[k], f)

=============================================================================
