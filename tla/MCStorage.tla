------------------------------ MODULE MCStorage ------------------------------
(***************************************************************************)
(* Four parts of the stable storage on small instances: the anchors with   *)
(* the indices of their devices (AnchorStorage), the record of one anchor  *)
(* (DeviceRecords), their accounts (Accounts), and the index of their      *)
(* OpenID credentials (OpenIdIndex), which starts either empty or with the *)
(* entries of an old version (and then without a salt, as delegations are  *)
(* a matter of the other). They share no state (AnchorStorage abstracts    *)
(* from the records), so a behaviour of this module is one of one of them. *)
(* The accounts, whose properties are Accounts' own, stay as they are at   *)
(* first in the behaviours of the others.                                  *)
(***************************************************************************)
EXTENDS Accounts, TLC

CONSTANTS
    \* AnchorStorage
    Keys, CredIds, NoCred, Other, MaxDevices, MaxEntries, MaxAnchorNumber,
    \* DeviceRecords
    RecordKeys, RecordOrigins, Dummy, LegacyOrigin, NoOrigin, KeyTypes,
    \* OpenIdIndex
    Persons, Auds, MaxAnchors, MaxLinked, BatchSize, Calls, NoSalt, OldSalt

VARIABLES
    part,   \* "devices", "records", "accounts", "new credentials" or "old credentials"
    range, numAnchors, anchors, pubkeyIndex, credIndex, recoveryIndex, caller,
    passkeys, recoveryKeys, given, archived,
    creds, index, legacy, done, salt, pending, answer, contested

Devices == INSTANCE AnchorStorage WITH MaxNumber <- MaxAnchorNumber
Records == INSTANCE DeviceRecords WITH
    Keys <- RecordKeys, DeviceOrigins <- RecordOrigins
New == INSTANCE OpenIdIndex WITH LegacyPersons <- {}, OldAnchors <- 0
Old == INSTANCE OpenIdIndex WITH
    LegacyPersons <- Persons, OldAnchors <- MaxAnchors, Calls <- {}

ASSUME MCStorageAssumption ==
    /\ Devices!AnchorStorageAssumption
    /\ Records!DeviceRecordsAssumption
    /\ New!OpenIdIndexAssumption
    /\ Old!OpenIdIndexAssumption

deviceVars == <<range, numAnchors, anchors, pubkeyIndex, credIndex, recoveryIndex, caller>>
recordVars == <<passkeys, recoveryKeys, given, archived>>
openIdVars == <<creds, index, legacy, done, salt, pending, answer, contested>>
storageVars == <<part, deviceVars, recordVars, vars, openIdVars>>

NoDevices ==
    /\ range = <<>> /\ numAnchors = 0 /\ anchors = <<>>
    /\ pubkeyIndex = <<>> /\ credIndex = <<>> /\ recoveryIndex = <<>> /\ caller = Other
NoRecords == passkeys = <<>> /\ recoveryKeys = <<>> /\ given = <<>> /\ archived = <<>>
NoOpenId ==
    /\ creds = <<>> /\ index = <<>> /\ legacy = <<>> /\ done = TRUE
    /\ salt = NoSalt /\ pending = <<>> /\ answer = {} /\ contested = {}

StorageInit ==
    /\ Init
    /\ \/ part = "devices" /\ Devices!Init /\ NoRecords /\ NoOpenId
       \/ part = "records" /\ Records!Init /\ NoDevices /\ NoOpenId
       \/ part = "accounts" /\ NoDevices /\ NoRecords /\ NoOpenId
       \/ part = "new credentials" /\ New!Init /\ NoDevices /\ NoRecords
       \/ part = "old credentials" /\ Old!Init /\ salt = NoSalt /\ NoDevices /\ NoRecords

StorageNext ==
    /\ UNCHANGED part
    /\ \/ /\ part = "devices" /\ Devices!Next
          /\ UNCHANGED <<recordVars, vars, openIdVars>>
       \/ /\ part = "records" /\ Records!Next
          /\ UNCHANGED <<deviceVars, vars, openIdVars>>
       \/ /\ part = "accounts" /\ Next
          /\ UNCHANGED <<deviceVars, recordVars, openIdVars>>
       \/ /\ part = "new credentials" /\ New!Next
          /\ UNCHANGED <<deviceVars, recordVars, vars>>
       \/ /\ part = "old credentials" /\ Old!Next
          /\ UNCHANGED <<deviceVars, recordVars, vars>>

\* As in OpenIdIndex: the timer of the migration goes on firing.
MigrationGoesOn ==
    /\ part = "old credentials"
    /\ Old!RunMigrationBatch
    /\ UNCHANGED <<part, deviceVars, recordVars, vars>>

StorageSpec == StorageInit /\ [][StorageNext]_storageVars
FairStorageSpec == StorageSpec /\ WF_storageVars(MigrationGoesOn)

\* Liveness is a matter of "old credentials", where none of these values occurs.
Symmetry == Permutations(Keys) \cup Permutations(CredIds) \cup Permutations(RecordKeys)

-----------------------------------------------------------------------------
(***************************************************************************)
(* The properties of the parts, see there.                                 *)
(***************************************************************************)

\* AnchorStorage: the indices of device keys, credential ids and recovery keys
\* lead to anchors that have them.
IndicesAreSound ==
    part = "devices" => Devices!TypeOK /\ Devices!IndicesAreSound

\* AnchorStorage: no anchor can take an entry, or a protected phrase, from
\* another, and activity brings back entries that were taken earlier.
EntriesAreKept ==
    [][part = "devices" =>
          /\ Devices!EntriesAreKeptStep
          /\ Devices!ActivityRestoresIndicesStep
          /\ Devices!ProtectedIsProtectedStep]_storageVars

\* DeviceRecords: a device survives every read and write of its anchor as it
\* was given, and the archive tells all of it but the removal of a credential
\* id.
DevicesAreKept ==
    part = "records" =>
        Records!TypeOK /\ Records!DevicesAreKept /\ Records!OtherFieldsAreTold

\* OpenIdIndex: the index has exactly the credentials of the anchors; those of
\* an old version when its migration is done.
IndexIsExact ==
    /\ part = "new credentials" => New!TypeOK /\ New!IndexIsExact
    /\ part = "old credentials" => Old!TypeOK /\ Old!IndexIsExact /\ Old!DoneMeansMigrated

\* OpenIdIndex: no delegation for a credential that was removed meanwhile.
AnswersAreCurrent == part = "new credentials" => New!AnswersAreCurrent

\* OpenIdIndex: the migration comes to an end.
LegacyIsMigrated == part = "old credentials" => Old!LegacyIsMigrated

\* OpenIdIndex: a credential is in one anchor, after the migration, too.
ExistsInOneAnchor == part = "old credentials" => Old!ExistsInOneAnchor

=============================================================================
