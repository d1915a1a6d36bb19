---------------------------- MODULE AnchorStorage ----------------------------
(***************************************************************************)
(* The identities (anchors) in stable memory and the indices of their      *)
(* devices (storage.rs, storage/anchor.rs).                                *)
(*                                                                         *)
(* A device is known by its public key.  With a credential id it is stored *)
(* as a passkey, else as a recovery key; a recovery phrase may be          *)
(* protected, so that only the phrase itself may change it.  (A browser    *)
(* storage key without credential id is stored as a passkey with a dummy   *)
(* credential id: one of CredIds, which anchors may share in any case.)    *)
(* Every write of an anchor synchronizes three indices.                    *)
(* The OpenID credentials and their index are the module OpenIdIndex.      *)
(***************************************************************************)
EXTENDS Integers, FiniteSets, Functions

CONSTANTS
    Keys,           \* public keys of devices, and the principals they sign for
    CredIds,        \* credential ids of passkeys
    NoCred,         \* no credential id
    Other,          \* a caller authorized by a temporary key or by OpenID
    MaxDevices,     \* MAX_DEVICES_PER_ANCHOR
    MaxEntries,     \* MAX_ENTRIES
    MaxNumber       \* bound on the anchor numbers

AnchorStorageAssumption ==
    /\ NoCred \notin CredIds
    /\ Other \notin Keys
    /\ MaxDevices \in Nat \ {0}
    /\ MaxEntries \in Nat
    /\ MaxNumber \in Nat

VARIABLES
    range,          \* header: the range of anchor numbers [lo, hi)
    numAnchors,     \* header: num_anchors
    anchors,        \* stable_anchor_memory: number |-> devices
    pubkeyIndex,    \* lookup_anchor_with_passkey_pubkey_hash_memory
    credIndex,      \* lookup_anchor_with_passkey_credential_memory
    recoveryIndex,  \* lookup_anchor_with_recovery_phrase_principal_memory
    caller          \* history: the caller of the last step

indices == <<pubkeyIndex, credIndex, recoveryIndex>>
vars == <<range, numAnchors, anchors, indices, caller>>

Numbers == 0..MaxNumber

\* What check_device_invariants admits: only recovery phrases are protected,
\* and they have no credential id.
Device == {d \in [cred : CredIds \cup {NoCred}, phrase : BOOLEAN, protected : BOOLEAN] :
              /\ d.phrase => d.cred = NoCred
              /\ d.protected => d.phrase}

DeviceSets == UNION {[ks -> Device] : ks \in SUBSET Keys}

TypeOK ==
    /\ range \in {r \in Numbers \X Numbers : r[1] <= r[2]}
    /\ numAnchors \in 0..(range[2] - range[1])
    /\ DOMAIN anchors = range[1]..(range[1] + numAnchors - 1)
    /\ \A a \in DOMAIN anchors :
          /\ anchors[a] \in DeviceSets
          /\ Cardinality(DOMAIN anchors[a]) <= MaxDevices
    /\ DOMAIN pubkeyIndex \subseteq Keys
    /\ DOMAIN credIndex \subseteq CredIds
    /\ DOMAIN recoveryIndex \subseteq Keys
    /\ caller \in Keys \cup {Other}

Empty == [x \in {} |-> 0]

Init ==
    /\ range \in {r \in Numbers \X Numbers : r[1] <= r[2] /\ r[2] - r[1] <= MaxEntries}
    /\ numAnchors = 0
    /\ anchors = Empty
    /\ pubkeyIndex = Empty
    /\ credIndex = Empty
    /\ recoveryIndex = Empty
    /\ caller = Other

Put(f, x, y) == [z \in DOMAIN f \cup {x} |-> IF z = x THEN y ELSE f[z]]
Remove(f, S) == Restrict(f, DOMAIN f \ S)

-----------------------------------------------------------------------------
(***************************************************************************)
(* Storage: write and the synchronization of the indices.                  *)
(***************************************************************************)

PasskeysOf(ds) == {k \in DOMAIN ds : ds[k].cred # NoCred}
CredsOf(ds) == {ds[k].cred : k \in PasskeysOf(ds)}
RecoveryKeysOf(ds) == {k \in DOMAIN ds : ds[k].cred = NoCred}

\* Mutant: whoever gives up a key removes it from the index.
UnindexedByAnyone(index, a, gone) == Remove(index, gone)

\* Mutant: what is given up stays in the index.
StillIndexed(index, a, gone) == index

\* Only the anchor's own entries are removed.
Unindexed(index, a, gone) ==
    Remove(index, {x \in gone \cap DOMAIN index : index[x] = a})

\* Entries of other anchors are not overwritten.
Indexed(index, a, new) ==
    [x \in DOMAIN index \cup new |-> IF x \in DOMAIN index THEN index[x] ELSE a]

\* The index of public keys: what has been added.
SyncedAdded(index, a, previous, current) ==
    Indexed(Unindexed(index, a, previous \ current), a, current \ previous)

\* The other two: all there is, added by this write or not.
SyncedAll(index, a, previous, current) ==
    Indexed(Unindexed(index, a, previous \ current), a, current)

Previous(a) == IF a \in DOMAIN anchors THEN anchors[a] ELSE Empty

Write(a, ds) ==
    /\ anchors' = Put(anchors, a, ds)
    /\ recoveryIndex' = SyncedAll(recoveryIndex, a, RecoveryKeysOf(Previous(a)),
                                  RecoveryKeysOf(ds))
    /\ credIndex' = SyncedAll(credIndex, a, CredsOf(Previous(a)), CredsOf(ds))
    /\ pubkeyIndex' = SyncedAdded(pubkeyIndex, a, PasskeysOf(Previous(a)),
                                  PasskeysOf(ds))

\* lookup_anchor_with_passkey_pubkey finds none.
NotUsed(k) == k \notin DOMAIN pubkeyIndex

-----------------------------------------------------------------------------
(***************************************************************************)
(* Anchor: the checks of its devices.                                      *)
(***************************************************************************)

\* check_anchor_invariants; the limit on the size of the fields is left out.
AnchorInvariants(ds) ==
    /\ Cardinality(DOMAIN ds) <= MaxDevices
    /\ Cardinality({k \in DOMAIN ds : ds[k].phrase}) <= 1

\* check_mutation_allowed
MutationAllowed(d, k, c) == d.protected => c = k

\* check_authorization
Authorized(a, c) == c \in DOMAIN anchors[a] \cup {Other}

\* Anchor::add_device, then write.
AddChecked(a, ds, k, d) ==
    /\ k \notin DOMAIN ds
    /\ AnchorInvariants(Put(ds, k, d))
    /\ Write(a, Put(ds, k, d))

-----------------------------------------------------------------------------
(***************************************************************************)
(* The operations.                                                         *)
(***************************************************************************)

NextNumber == range[1] + numAnchors

\* register, by allocate_anchor: any public key.
Register(k, d) ==
    /\ NextNumber < range[2]
    /\ AddChecked(NextNumber, Empty, k, d)
    /\ numAnchors' = numAnchors + 1
    /\ caller' = k
    /\ UNCHANGED range

\* identity_registration_finish, by allocate_anchor_safe: a public key (if it
\* is that of a passkey) that is not used.
FinishRegistration(k, d) ==
    /\ d.cred # NoCred => NotUsed(k)
    /\ Register(k, d)

\* add: a public key that is not used.
Add(a, k, d, c) ==
    /\ Authorized(a, c)
    /\ NotUsed(k)
    /\ AddChecked(a, anchors[a], k, d)
    /\ caller' = c
    /\ UNCHANGED <<range, numAnchors>>

\* verify_tentative_device, authn_method_confirm: the public key was checked
\* when the device was added tentatively, which may have been a while ago.
AddTentative(a, k, d, c) ==
    /\ Authorized(a, c)
    /\ AddChecked(a, anchors[a], k, d)
    /\ caller' = c
    /\ UNCHANGED <<range, numAnchors>>

Update(a, k, d, c) ==
    /\ Authorized(a, c)
    /\ k \in DOMAIN anchors[a]
    /\ MutationAllowed(anchors[a][k], k, c)
    /\ AnchorInvariants(Put(anchors[a], k, d))
    /\ Write(a, Put(anchors[a], k, d))
    /\ caller' = c
    /\ UNCHANGED <<range, numAnchors>>

\* The new public key is the old one or not used.
Replace(a, old, k, d, c) ==
    /\ Authorized(a, c)
    /\ old \in DOMAIN anchors[a]
    /\ old # k => NotUsed(k)
    /\ MutationAllowed(anchors[a][old], old, c)
    /\ AddChecked(a, Remove(anchors[a], {old}), k, d)
    /\ caller' = c
    /\ UNCHANGED <<range, numAnchors>>

RemoveDevice(a, k, c) ==
    /\ Authorized(a, c)
    /\ k \in DOMAIN anchors[a]
    /\ MutationAllowed(anchors[a][k], k, c)
    /\ Write(a, Remove(anchors[a], {k}))
    /\ caller' = c
    /\ UNCHANGED <<range, numAnchors>>

\* check_authz_and_record_activity: a write that changes no device.
RecordActivity(a, c) ==
    /\ Authorized(a, c)
    /\ Write(a, anchors[a])
    /\ caller' = c
    /\ UNCHANGED <<range, numAnchors>>

RangeAllowed(lo, hi) ==
    /\ lo <= hi
    /\ hi - lo <= MaxEntries
    /\ numAnchors > 0 => lo = range[1] /\ hi - lo >= numAnchors

\* set_anchor_number_range, on an upgrade.
SetRange(lo, hi) ==
    /\ RangeAllowed(lo, hi)
    /\ range' = <<lo, hi>>
    /\ UNCHANGED <<numAnchors, anchors, indices, caller>>

Next ==
    \/ \E k \in Keys, d \in Device : Register(k, d) \/ FinishRegistration(k, d)
    \/ \E a \in DOMAIN anchors, c \in Keys \cup {Other} :
          \/ RecordActivity(a, c)
          \/ \E k \in Keys :
                \/ RemoveDevice(a, k, c)
                \/ \E d \in Device :
                      \/ Add(a, k, d, c)
                      \/ AddTentative(a, k, d, c)
                      \/ Update(a, k, d, c)
                      \/ \E old \in Keys : Replace(a, old, k, d, c)
    \/ \E lo, hi \in Numbers : SetRange(lo, hi)

Spec == Init /\ [][Next]_vars

-----------------------------------------------------------------------------
(***************************************************************************)
(* Properties.                                                             *)
(***************************************************************************)

\* Every entry of an index leads to an anchor that has the device.
IndicesAreSound ==
    /\ \A k \in DOMAIN pubkeyIndex :
          /\ pubkeyIndex[k] \in DOMAIN anchors
          /\ k \in PasskeysOf(anchors[pubkeyIndex[k]])
    /\ \A c \in DOMAIN credIndex :
          /\ credIndex[c] \in DOMAIN anchors
          /\ c \in CredsOf(anchors[credIndex[c]])
    /\ \A k \in DOMAIN recoveryIndex :
          /\ recoveryIndex[k] \in DOMAIN anchors
          /\ k \in RecoveryKeysOf(anchors[recoveryIndex[k]])

Keeps(index, newIndex, x) == x \in DOMAIN newIndex /\ newIndex[x] = index[x]

\* "Ensure that a user can remove only their own passkey pubkey": whatever one
\* anchor does, the entries of another stay as long as it has the device.
EntriesAreKeptStep ==
    /\ \A k \in DOMAIN pubkeyIndex :
          k \in PasskeysOf(anchors'[pubkeyIndex[k]])
              => Keeps(pubkeyIndex, pubkeyIndex', k)
    /\ \A c \in DOMAIN credIndex :
          c \in CredsOf(anchors'[credIndex[c]]) => Keeps(credIndex, credIndex', c)
    /\ \A k \in DOMAIN recoveryIndex :
          k \in RecoveryKeysOf(anchors'[recoveryIndex[k]])
              => Keeps(recoveryIndex, recoveryIndex', k)

\* After any activity of an anchor its recovery keys and credential ids are
\* found, even those that another anchor had occupied before.
ActivityRestoresIndicesStep ==
    \A a \in DOMAIN anchors, c \in Keys \cup {Other} :
       RecordActivity(a, c) =>
           /\ RecoveryKeysOf(anchors[a]) \subseteq DOMAIN recoveryIndex'
           /\ CredsOf(anchors[a]) \subseteq DOMAIN credIndex'

\* A protected recovery phrase is changed or removed by itself only, not by
\* another device of the anchor, on any path.
ProtectedIsProtectedStep ==
    \A a \in DOMAIN anchors : \A k \in DOMAIN anchors[a] :
       anchors[a][k].protected =>
           \/ k \in DOMAIN anchors'[a] /\ anchors'[a][k] = anchors[a][k]
           \/ caller' = k

=============================================================================
