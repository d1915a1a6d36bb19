---------------------------- MODULE StorageProofs ----------------------------
(***************************************************************************)
(* Proofs about the stable storage, for all keys, credential ids, origins, *)
(* limits and ranges of numbers: about the anchors with the indices of     *)
(* their devices (AnchorStorage), the record of an anchor (DeviceRecords), *)
(* the index of OpenID credentials (OpenIdIndex), each as one of the parts *)
(* of MCStorage, and their accounts (Accounts).  Every part has an         *)
(* inductive invariant of its own; the theorems at the end put them        *)
(* together.                                                               *)
(***************************************************************************)
EXTENDS MCStorage, FiniteSetTheorems, SequenceTheorems, TLAPS

(***************************************************************************)
(* Anchors and the indices of their devices.                               *)
(*                                                                         *)
(* The indices are alike in that a write takes from an index only what the *)
(* anchor owned and gave up, and gives it only what the anchor has now and *)
(* nobody had.  They differ in how much of that they are given, so the     *)
(* lemma about one index (IndexFact) is about any part of it.              *)
(***************************************************************************)

\* The anchors are numbered from the start of the range (allocate_anchor): a
\* new one does not take the place of another.
Numbered ==
    /\ range \in {r \in Devices!Numbers \X Devices!Numbers : r[1] <= r[2]}
    /\ numAnchors \in 0..(range[2] - range[1])
    /\ DOMAIN anchors = range[1]..(range[1] + numAnchors - 1)

\* The devices that check_anchor_invariants lets an anchor have.
Admitted(ds) ==
    /\ ds \in Devices!DeviceSets
    /\ IsFiniteSet(DOMAIN ds)
    /\ Cardinality(DOMAIN ds) <= MaxDevices

AnchorsInv ==
    /\ Numbered
    /\ \A a \in DOMAIN anchors : Admitted(anchors[a])
    /\ caller \in Keys \cup {Other}
    /\ Devices!IndicesAreSound

-----------------------------------------------------------------------------
(***************************************************************************)
(* One index.                                                              *)
(***************************************************************************)

\* The index is changed by a write of anchor a, which had previous and has
\* current; new is what the index is given.
Synced(entries, a, previous, current, new) ==
    Devices!Indexed(Devices!Unindexed(entries, a, previous \ current), a, new)

\* Each entry leads to an anchor of those that have it.
SoundFor(entries, having) ==
    \A x \in DOMAIN entries : entries[x] \in DOMAIN having /\ x \in having[entries[x]]

\* A write keeps an index sound, and keeps the entries of all who still have
\* what is looked up (Storage::sync_...).
LEMMA IndexFact ==
    ASSUME NEW entries, NEW having, NEW having2, NEW a, NEW previous, NEW new,
           SoundFor(entries, having),
           DOMAIN having2 = DOMAIN having \cup {a},
           \A b \in DOMAIN having : b # a => having2[b] = having[b],
           a \in DOMAIN having => previous = having[a],
           new \subseteq having2[a]
    PROVE  LET synced == Synced(entries, a, previous, having2[a], new)
           IN  /\ SoundFor(synced, having2)
               /\ \A x \in DOMAIN entries :
                      x \in having2[entries[x]] => Devices!Keeps(entries, synced, x)
<1> DEFINE synced == Synced(entries, a, previous, having2[a], new)
           removed == {x \in (previous \ having2[a]) \cap DOMAIN entries : entries[x] = a}
<1>1. /\ DOMAIN synced = (DOMAIN entries \ removed) \cup new
      /\ \A x \in DOMAIN entries \ removed : synced[x] = entries[x]
      /\ \A x \in new : x \in DOMAIN entries \ removed \/ synced[x] = a
  <2>1. /\ DOMAIN Devices!Unindexed(entries, a, previous \ having2[a]) = DOMAIN entries \ removed
        /\ \A x \in DOMAIN entries \ removed :
              Devices!Unindexed(entries, a, previous \ having2[a])[x] = entries[x]
    BY DEF Devices!Unindexed, Devices!Remove, Devices!Restrict
  <2> QED BY <2>1 DEF Synced, Devices!Indexed
<1> HIDE DEF synced
<1>2. ASSUME NEW x \in DOMAIN synced
      PROVE  synced[x] \in DOMAIN having2 /\ x \in having2[synced[x]]
  <2>1. CASE x \in DOMAIN entries \ removed
    <3>1. synced[x] = entries[x] /\ entries[x] \in DOMAIN having /\ x \in having[entries[x]]
      BY <2>1, <1>1 DEF SoundFor
    <3>2. CASE entries[x] = a
      BY <2>1, <3>1, <3>2
    <3>3. CASE entries[x] # a
      BY <3>1, <3>3
    <3> QED BY <3>2, <3>3
  <2>2. CASE x \notin DOMAIN entries \ removed
    BY <2>2, <1>1
  <2> QED BY <2>1, <2>2
<1>3. ASSUME NEW x \in DOMAIN entries, x \in having2[entries[x]]
      PROVE  Devices!Keeps(entries, synced, x)
  BY <1>1, <1>3 DEF Devices!Keeps
<1> QED BY <1>2, <1>3 DEF SoundFor, synced

\* What each anchor has, for each index.
Passkeys(as) == [b \in DOMAIN as |-> Devices!PasskeysOf(as[b])]
Creds(as) == [b \in DOMAIN as |-> Devices!CredsOf(as[b])]
RecoveryKeys(as) == [b \in DOMAIN as |-> Devices!RecoveryKeysOf(as[b])]

\* The three indices, each by itself.
LEMMA SoundByIndex ==
    Devices!IndicesAreSound <=> /\ SoundFor(pubkeyIndex, Passkeys(anchors))
                        /\ SoundFor(credIndex, Creds(anchors))
                        /\ SoundFor(recoveryIndex, RecoveryKeys(anchors))
BY DEF Devices!IndicesAreSound, SoundFor, Passkeys, Creds, RecoveryKeys

-----------------------------------------------------------------------------
(***************************************************************************)
(* A write.                                                                *)
(***************************************************************************)

\* The anchors after a write (stable_anchor_memory.insert).
LEMMA WriteAnchors ==
    ASSUME NEW a, NEW ds, Devices!Write(a, ds)
    PROVE  /\ DOMAIN anchors' = DOMAIN anchors \cup {a}
           /\ anchors'[a] = ds
           /\ \A b \in DOMAIN anchors : b # a => anchors'[b] = anchors[b]
BY DEF Devices!Write, Devices!Put

\* A write of any devices to any anchor, new or not, keeps the indices sound
\* and the entries of those that have the devices (Storage::write).
LEMMA WriteFact ==
    ASSUME Devices!IndicesAreSound, NEW a, NEW ds, Devices!Write(a, ds)
    PROVE  Devices!IndicesAreSound' /\ Devices!EntriesAreKeptStep
<1>1. /\ DOMAIN anchors' = DOMAIN anchors \cup {a}
      /\ anchors'[a] = ds
      /\ \A b \in DOMAIN anchors : b # a => anchors'[b] = anchors[b]
  BY WriteAnchors
<1>2. /\ SoundFor(pubkeyIndex, Passkeys(anchors))
      /\ SoundFor(credIndex, Creds(anchors))
      /\ SoundFor(recoveryIndex, RecoveryKeys(anchors))
  BY SoundByIndex
<1>3. a \in DOMAIN anchors => Devices!Previous(a) = anchors[a]
  BY DEF Devices!Previous
<1>4. /\ SoundFor(pubkeyIndex', Passkeys(anchors'))
      /\ \A k \in DOMAIN pubkeyIndex :
            k \in Passkeys(anchors')[pubkeyIndex[k]] => Devices!Keeps(pubkeyIndex, pubkeyIndex', k)
  <2> DEFINE had == Passkeys(anchors)
             has == Passkeys(anchors')
             previous == Devices!PasskeysOf(Devices!Previous(a))
             new == Devices!PasskeysOf(ds) \ previous
  <2>1. pubkeyIndex' = Synced(pubkeyIndex, a, previous, has[a], new)
    BY <1>1 DEF Devices!Write, Devices!SyncedAdded, Synced, Passkeys
  <2>2. /\ DOMAIN has = DOMAIN had \cup {a}
        /\ \A b \in DOMAIN had : b # a => has[b] = had[b]
        /\ a \in DOMAIN had => previous = had[a]
        /\ new \subseteq has[a]
    BY <1>1, <1>3 DEF Passkeys
  <2> HIDE DEF had, has, previous, new
  <2>3. /\ SoundFor(pubkeyIndex', has)
        /\ \A k \in DOMAIN pubkeyIndex :
              k \in has[pubkeyIndex[k]] => Devices!Keeps(pubkeyIndex, pubkeyIndex', k)
    BY <1>2, <2>1, <2>2, IndexFact DEF had
  <2> QED BY <2>3 DEF has
<1>5. /\ SoundFor(credIndex', Creds(anchors'))
      /\ \A c \in DOMAIN credIndex :
            c \in Creds(anchors')[credIndex[c]] => Devices!Keeps(credIndex, credIndex', c)
  <2> DEFINE had == Creds(anchors)
             has == Creds(anchors')
             previous == Devices!CredsOf(Devices!Previous(a))
  <2>1. credIndex' = Synced(credIndex, a, previous, has[a], has[a])
    BY <1>1 DEF Devices!Write, Devices!SyncedAll, Synced, Creds
  <2>2. /\ DOMAIN has = DOMAIN had \cup {a}
        /\ \A b \in DOMAIN had : b # a => has[b] = had[b]
        /\ a \in DOMAIN had => previous = had[a]
    BY <1>1, <1>3 DEF Creds
  <2> HIDE DEF had, has, previous
  <2>3. /\ SoundFor(credIndex', has)
        /\ \A c \in DOMAIN credIndex :
              c \in has[credIndex[c]] => Devices!Keeps(credIndex, credIndex', c)
    BY <1>2, <2>1, <2>2, IndexFact DEF had
  <2> QED BY <2>3 DEF has
<1>6. /\ SoundFor(recoveryIndex', RecoveryKeys(anchors'))
      /\ \A k \in DOMAIN recoveryIndex :
            k \in RecoveryKeys(anchors')[recoveryIndex[k]]
                => Devices!Keeps(recoveryIndex, recoveryIndex', k)
  <2> DEFINE had == RecoveryKeys(anchors)
             has == RecoveryKeys(anchors')
             previous == Devices!RecoveryKeysOf(Devices!Previous(a))
  <2>1. recoveryIndex' = Synced(recoveryIndex, a, previous, has[a], has[a])
    BY <1>1 DEF Devices!Write, Devices!SyncedAll, Synced, RecoveryKeys
  <2>2. /\ DOMAIN has = DOMAIN had \cup {a}
        /\ \A b \in DOMAIN had : b # a => has[b] = had[b]
        /\ a \in DOMAIN had => previous = had[a]
    BY <1>1, <1>3 DEF RecoveryKeys
  <2> HIDE DEF had, has, previous
  <2>3. /\ SoundFor(recoveryIndex', has)
        /\ \A k \in DOMAIN recoveryIndex :
              k \in has[recoveryIndex[k]] => Devices!Keeps(recoveryIndex, recoveryIndex', k)
    BY <1>2, <2>1, <2>2, IndexFact DEF had
  <2> QED BY <2>3 DEF has
<1>7. Devices!IndicesAreSound'
  BY <1>4, <1>5, <1>6 DEF Devices!IndicesAreSound, SoundFor, Passkeys, Creds, RecoveryKeys
<1>8. Devices!EntriesAreKeptStep
  <2>1. /\ \A k \in DOMAIN pubkeyIndex : pubkeyIndex[k] \in DOMAIN anchors'
        /\ \A c \in DOMAIN credIndex : credIndex[c] \in DOMAIN anchors'
        /\ \A k \in DOMAIN recoveryIndex : recoveryIndex[k] \in DOMAIN anchors'
    BY <1>1 DEF Devices!IndicesAreSound
  <2> QED BY <2>1, <1>4, <1>5, <1>6 DEF Devices!EntriesAreKeptStep, Passkeys, Creds, RecoveryKeys
<1> QED BY <1>7, <1>8

-----------------------------------------------------------------------------
(***************************************************************************)
(* The devices of an anchor.                                               *)
(***************************************************************************)

LEMMA SameCardinality ==
    ASSUME NEW S
    PROVE  Devices!Cardinality(S) = Cardinality(S)
BY DEF Devices!Cardinality, Cardinality

LEMMA DeviceSetsAreFunctions ==
    ASSUME NEW ds
    PROVE  ds \in Devices!DeviceSets
               <=> /\ ds = [k \in DOMAIN ds |-> ds[k]]
                   /\ DOMAIN ds \subseteq Keys
                   /\ \A k \in DOMAIN ds : ds[k] \in Devices!Device
<1>1. ASSUME NEW K \in SUBSET Keys, ds \in [K -> Devices!Device]
      PROVE  /\ ds = [k \in DOMAIN ds |-> ds[k]]
             /\ DOMAIN ds \subseteq Keys
             /\ \A k \in DOMAIN ds : ds[k] \in Devices!Device
  BY <1>1
<1>2. ASSUME ds = [k \in DOMAIN ds |-> ds[k]], DOMAIN ds \subseteq Keys,
             \A k \in DOMAIN ds : ds[k] \in Devices!Device
      PROVE  ds \in [DOMAIN ds -> Devices!Device]
  BY <1>2
<1> QED BY <1>1, <1>2 DEF Devices!DeviceSets

\* add_device and modify_device admit what check_anchor_invariants does.
LEMMA PutIsAdmitted ==
    ASSUME NEW ds, ds \in Devices!DeviceSets, IsFiniteSet(DOMAIN ds),
           NEW k \in Keys, NEW d \in Devices!Device,
           Devices!AnchorInvariants(Devices!Put(ds, k, d))
    PROVE  Admitted(Devices!Put(ds, k, d))
<1> DEFINE es == Devices!Put(ds, k, d)
<1>1. /\ es = [x \in DOMAIN ds \cup {k} |-> IF x = k THEN d ELSE ds[x]]
      /\ DOMAIN es = DOMAIN ds \cup {k}
  BY DEF Devices!Put
<1>2. DOMAIN ds \subseteq Keys /\ \A x \in DOMAIN ds : ds[x] \in Devices!Device
  BY DeviceSetsAreFunctions
<1>3. IsFiniteSet(DOMAIN es)
  BY <1>1, FS_AddElement
<1>4. Cardinality(DOMAIN es) <= MaxDevices
  BY SameCardinality DEF Devices!AnchorInvariants
<1> HIDE DEF es
<1>5. es \in Devices!DeviceSets
  BY <1>1, <1>2, DeviceSetsAreFunctions
<1> QED BY <1>3, <1>4, <1>5 DEF Admitted, es

\* An anchor with a device less.
LEMMA RemovedIsAdmitted ==
    ASSUME Devices!AnchorStorageAssumption, NEW ds, Admitted(ds), NEW S
    PROVE  Admitted(Devices!Remove(ds, S))
<1> DEFINE es == Devices!Remove(ds, S)
<1>1. /\ es = [x \in DOMAIN ds \ S |-> ds[x]]
      /\ DOMAIN es = DOMAIN ds \ S
  BY DEF Devices!Remove, Devices!Restrict
<1>2. DOMAIN ds \subseteq Keys /\ \A x \in DOMAIN ds : ds[x] \in Devices!Device
  BY DeviceSetsAreFunctions DEF Admitted
<1> HIDE DEF es
<1>3. /\ IsFiniteSet(DOMAIN es)
      /\ Cardinality(DOMAIN es) <= Cardinality(DOMAIN ds)
      /\ Cardinality(DOMAIN es) \in Nat /\ Cardinality(DOMAIN ds) \in Nat
  BY <1>1, FS_Subset, FS_CardinalityType DEF Admitted
<1>4. Cardinality(DOMAIN es) <= MaxDevices
  BY <1>3 DEF Admitted, Devices!AnchorStorageAssumption
<1>5. es \in Devices!DeviceSets
  BY <1>1, <1>2, DeviceSetsAreFunctions
<1> QED BY <1>3, <1>4, <1>5 DEF Admitted, es

LEMMA NoDevicesAreAdmitted ==
    Devices!Empty \in Devices!DeviceSets /\ IsFiniteSet(DOMAIN Devices!Empty)
<1>1. Devices!Empty = [x \in {} |-> 0] /\ DOMAIN Devices!Empty = {}
  BY DEF Devices!Empty
<1> QED BY <1>1, DeviceSetsAreFunctions, FS_EmptySet

LEMMA AnchorsAreTyped ==
    ASSUME AnchorsInv
    PROVE  Devices!TypeOK
<1>1. \A a \in DOMAIN anchors :
          /\ anchors[a] \in Devices!DeviceSets
          /\ Devices!Cardinality(DOMAIN anchors[a]) <= MaxDevices
  BY SameCardinality DEF AnchorsInv, Admitted
<1>2. ASSUME NEW a \in DOMAIN anchors
      PROVE  /\ Devices!PasskeysOf(anchors[a]) \subseteq Keys
             /\ Devices!RecoveryKeysOf(anchors[a]) \subseteq Keys
             /\ Devices!CredsOf(anchors[a]) \subseteq CredIds
  <2>1. DOMAIN anchors[a] \subseteq Keys
        /\ \A k \in DOMAIN anchors[a] : anchors[a][k].cred \in CredIds \cup {NoCred}
    BY <1>1, DeviceSetsAreFunctions DEF Devices!Device
  <2> QED
    BY <2>1 DEF Devices!PasskeysOf, Devices!RecoveryKeysOf, Devices!CredsOf
<1>3. /\ DOMAIN pubkeyIndex \subseteq Keys
      /\ DOMAIN credIndex \subseteq CredIds
      /\ DOMAIN recoveryIndex \subseteq Keys
  BY <1>2 DEF AnchorsInv, Devices!IndicesAreSound
<1> QED BY <1>1, <1>3 DEF AnchorsInv, Numbered, Devices!TypeOK

-----------------------------------------------------------------------------
(***************************************************************************)
(* The operations.                                                         *)
(***************************************************************************)

\* What each step is shown to do.
AnchorsGood ==
    /\ AnchorsInv'
    /\ Devices!EntriesAreKeptStep
    /\ Devices!ProtectedIsProtectedStep

\* A write of devices ds by caller c to anchor a, which exists, leaves its
\* protected phrase alone, unless it is c (check_mutation_allowed).
PhraseKept(a, ds, c) ==
    \A k \in DOMAIN anchors[a] : anchors[a][k].protected =>
        c = k \/ (k \in DOMAIN ds /\ ds[k] = anchors[a][k])

\* An operation on the devices of an anchor (add_device, modify_device,
\* remove_device, write).
LEMMA ExistingFact ==
    ASSUME AnchorsInv, NEW a \in DOMAIN anchors, NEW ds, Admitted(ds),
           Devices!Write(a, ds), PhraseKept(a, ds, caller'),
           caller' \in Keys \cup {Other}, UNCHANGED <<range, numAnchors>>
    PROVE  AnchorsGood
<1>1. Devices!IndicesAreSound' /\ Devices!EntriesAreKeptStep
  BY WriteFact DEF AnchorsInv
<1>2. /\ DOMAIN anchors' = DOMAIN anchors
      /\ anchors'[a] = ds
      /\ \A b \in DOMAIN anchors : b # a => anchors'[b] = anchors[b]
  BY WriteAnchors
<1>3. Numbered'
  BY <1>2 DEF AnchorsInv, Numbered
<1>4. \A b \in DOMAIN anchors' : Admitted(anchors'[b])
  BY <1>2 DEF AnchorsInv
<1>5. Devices!ProtectedIsProtectedStep
  BY <1>2 DEF Devices!ProtectedIsProtectedStep, PhraseKept
<1> QED BY <1>1, <1>3, <1>4, <1>5 DEF AnchorsGood, AnchorsInv

\* A registration takes the next number (allocate_anchor, create).
LEMMA RegisterStep ==
    ASSUME Devices!AnchorStorageAssumption, AnchorsInv,
           NEW k \in Keys, NEW d \in Devices!Device, Devices!Register(k, d)
    PROVE  AnchorsGood
<1> DEFINE ds == Devices!Put(Devices!Empty, k, d)
<1>1. /\ Devices!Write(Devices!NextNumber, ds)
      /\ Devices!AnchorInvariants(ds)
      /\ Devices!NextNumber < range[2]
      /\ numAnchors' = numAnchors + 1 /\ range' = range /\ caller' = k
  BY DEF Devices!Register, Devices!AddChecked
<1>2. Admitted(ds)
  BY <1>1, NoDevicesAreAdmitted, PutIsAdmitted
<1> HIDE DEF ds
<1>3. Devices!IndicesAreSound' /\ Devices!EntriesAreKeptStep
  BY <1>1, WriteFact DEF AnchorsInv
<1>4. /\ DOMAIN anchors' = DOMAIN anchors \cup {Devices!NextNumber}
      /\ anchors'[Devices!NextNumber] = ds
      /\ \A b \in DOMAIN anchors : b # Devices!NextNumber => anchors'[b] = anchors[b]
  BY <1>1, WriteAnchors
<1>5. range[1] \in Nat /\ range[2] \in Nat /\ numAnchors \in Nat
  BY DEF AnchorsInv, Numbered, Devices!Numbers, Devices!AnchorStorageAssumption
<1>6. /\ Devices!NextNumber \notin DOMAIN anchors
      /\ DOMAIN anchors \cup {Devices!NextNumber}
             = range[1]..(range[1] + (numAnchors + 1) - 1)
      /\ numAnchors + 1 \in 0..(range[2] - range[1])
  BY <1>1, <1>5 DEF AnchorsInv, Numbered, Devices!NextNumber
<1>7. Numbered'
  BY <1>1, <1>4, <1>6 DEF AnchorsInv, Numbered
<1>8. \A b \in DOMAIN anchors' : Admitted(anchors'[b])
  BY <1>2, <1>4 DEF AnchorsInv
<1>9. Devices!ProtectedIsProtectedStep
  BY <1>4, <1>6 DEF Devices!ProtectedIsProtectedStep
<1> QED BY <1>1, <1>3, <1>7, <1>8, <1>9 DEF AnchorsGood, AnchorsInv

\* The indices and the anchors stay (set_anchor_number_range, or nothing).
LEMMA IdleFact ==
    ASSUME AnchorsInv, Numbered', UNCHANGED <<anchors, Devices!indices, caller>>
    PROVE  AnchorsGood
<1>1. Devices!IndicesAreSound'
  BY DEF AnchorsInv, Devices!IndicesAreSound, Devices!indices
<1>2. Devices!EntriesAreKeptStep
  BY DEF Devices!EntriesAreKeptStep, Devices!Keeps, Devices!indices
<1>3. Devices!ProtectedIsProtectedStep
  BY DEF Devices!ProtectedIsProtectedStep
<1> QED BY <1>1, <1>2, <1>3 DEF AnchorsGood, AnchorsInv

\* The range moves only while there are no anchors (set_anchor_number_range).
LEMMA SetRangeStep ==
    ASSUME Devices!AnchorStorageAssumption, AnchorsInv,
           NEW lo \in Devices!Numbers, NEW hi \in Devices!Numbers,
           Devices!SetRange(lo, hi)
    PROVE  AnchorsGood
<1>1. /\ lo \in Nat /\ hi \in Nat /\ range[1] \in Nat /\ range[2] \in Nat
      /\ numAnchors \in Nat
  BY DEF AnchorsInv, Numbered, Devices!AnchorStorageAssumption, Devices!Numbers
<1>2. /\ range' = <<lo, hi>> /\ numAnchors' = numAnchors /\ anchors' = anchors
      /\ lo <= hi
      /\ numAnchors > 0 => lo = range[1] /\ hi - lo >= numAnchors
  BY DEF Devices!SetRange, Devices!RangeAllowed
<1>3. lo..(lo + numAnchors - 1) = range[1]..(range[1] + numAnchors - 1)
  BY <1>1, <1>2
<1>4. numAnchors \in 0..(hi - lo)
  BY <1>1, <1>2
<1>5. Numbered'
  BY <1>2, <1>3, <1>4 DEF AnchorsInv, Numbered
<1> QED BY <1>5, IdleFact DEF Devices!SetRange

\* A device more, with the checks of add_device.
LEMMA AddStep ==
    ASSUME AnchorsInv, NEW a \in DOMAIN anchors, NEW c \in Keys \cup {Other},
           NEW k \in Keys, NEW d \in Devices!Device,
           Devices!AddChecked(a, anchors[a], k, d), caller' = c,
           UNCHANGED <<range, numAnchors>>
    PROVE  AnchorsGood
<1>1. k \notin DOMAIN anchors[a]
  BY DEF Devices!AddChecked
<1>2. PhraseKept(a, Devices!Put(anchors[a], k, d), c)
  BY <1>1 DEF PhraseKept, Devices!Put
<1>3. Admitted(Devices!Put(anchors[a], k, d))
  BY PutIsAdmitted DEF AnchorsInv, Admitted, Devices!AddChecked
<1> QED BY <1>2, <1>3, ExistingFact DEF Devices!AddChecked

LEMMA UpdateStep ==
    ASSUME AnchorsInv, NEW a \in DOMAIN anchors, NEW c \in Keys \cup {Other},
           NEW k \in Keys, NEW d \in Devices!Device, Devices!Update(a, k, d, c)
    PROVE  AnchorsGood
<1>1. \A j : j = k => (anchors[a][j].protected => c = j)
  BY DEF Devices!Update, Devices!MutationAllowed
<1>2. \A j \in DOMAIN anchors[a] : j # k =>
          /\ j \in DOMAIN Devices!Put(anchors[a], k, d)
          /\ Devices!Put(anchors[a], k, d)[j] = anchors[a][j]
  BY DEF Devices!Put
<1>3. PhraseKept(a, Devices!Put(anchors[a], k, d), c)
  BY <1>1, <1>2 DEF PhraseKept
<1>4. Admitted(Devices!Put(anchors[a], k, d))
  BY PutIsAdmitted DEF AnchorsInv, Admitted, Devices!Update
<1> QED BY <1>3, <1>4, ExistingFact DEF Devices!Update

LEMMA ReplaceStep ==
    ASSUME Devices!AnchorStorageAssumption, AnchorsInv,
           NEW a \in DOMAIN anchors, NEW c \in Keys \cup {Other}, NEW old,
           NEW k \in Keys, NEW d \in Devices!Device, Devices!Replace(a, old, k, d, c)
    PROVE  AnchorsGood
<1> DEFINE rest == Devices!Remove(anchors[a], {old})
           ds == Devices!Put(rest, k, d)
<1>1. /\ \A j : j = old => (anchors[a][j].protected => c = j)
      /\ k \notin DOMAIN rest
      /\ Devices!AnchorInvariants(ds)
      /\ Devices!Write(a, ds) /\ caller' = c /\ UNCHANGED <<range, numAnchors>>
  BY DEF Devices!Replace, Devices!MutationAllowed, Devices!AddChecked
<1>2. \A j \in DOMAIN anchors[a] : j # old => j \in DOMAIN ds /\ ds[j] = anchors[a][j]
  BY <1>1 DEF Devices!Put, Devices!Remove, Devices!Restrict
<1>3. Admitted(rest)
  BY RemovedIsAdmitted DEF AnchorsInv
<1> HIDE DEF rest
<1>4. Admitted(ds)
  BY <1>1, <1>3, PutIsAdmitted DEF Admitted
<1> HIDE DEF ds
<1>5. PhraseKept(a, ds, c)
  BY <1>1, <1>2 DEF PhraseKept
<1> QED BY <1>1, <1>4, <1>5, ExistingFact

LEMMA RemoveStep ==
    ASSUME Devices!AnchorStorageAssumption, AnchorsInv,
           NEW a \in DOMAIN anchors, NEW c \in Keys \cup {Other}, NEW k,
           Devices!RemoveDevice(a, k, c)
    PROVE  AnchorsGood
<1> DEFINE ds == Devices!Remove(anchors[a], {k})
<1>1. /\ \A j : j = k => (anchors[a][j].protected => c = j)
      /\ Devices!Write(a, ds) /\ caller' = c /\ UNCHANGED <<range, numAnchors>>
  BY DEF Devices!RemoveDevice, Devices!MutationAllowed
<1>2. \A j \in DOMAIN anchors[a] : j # k => j \in DOMAIN ds /\ ds[j] = anchors[a][j]
  BY DEF Devices!Remove, Devices!Restrict
<1>3. Admitted(ds)
  BY RemovedIsAdmitted DEF AnchorsInv
<1> HIDE DEF ds
<1>4. PhraseKept(a, ds, c)
  BY <1>1, <1>2 DEF PhraseKept
<1> QED BY <1>1, <1>3, <1>4, ExistingFact

\* Every step keeps the indices, the entries and the phrases.
LEMMA AnchorsStep ==
    ASSUME Devices!AnchorStorageAssumption, AnchorsInv, [Devices!Next]_(Devices!vars)
    PROVE  AnchorsGood
<1>1. ASSUME NEW k \in Keys, NEW d \in Devices!Device,
             Devices!Register(k, d) \/ Devices!FinishRegistration(k, d)
      PROVE  AnchorsGood
  BY <1>1, RegisterStep DEF Devices!FinishRegistration
<1>2. ASSUME NEW a \in DOMAIN anchors, NEW c \in Keys \cup {Other},
             Devices!RecordActivity(a, c)
      PROVE  AnchorsGood
  <2>1. PhraseKept(a, anchors[a], c) /\ Admitted(anchors[a])
    BY DEF PhraseKept, AnchorsInv
  <2> QED BY <1>2, <2>1, ExistingFact DEF Devices!RecordActivity
<1>3. ASSUME NEW a \in DOMAIN anchors, NEW c \in Keys \cup {Other}, NEW k \in Keys,
             NEW d \in Devices!Device,
             Devices!Add(a, k, d, c) \/ Devices!AddTentative(a, k, d, c)
      PROVE  AnchorsGood
  BY <1>3, AddStep DEF Devices!Add, Devices!AddTentative
<1>4. ASSUME NEW a \in DOMAIN anchors, NEW c \in Keys \cup {Other}, NEW k \in Keys,
             NEW d \in Devices!Device, Devices!Update(a, k, d, c)
      PROVE  AnchorsGood
  BY <1>4, UpdateStep
<1>5. ASSUME NEW a \in DOMAIN anchors, NEW c \in Keys \cup {Other}, NEW old \in Keys,
             NEW k \in Keys, NEW d \in Devices!Device, Devices!Replace(a, old, k, d, c)
      PROVE  AnchorsGood
  BY <1>5, ReplaceStep
<1>6. ASSUME NEW a \in DOMAIN anchors, NEW c \in Keys \cup {Other}, NEW k \in Keys,
             Devices!RemoveDevice(a, k, c)
      PROVE  AnchorsGood
  BY <1>6, RemoveStep
<1>7. ASSUME NEW lo \in Devices!Numbers, NEW hi \in Devices!Numbers,
             Devices!SetRange(lo, hi)
      PROVE  AnchorsGood
  BY <1>7, SetRangeStep
<1>8. CASE UNCHANGED Devices!vars
  <2>1. UNCHANGED <<range, numAnchors, anchors, Devices!indices, caller>>
    BY <1>8 DEF Devices!vars
  <2>2. Numbered'
    BY <2>1 DEF AnchorsInv, Numbered
  <2> QED BY <2>1, <2>2, IdleFact
<1> QED BY <1>1, <1>2, <1>3, <1>4, <1>5, <1>6, <1>7, <1>8 DEF Devices!Next

\* Activity writes all recovery keys and credential ids that the anchor has
\* into their indices (SyncedAll), whoever they were taken from.
LEMMA ActivityFact == Devices!ActivityRestoresIndicesStep
<1>1. ASSUME NEW entries, NEW a, NEW previous, NEW current
      PROVE  current \subseteq DOMAIN Devices!SyncedAll(entries, a, previous, current)
  BY DEF Devices!SyncedAll, Devices!Indexed
<1> QED
  BY <1>1 DEF Devices!ActivityRestoresIndicesStep, Devices!RecordActivity, Devices!Write

\* There are no anchors at first.
LEMMA AnchorsInitially ==
    ASSUME Devices!AnchorStorageAssumption, Devices!Init
    PROVE  AnchorsInv
<1>1. /\ range \in {r \in Devices!Numbers \X Devices!Numbers : r[1] <= r[2]}
      /\ range[1] \in Nat /\ range[2] \in Nat
  BY DEF Devices!Init, Devices!Numbers, Devices!AnchorStorageAssumption
<1>2. Numbered
  BY <1>1 DEF Numbered, Devices!Init, Devices!Empty
<1> QED BY <1>2 DEF Devices!Init, Devices!Empty, AnchorsInv, Devices!IndicesAreSound

-----------------------------------------------------------------------------
(***************************************************************************)
(* The records of devices.                                                 *)
(*                                                                         *)
(* DevicesAreKept is not inductive: an operation does not start from what  *)
(* was given but from what is read.  The record, however, is always that   *)
(* of what was given (RecordsInv), because a device that is read and       *)
(* written again has the same record as before (RereadKeepsFields,         *)
(* SameRecordIfKept).                                                      *)
(***************************************************************************)

\* A device in memory, read or given.
ValidDevice(d) ==
    /\ d \in [cred : CredIds \cup {NoCred}, purpose : {"recovery", "authentication"},
              keyType : KeyTypes \cup Records!PasskeyTypes, protected : BOOLEAN,
              origin : RecordOrigins \cup {NoOrigin}, used : BOOLEAN]
    /\ d.keyType = "seed_phrase" => d.cred = NoCred
    /\ d.protected => d.keyType = "seed_phrase"

ValidDevices(ds) == \A k \in DOMAIN ds : ValidDevice(ds[k])

\* Two devices with the same record.
SameRecord(d, e) ==
    /\ Records!StoredCred(d) = Records!StoredCred(e)
    /\ Records!PasskeyRecord(d) = Records!PasskeyRecord(e)
    /\ Records!RecoveryKeyRecord(d) = Records!RecoveryKeyRecord(e)

RecordsInv ==
    /\ ValidDevices(given)
    /\ passkeys = Records!StoredPasskeys(given)
    /\ recoveryKeys = Records!StoredRecoveryKeys(given)

\* What is read from the record of d.
Reread(d) ==
    IF Records!StoredCred(d) # NoCred THEN Records!PasskeyRead(Records!PasskeyRecord(d))
    ELSE Records!RecoveryKeyRead(Records!RecoveryKeyRecord(d))

\* Every field of e is that of d, except for the kind of authenticator.
Kept(e, d) ==
    /\ e.cred = d.cred /\ e.purpose = d.purpose /\ e.origin = d.origin
    /\ e.protected = d.protected /\ e.used = d.used
    /\ Records!SameType(e.keyType, d.keyType)

-----------------------------------------------------------------------------
LEMMA Singleton ==
    ASSUME NEW x
    PROVE  (CHOOSE s \in {x} : TRUE) = x
  OBVIOUS

LEMMA MigrationFields ==
    ASSUME NEW d, ValidDevice(d)
    PROVE  /\ Records!Migration(d).cred = d.cred
           /\ Records!Migration(d).purpose = d.purpose
           /\ Records!Migration(d).keyType = d.keyType
           /\ Records!Migration(d).origin = d.origin
  BY DEF Records!Migration, Records!Restrict, ValidDevice

\* special_device_migration tells an extraordinary device; of an ordinary one
\* the record implies all but the kind of authenticator.
LEMMA RereadKeepsFields ==
    ASSUME Records!DeviceRecordsAssumption, NEW d, ValidDevice(d)
    PROVE  Kept(Reread(d), d)
<1> DEFINE r == Records!RecoveryKeyRecord(d)
           p == Records!PasskeyRecord(d)
<1>1. CASE Records!OrdinaryPhrase(d)
  <2>1. Records!StoredCred(d) = NoCred
    BY <1>1 DEF Records!OrdinaryPhrase, Records!StoredCred
  <2>2. r.special = {} /\ r.protected = d.protected /\ r.used = d.used
    BY <1>1 DEF Records!RecoveryKeyRecord, Records!Special
  <2>3. Reread(d) = [cred |-> NoCred, purpose |-> "recovery", keyType |-> "seed_phrase",
                     origin |-> NoOrigin, protected |-> d.protected, used |-> d.used]
    BY <2>1, <2>2 DEF Reread, Records!RecoveryKeyRead, Records!Device
  <2> QED
    BY <1>1, <2>3 DEF Records!OrdinaryPhrase, Kept, Records!SameType
<1>2. CASE Records!OrdinaryPasskey(d)
  <2>1. Records!StoredCred(d) = d.cred /\ d.cred # NoCred
    BY <1>2 DEF Records!OrdinaryPasskey, Records!StoredCred
  <2>2. d.protected = FALSE
    <3>1. d.protected \in BOOLEAN /\ ~d.protected
      BY <2>1 DEF ValidDevice
    <3> QED
      BY <3>1
  <2>3. Records!Special(d) = {}
    BY <1>2 DEF Records!Special
  <2>4. /\ p.special = {} /\ p.used = d.used
        /\ p.cred = d.cred /\ p.origin = d.origin
    BY <1>2, <2>1, <2>3 DEF Records!PasskeyRecord, Records!OrdinaryPasskey
  <2>5. Reread(d) = [cred |-> d.cred, purpose |-> "authentication",
                     keyType |-> "cross_platform", origin |-> d.origin,
                     protected |-> FALSE, used |-> d.used]
    BY <2>1, <2>4 DEF Reread, Records!PasskeyRead, Records!Device
  <2>6. Records!SameType("cross_platform", d.keyType)
    BY <1>2 DEF Records!OrdinaryPasskey, Records!SameType, Records!PasskeyTypes
  <2>7. Reread(d).protected = FALSE /\ Reread(d).used = d.used
    BY <2>5
  <2>8. /\ Reread(d).cred = d.cred /\ Reread(d).purpose = d.purpose
        /\ Reread(d).keyType = "cross_platform" /\ Reread(d).origin = d.origin
    BY <1>2, <2>5 DEF Records!OrdinaryPasskey
  <2> QED
    BY <2>2, <2>6, <2>7, <2>8 DEF Kept
<1>3. CASE ~Records!OrdinaryPhrase(d) /\ ~Records!OrdinaryPasskey(d)
  <2> DEFINE m == Records!Migration(d)
  <2>1. Records!Special(d) = {m}
    BY <1>3 DEF Records!Special
  <2>2. p.special = {m} /\ p.used = d.used /\ r.special = {m} /\ r.used = d.used
    BY <2>1 DEF Records!PasskeyRecord, Records!RecoveryKeyRecord
  <2>3. r.protected = d.protected
    BY DEF Records!RecoveryKeyRecord
  <2>4. d.protected \in BOOLEAN /\ (Records!StoredCred(d) # NoCred => ~d.protected)
    BY DEF Records!StoredCred, ValidDevice
  <2>5. /\ m.cred = d.cred /\ m.purpose = d.purpose
        /\ m.keyType = d.keyType /\ m.origin = d.origin
    BY MigrationFields
  <2>6. (CHOOSE s \in {m} : TRUE) = m
    BY Singleton
  <2> HIDE DEF m
  <2>8. Reread(d).protected = d.protected /\ Reread(d).used = d.used
    <3>1. CASE Records!StoredCred(d) # NoCred
      <4>1. Reread(d).protected = FALSE /\ Reread(d).used = d.used
        BY <3>1, <2>2 DEF Reread, Records!PasskeyRead, Records!Device
      <4> QED
        BY <3>1, <4>1, <2>4
    <3>2. CASE Records!StoredCred(d) = NoCred
      BY <3>2, <2>2, <2>3 DEF Reread, Records!RecoveryKeyRead, Records!Device
    <3> QED
      BY <3>1, <3>2
  <2>9. /\ Reread(d).cred = d.cred /\ Reread(d).purpose = d.purpose
        /\ Reread(d).keyType = d.keyType /\ Reread(d).origin = d.origin
    BY <2>2, <2>5, <2>6 DEF Reread, Records!PasskeyRead, Records!RecoveryKeyRead, Records!Device
  <2> QED
    BY <2>8, <2>9 DEF Kept, Records!SameType
<1> QED
  BY <1>1, <1>2, <1>3

\* What is read is a device that has the same record again: only the kind of
\* an ordinary passkey's authenticator has changed, which is not stored.
LEMMA RereadIsValid ==
    ASSUME Records!DeviceRecordsAssumption, NEW d, ValidDevice(d)
    PROVE  ValidDevice(Reread(d))
<1> DEFINE e == Reread(d)
<1>1. Kept(e, d)
  BY RereadKeepsFields
<1>2. e = [cred |-> e.cred, purpose |-> e.purpose, keyType |-> e.keyType,
           origin |-> e.origin, protected |-> e.protected, used |-> e.used]
  BY DEF Reread, Records!PasskeyRead, Records!RecoveryKeyRead, Records!Device
<1>3. e.keyType \in KeyTypes \cup Records!PasskeyTypes
  BY <1>1 DEF Kept, Records!SameType, ValidDevice
<1>4. e.keyType = "seed_phrase" <=> d.keyType = "seed_phrase"
  BY <1>1 DEF Kept, Records!SameType, Records!PasskeyTypes
<1>5. e.protected \in BOOLEAN /\ e.used \in BOOLEAN
  <2>1. /\ d.protected \in BOOLEAN /\ d.used \in BOOLEAN
    BY DEF ValidDevice
  <2> QED
    BY <1>1, <2>1 DEF Kept
<1> HIDE DEF e
<1>6. /\ e.cred \in CredIds \cup {NoCred} /\ e.purpose \in {"recovery", "authentication"}
      /\ e.origin \in RecordOrigins \cup {NoOrigin}
  BY <1>1 DEF Kept, ValidDevice
<1>7. e.keyType = "seed_phrase" => e.cred = NoCred
  BY <1>1, <1>4 DEF Kept, ValidDevice
<1>8. e.protected => e.keyType = "seed_phrase"
  <2>1. d.protected => d.keyType = "seed_phrase"
    BY DEF ValidDevice
  <2>2. e.protected => d.protected
    BY <1>1 DEF Kept
  <2> QED
    BY <2>1, <2>2, <1>4
<1>9. e \in [cred : CredIds \cup {NoCred}, purpose : {"recovery", "authentication"},
             keyType : KeyTypes \cup Records!PasskeyTypes, protected : BOOLEAN,
             origin : RecordOrigins \cup {NoOrigin}, used : BOOLEAN]
  BY <1>2, <1>3, <1>5, <1>6
<1> QED
  BY <1>7, <1>8, <1>9, Zenon DEF e, ValidDevice

LEMMA SameRecordIfKept ==
    ASSUME NEW d, ValidDevice(d), NEW e, ValidDevice(e),
           Kept(e, d), Records!OrdinaryPasskey(d) \/ e.keyType = d.keyType
    PROVE  SameRecord(e, d)
<1>1. Records!StoredCred(e) = Records!StoredCred(d)
  BY DEF Kept, Records!StoredCred, Records!OrdinaryPasskey
<1>2. Records!Special(e) = Records!Special(d)
  <2>1. CASE Records!OrdinaryPasskey(d)
    <3>1. Records!OrdinaryPasskey(e)
      BY <2>1 DEF Kept, Records!OrdinaryPasskey, Records!SameType
    <3> QED
      BY <2>1, <3>1 DEF Records!Special
  <2>2. CASE e.keyType = d.keyType
    <3>1. /\ Records!OrdinaryPasskey(e) = Records!OrdinaryPasskey(d)
          /\ Records!OrdinaryPhrase(e) = Records!OrdinaryPhrase(d)
      BY <2>2 DEF Kept, Records!OrdinaryPasskey, Records!OrdinaryPhrase
    <3>2. Records!Migration(e) = Records!Migration(d)
      BY <2>2 DEF Kept, Records!Migration, Records!Restrict, ValidDevice
    <3> QED
      BY <3>1, <3>2 DEF Records!Special
  <2> QED
    BY <2>1, <2>2
<1>3. e.protected = d.protected /\ e.used = d.used
  BY DEF Kept
<1>4. e.origin = d.origin
  BY DEF Kept
<1> QED
  BY <1>1, <1>2, <1>3, <1>4 DEF SameRecord, Records!PasskeyRecord, Records!RecoveryKeyRecord

LEMMA RereadKeepsKeyType ==
    ASSUME Records!DeviceRecordsAssumption, NEW d, ValidDevice(d)
    PROVE  Records!OrdinaryPasskey(d) \/ Reread(d).keyType = d.keyType
<1>1. CASE Records!OrdinaryPhrase(d)
  <2>1. Kept(Reread(d), d) /\ d.keyType = "seed_phrase"
    BY <1>1, RereadKeepsFields DEF Records!OrdinaryPhrase
  <2> QED
    BY <2>1 DEF Kept, Records!SameType, Records!PasskeyTypes
<1>2. CASE ~Records!OrdinaryPhrase(d) /\ ~Records!OrdinaryPasskey(d)
  <2>1. Records!Special(d) = {Records!Migration(d)}
    BY <1>2 DEF Records!Special
  <2>2. (CHOOSE s \in {Records!Migration(d)} : TRUE) = Records!Migration(d)
    BY Singleton
  <2>3. Reread(d).keyType = Records!Migration(d).keyType
    BY <2>1, <2>2 DEF Reread, Records!PasskeyRead, Records!RecoveryKeyRead, Records!Device,
                      Records!PasskeyRecord, Records!RecoveryKeyRecord
  <2> QED
    BY <2>3, MigrationFields
<1> QED
  BY <1>1, <1>2

-----------------------------------------------------------------------------
(***************************************************************************)
(* What all devices of the anchor have in common with what was given.      *)
(***************************************************************************)

\* Anchors whose records are the same.
SameRecords(ds, es) ==
    /\ DOMAIN ds = DOMAIN es
    /\ \A k \in DOMAIN ds : SameRecord(ds[k], es[k])

\* Devices as read and as given, possibly after part of an operation.
Related(ds, gs) ==
    /\ SameRecords(ds, gs)
    /\ ValidDevices(gs)
    /\ \A k \in DOMAIN ds : ds[k].used = gs[k].used

LEMMA RecordsOfSame ==
    ASSUME NEW ds, NEW es, SameRecords(ds, es)
    PROVE  /\ Records!StoredPasskeys(ds) = Records!StoredPasskeys(es)
           /\ Records!StoredRecoveryKeys(ds) = Records!StoredRecoveryKeys(es)
  BY DEF SameRecords, SameRecord, Records!StoredPasskeys, Records!StoredRecoveryKeys

LEMMA DevicesAreReread ==
    ASSUME RecordsInv
    PROVE  Records!Devices = [k \in DOMAIN given |-> Reread(given[k])]
<1>1. /\ DOMAIN passkeys = {k \in DOMAIN given : Records!StoredCred(given[k]) # NoCred}
      /\ DOMAIN recoveryKeys = {k \in DOMAIN given : Records!StoredCred(given[k]) = NoCred}
  BY DEF RecordsInv, Records!StoredPasskeys, Records!StoredRecoveryKeys
<1>2. DOMAIN passkeys \cup DOMAIN recoveryKeys = DOMAIN given
  BY <1>1
<1>3. ASSUME NEW k \in DOMAIN passkeys
      PROVE  passkeys[k] = Records!PasskeyRecord(given[k])
  BY <1>1 DEF RecordsInv, Records!StoredPasskeys
<1>4. ASSUME NEW k \in DOMAIN recoveryKeys
      PROVE  recoveryKeys[k] = Records!RecoveryKeyRecord(given[k])
  BY <1>1 DEF RecordsInv, Records!StoredRecoveryKeys
<1>5. ASSUME NEW k \in DOMAIN given
      PROVE  (IF k \in DOMAIN passkeys THEN Records!PasskeyRead(passkeys[k])
              ELSE Records!RecoveryKeyRead(recoveryKeys[k])) = Reread(given[k])
  BY <1>1, <1>3, <1>4 DEF Reread
<1> QED
  BY <1>2, <1>5 DEF Records!Devices

\* The device that calls has been used.
Used(d, b) == [d EXCEPT !.used = d.used \/ b]

LEMMA UsedIsValid ==
    ASSUME NEW d, ValidDevice(d), NEW b \in BOOLEAN
    PROVE  ValidDevice(Used(d, b))
  BY DEF ValidDevice, Used

LEMMA UsageKeepsRecords ==
    ASSUME Records!DeviceRecordsAssumption, NEW d, ValidDevice(d), NEW b \in BOOLEAN
    PROVE  /\ SameRecord(Used(Reread(d), b), Used(d, b))
           /\ Used(Reread(d), b).used = Used(d, b).used
<1> DEFINE e == Reread(d)
<1>1. ValidDevice(e) /\ Kept(e, d)
  BY RereadIsValid, RereadKeepsFields
<1>2. Records!OrdinaryPasskey(d) \/ e.keyType = d.keyType
  BY RereadKeepsKeyType
<1> HIDE DEF e
<1>3. ValidDevice(Used(e, b)) /\ ValidDevice(Used(d, b))
  BY <1>1, UsedIsValid
<1>4. Used(e, b).used = Used(d, b).used
  BY <1>1 DEF Kept, Used, ValidDevice
<1>5. ASSUME NEW f, ValidDevice(f)
      PROVE  /\ Used(f, b).cred = f.cred /\ Used(f, b).purpose = f.purpose
             /\ Used(f, b).keyType = f.keyType /\ Used(f, b).origin = f.origin
             /\ Used(f, b).protected = f.protected
  BY <1>5 DEF Used, ValidDevice
<1>6. Kept(Used(e, b), Used(d, b))
  BY <1>1, <1>4, <1>5 DEF Kept
<1>7. Records!OrdinaryPasskey(Used(d, b)) \/ Used(e, b).keyType = Used(d, b).keyType
  BY <1>1, <1>2, <1>5 DEF Records!OrdinaryPasskey
<1> QED
  BY <1>3, <1>4, <1>6, <1>7, SameRecordIfKept DEF e

LEMMA UsageKeepsRelation ==
    ASSUME Records!DeviceRecordsAssumption, RecordsInv, NEW c
    PROVE  Related(Records!WithUsage(Records!Devices, c), Records!WithUsage(given, c))
<1> DEFINE ds == Records!WithUsage(Records!Devices, c)
           gs == Records!WithUsage(given, c)
<1>1. DOMAIN ds = DOMAIN given /\ DOMAIN gs = DOMAIN given
  BY DevicesAreReread DEF Records!WithUsage
<1>2. ASSUME NEW k \in DOMAIN given
      PROVE  /\ ValidDevice(given[k])
             /\ ds[k] = Used(Reread(given[k]), k \in c)
             /\ gs[k] = Used(given[k], k \in c)
  BY DevicesAreReread DEF Records!WithUsage, Used, RecordsInv, ValidDevices
<1> HIDE DEF ds, gs
<1>3. ASSUME NEW k \in DOMAIN given
      PROVE  SameRecord(ds[k], gs[k]) /\ ds[k].used = gs[k].used /\ ValidDevice(gs[k])
  <2> DEFINE b == k \in c
  <2>1. b \in BOOLEAN
    OBVIOUS
  <2> HIDE DEF b
  <2>2. /\ SameRecord(Used(Reread(given[k]), b), Used(given[k], b))
        /\ Used(Reread(given[k]), b).used = Used(given[k], b).used
        /\ ValidDevice(Used(given[k], b))
    BY <1>2, <2>1, UsageKeepsRecords, UsedIsValid
  <2> QED
    BY <1>2, <2>2 DEF b
<1> QED
  BY <1>1, <1>3 DEF ds, gs, Related, SameRecords, ValidDevices

LEMMA PutKeepsRelation ==
    ASSUME NEW ds, NEW gs, Related(ds, gs), NEW k, NEW d, ValidDevice(d)
    PROVE  Related(Records!Put(ds, k, d), Records!Put(gs, k, d))
<1>1. SameRecord(d, d)
  BY DEF SameRecord
<1> QED
  BY <1>1 DEF Related, SameRecords, ValidDevices, Records!Put

LEMMA RemoveKeepsRelation ==
    ASSUME NEW ds, NEW gs, Related(ds, gs), NEW k
    PROVE  Related(Records!Remove(ds, k), Records!Remove(gs, k))
  BY DEF Related, SameRecords, ValidDevices, Records!Remove, Records!Restrict

\* The devices of a call, and those that an update makes of them.
LEMMA NewIsValid ==
    ASSUME Records!DeviceRecordsAssumption, NEW d \in Records!DeviceData
    PROVE  /\ ValidDevice(Records!NewDevice(d))
           /\ ValidDevice([Records!NewDevice(d) EXCEPT !.used = TRUE])
           /\ \A e : ValidDevice(e) => ValidDevice(Records!ApplyDeviceData(e, d))
<1> DEFINE With(u) == [cred |-> d.cred, purpose |-> d.purpose, keyType |-> d.keyType,
                       origin |-> d.origin, protected |-> d.protected, used |-> u]
<1>1. ASSUME NEW u \in BOOLEAN
      PROVE  ValidDevice(With(u))
  <2>1. /\ d.cred \in CredIds \cup {NoCred} /\ d.purpose \in {"recovery", "authentication"}
        /\ d.keyType \in KeyTypes /\ d.protected \in BOOLEAN
        /\ d.origin \in RecordOrigins \cup {NoOrigin}
        /\ d.keyType = "seed_phrase" => d.cred = NoCred
    BY DEF Records!DeviceData
  <2>2. d.protected => d.keyType = "seed_phrase"
    BY DEF Records!DeviceData
  <2>3. With(u) \in [cred : CredIds \cup {NoCred}, purpose : {"recovery", "authentication"},
                     keyType : KeyTypes \cup Records!PasskeyTypes, protected : BOOLEAN,
                     origin : RecordOrigins \cup {NoOrigin}, used : BOOLEAN]
    BY <2>1
  <2>4. With(u).cred = d.cred /\ With(u).keyType = d.keyType /\ With(u).protected = d.protected
    OBVIOUS
  <2> HIDE DEF With
  <2>5. With(u).protected => With(u).keyType = "seed_phrase"
    BY <2>2, <2>4, Zenon
  <2>6. With(u).keyType = "seed_phrase" => With(u).cred = NoCred
    BY <2>1, <2>4
  <2> QED
    BY <2>3, <2>5, <2>6, Zenon DEF ValidDevice
<1>2. Records!NewDevice(d) = With(FALSE)
  BY DEF Records!NewDevice
<1>3. \A u : [Records!NewDevice(d) EXCEPT !.used = u] = With(u)
  BY DEF Records!NewDevice
<1>4. \A e : ValidDevice(e) => e.used \in BOOLEAN
  BY DEF ValidDevice
<1> HIDE DEF With
<1>5. ValidDevice(Records!NewDevice(d))
  BY <1>1, <1>2
<1>6. ValidDevice([Records!NewDevice(d) EXCEPT !.used = TRUE])
  BY <1>1, <1>3
<1>7. ASSUME NEW e, ValidDevice(e)
      PROVE  ValidDevice(Records!ApplyDeviceData(e, d))
  BY <1>1, <1>3, <1>4, <1>7 DEF Records!ApplyDeviceData
<1> QED
  BY <1>5, <1>6, <1>7

-----------------------------------------------------------------------------
(***************************************************************************)
(* The invariant.                                                          *)
(***************************************************************************)

LEMMA RecordsInitially ==
    ASSUME Records!DeviceRecordsAssumption, Records!Init
    PROVE  RecordsInv
<1>1. PICK ds \in {Records!Empty} \cup
                  {Records!Put(Records!Empty, k, [Records!NewDevice(d) EXCEPT !.used = TRUE]) :
                      k \in RecordKeys, d \in Records!DeviceData} :
         /\ passkeys = Records!StoredPasskeys(ds)
         /\ recoveryKeys = Records!StoredRecoveryKeys(ds)
         /\ given = ds
  BY DEF Records!Init
<1>2. ASSUME NEW d \in Records!DeviceData
      PROVE  ValidDevice([Records!NewDevice(d) EXCEPT !.used = TRUE])
  BY NewIsValid
<1>3. ValidDevices(ds)
  <2>1. CASE ds = Records!Empty
    BY <2>1 DEF Records!Empty, ValidDevices
  <2>2. CASE \E k \in RecordKeys, d \in Records!DeviceData :
               ds = Records!Put(Records!Empty, k, [Records!NewDevice(d) EXCEPT !.used = TRUE])
    BY <2>2, <1>2 DEF Records!Empty, Records!Put, ValidDevices
  <2> QED
    BY <2>1, <2>2
<1> QED
  BY <1>1, <1>3 DEF RecordsInv

LEMMA WriteEstablishes ==
    ASSUME NEW ds, NEW gs, Related(ds, gs), Records!Write(ds), given' = gs
    PROVE  RecordsInv'
<1>1. /\ Records!StoredPasskeys(ds) = Records!StoredPasskeys(gs)
      /\ Records!StoredRecoveryKeys(ds) = Records!StoredRecoveryKeys(gs)
  BY RecordsOfSame DEF Related
<1>2. /\ passkeys' = Records!StoredPasskeys(given')
      /\ recoveryKeys' = Records!StoredRecoveryKeys(given')
  BY <1>1 DEF Records!Write
<1>3. ValidDevices(given')
  BY DEF Related
<1> QED
  BY <1>2, <1>3 DEF RecordsInv

LEMMA RecordsStep ==
    ASSUME Records!DeviceRecordsAssumption, RecordsInv, [Records!Next]_(Records!vars)
    PROVE  RecordsInv'
<1>1. CASE UNCHANGED Records!vars
  BY <1>1 DEF Records!vars, RecordsInv, ValidDevices, Records!StoredPasskeys,
              Records!StoredRecoveryKeys
<1>2. ASSUME NEW c, Records!RecordActivity(c)
      PROVE  RecordsInv'
  BY <1>2, UsageKeepsRelation, WriteEstablishes DEF Records!RecordActivity
<1>3. ASSUME NEW c, NEW k \in RecordKeys, Records!RemoveDevice(c, k)
      PROVE  RecordsInv'
  <2>1. Related(Records!Remove(Records!WithUsage(Records!Devices, c), k),
                Records!Remove(Records!WithUsage(given, c), k))
    BY UsageKeepsRelation, RemoveKeepsRelation
  <2> QED
    BY <1>3, <2>1, WriteEstablishes DEF Records!RemoveDevice
<1>4. ASSUME NEW c, NEW k \in RecordKeys, NEW d \in Records!DeviceData,
             Records!AddDevice(c, k, d)
      PROVE  RecordsInv'
  <2>1. Related(Records!Put(Records!WithUsage(Records!Devices, c), k, Records!NewDevice(d)),
                Records!Put(Records!WithUsage(given, c), k, Records!NewDevice(d)))
    BY UsageKeepsRelation, PutKeepsRelation, NewIsValid
  <2> QED
    BY <1>4, <2>1, WriteEstablishes DEF Records!AddDevice
<1>5. ASSUME NEW c, NEW k \in RecordKeys, NEW d \in Records!DeviceData,
             Records!UpdateDevice(c, k, d)
      PROVE  RecordsInv'
  <2> DEFINE ds == Records!WithUsage(Records!Devices, c)
             gs == Records!WithUsage(given, c)
  <2>1. Related(ds, gs)
    BY UsageKeepsRelation
  <2>2. k \in DOMAIN ds
    BY <1>5 DEF Records!UpdateDevice, Records!WithUsage
  <2>3. Records!ApplyDeviceData(ds[k], d) = Records!ApplyDeviceData(gs[k], d)
    BY <2>1, <2>2 DEF Records!ApplyDeviceData, Related
  <2>4. ValidDevice(Records!ApplyDeviceData(gs[k], d))
    BY <2>1, <2>2, NewIsValid DEF Related, SameRecords, ValidDevices
  <2>5. Related(Records!Put(ds, k, Records!ApplyDeviceData(ds[k], d)),
                Records!Put(gs, k, Records!ApplyDeviceData(gs[k], d)))
    BY <2>1, <2>3, <2>4, PutKeepsRelation
  <2> QED
    BY <1>5, <2>5, WriteEstablishes DEF Records!UpdateDevice
<1>6. ASSUME NEW c, NEW k \in RecordKeys, NEW d \in Records!DeviceData, NEW old \in RecordKeys,
             Records!ReplaceDevice(c, old, k, d)
      PROVE  RecordsInv'
  <2>1. Related(Records!Put(Records!Remove(Records!WithUsage(Records!Devices, c), old),
                            k, Records!NewDevice(d)),
                Records!Put(Records!Remove(Records!WithUsage(given, c), old),
                            k, Records!NewDevice(d)))
    BY UsageKeepsRelation, RemoveKeepsRelation, PutKeepsRelation, NewIsValid
  <2> QED
    BY <1>6, <2>1, WriteEstablishes DEF Records!ReplaceDevice
<1> QED
  BY <1>1, <1>2, <1>3, <1>4, <1>5, <1>6 DEF Records!Next

LEMMA RecordsTellDevices ==
    ASSUME Records!DeviceRecordsAssumption, RecordsInv
    PROVE  Records!DevicesAreKept
<1>1. \A k \in DOMAIN Records!Devices : Kept(Records!Devices[k], given[k])
  <2>1. ASSUME NEW k \in DOMAIN given
        PROVE  Kept(Reread(given[k]), given[k])
    BY RereadKeepsFields DEF RecordsInv, ValidDevices
  <2> QED
    BY <2>1, DevicesAreReread
<1> QED
  BY <1>1 DEF Records!DevicesAreKept, Kept

-----------------------------------------------------------------------------
(***************************************************************************)
(* What the archive tells.                                                 *)
(***************************************************************************)

\* Entry e tells all of d but its credential id.
Tells(e, d) ==
    /\ DOMAIN e = Records!ArchivedFields
    /\ e["purpose"] = d.purpose /\ e["protected"] = d.protected /\ e["origin"] = d.origin
    /\ Records!SameType(e["keyType"], d.keyType)

ArchiveInv ==
    /\ DOMAIN given \subseteq RecordKeys
    /\ DOMAIN archived = DOMAIN given
    /\ \A k \in DOMAIN given : Tells(archived[k], given[k])

\* A new device is archived in full (DeviceDataWithoutAlias).
LEMMA ArchivedTells ==
    ASSUME NEW d
    PROVE  Tells(Records!Archived(d), d)
  BY DEF Tells, Records!Archived, Records!Restrict, Records!ArchivedFields, Records!SameType

LEMMA UsageIsNotTold ==
    ASSUME NEW d, ValidDevice(d), NEW b, NEW e, Tells(e, d)
    PROVE  Tells(e, Used(d, b))
<1>1. /\ Used(d, b).purpose = d.purpose /\ Used(d, b).protected = d.protected
      /\ Used(d, b).origin = d.origin /\ Used(d, b).keyType = d.keyType
  BY DEF Used, ValidDevice
<1> HIDE DEF Used
<1> QED
  BY <1>1 DEF Tells

\* The differences to the device as it was read (device_diff) are those to the
\* device as it was given, up to the kind of authenticator.
LEMMA DiffTells ==
    ASSUME NEW e, NEW g, Tells(e, g), NEW old, NEW new,
           old.purpose = g.purpose, old.protected = g.protected, old.origin = g.origin,
           Records!SameType(old.keyType, g.keyType)
    PROVE  Tells(Records!Apply(Records!DeviceDiff(old, new), e), new)
<1> DEFINE diff == Records!DeviceDiff(old, new)
           told == Records!Apply(diff, e)
<1>1. /\ DOMAIN told = Records!ArchivedFields
      /\ \A f \in Records!ArchivedFields :
            told[f] = IF f \in DOMAIN diff THEN diff[f] ELSE e[f]
  BY DEF Tells, Records!Apply
<1>2. /\ DOMAIN diff = {f \in Records!ArchivedFields :
                          new[f] # old[f] /\ (f = "cred" => new[f] # NoCred)}
      /\ \A f \in DOMAIN diff : diff[f] = new[f]
  BY DEF Records!DeviceDiff, Records!Restrict
<1> HIDE DEF diff, told
<1>3. \A f \in Records!ArchivedFields \ {"cred"} :
          IF new[f] # old[f] THEN told[f] = new[f] ELSE told[f] = e[f]
  BY <1>1, <1>2
<1>4. {"purpose", "protected", "origin", "keyType"} \subseteq Records!ArchivedFields \ {"cred"}
  BY DEF Records!ArchivedFields
<1>5. /\ told["purpose"] = new.purpose
      /\ told["protected"] = new.protected
      /\ told["origin"] = new.origin
  BY <1>3, <1>4 DEF Tells
<1>6. Records!SameType(told["keyType"], new.keyType)
  BY <1>3, <1>4 DEF Tells, Records!SameType
<1> QED
  BY <1>1, <1>5, <1>6 DEF Tells, told, diff

LEMMA ReadIsKept ==
    ASSUME Records!DeviceRecordsAssumption, RecordsInv
    PROVE  /\ DOMAIN Records!Devices = DOMAIN given
           /\ \A k \in DOMAIN given : Kept(Records!Devices[k], given[k])
  BY DevicesAreReread, RereadKeepsFields DEF RecordsInv, ValidDevices

LEMMA UsageIsArchived ==
    ASSUME RecordsInv, ArchiveInv, NEW c
    PROVE  /\ DOMAIN Records!WithUsage(given, c) = DOMAIN given
           /\ \A k \in DOMAIN given : Tells(archived[k], Records!WithUsage(given, c)[k])
<1>1. ASSUME NEW k \in DOMAIN given
      PROVE  Records!WithUsage(given, c)[k] = Used(given[k], k \in c)
  BY DEF Records!WithUsage, Used
<1>2. ASSUME NEW k \in DOMAIN given
      PROVE  Tells(archived[k], Used(given[k], k \in c))
  BY UsageIsNotTold DEF RecordsInv, ValidDevices, ArchiveInv
<1> QED
  BY <1>1, <1>2 DEF Records!WithUsage

\* An update, in memory and in the archive.
LEMMA UpdateIsArchived ==
    ASSUME Records!DeviceRecordsAssumption, RecordsInv, ArchiveInv, NEW c,
           NEW k \in DOMAIN given, NEW d
    PROVE  LET old == Records!WithUsage(Records!Devices, c)[k]
               new == Records!ApplyDeviceData(old, d)
               g == Records!ApplyDeviceData(Records!WithUsage(given, c)[k], d)
           IN  Tells(Records!Apply(Records!DeviceDiff(old, new), archived[k]), g)
<1> DEFINE old == Records!WithUsage(Records!Devices, c)[k]
           new == Records!ApplyDeviceData(old, d)
           g == Records!ApplyDeviceData(Records!WithUsage(given, c)[k], d)
<1>1. /\ Records!Devices[k] = Reread(given[k]) /\ Kept(Records!Devices[k], given[k])
      /\ k \in DOMAIN Records!Devices
      /\ ValidDevice(Records!Devices[k])
  BY DevicesAreReread, ReadIsKept, RereadIsValid DEF RecordsInv, ValidDevices
<1>2. old = Used(Records!Devices[k], k \in c)
  BY <1>1 DEF Records!WithUsage, Used
<1>3. /\ old.purpose = Records!Devices[k].purpose
      /\ old.protected = Records!Devices[k].protected
      /\ old.origin = Records!Devices[k].origin
      /\ old.keyType = Records!Devices[k].keyType
  BY <1>1, <1>2 DEF Used, ValidDevice
<1>4. /\ g.purpose = new.purpose /\ g.protected = new.protected
      /\ g.origin = new.origin /\ g.keyType = new.keyType
  BY DEF Records!ApplyDeviceData, Records!NewDevice
<1> HIDE DEF old, new, g
<1>5. Tells(Records!Apply(Records!DeviceDiff(old, new), archived[k]), new)
  BY <1>1, <1>3, DiffTells DEF ArchiveInv, Kept
<1>6. Tells(Records!Apply(Records!DeviceDiff(old, new), archived[k]), g)
  BY <1>4, <1>5 DEF Tells
<1> QED
  BY <1>6 DEF old, new, g

LEMMA ArchiveInitially ==
    ASSUME Records!DeviceRecordsAssumption, Records!Init
    PROVE  ArchiveInv
<1>1. /\ DOMAIN given \subseteq RecordKeys
      /\ archived = [k \in DOMAIN given |-> Records!Archived(given[k])]
  <2>1. PICK ds \in {Records!Empty} \cup
                    {Records!Put(Records!Empty, k, [Records!NewDevice(d) EXCEPT !.used = TRUE]) :
                        k \in RecordKeys, d \in Records!DeviceData} :
           given = ds /\ archived = [k \in DOMAIN ds |-> Records!Archived(ds[k])]
    BY DEF Records!Init
  <2>2. DOMAIN ds \subseteq RecordKeys
    <3>1. DOMAIN Records!Empty \subseteq RecordKeys
      BY DEF Records!Empty
    <3>2. CASE ds = Records!Empty
      BY <3>1, <3>2
    <3>3. CASE \E k \in RecordKeys, d \in Records!DeviceData :
                 ds = Records!Put(Records!Empty, k, [Records!NewDevice(d) EXCEPT !.used = TRUE])
      BY <3>3 DEF Records!Empty, Records!Put
    <3> QED
      BY <3>2, <3>3
  <2> QED
    BY <2>1, <2>2
<1> QED
  BY <1>1, ArchivedTells DEF ArchiveInv

\* Every operation tells the archive what it does to the devices.
LEMMA ArchiveStep ==
    ASSUME Records!DeviceRecordsAssumption, RecordsInv, ArchiveInv,
           [Records!Next]_(Records!vars)
    PROVE  ArchiveInv'
<1>1. CASE UNCHANGED Records!vars
  BY <1>1 DEF Records!vars, ArchiveInv
<1>2. ASSUME NEW c, Records!RecordActivity(c)
      PROVE  ArchiveInv'
  BY <1>2, UsageIsArchived DEF Records!RecordActivity, ArchiveInv
<1>3. ASSUME NEW c, NEW k \in RecordKeys, Records!RemoveDevice(c, k)
      PROVE  ArchiveInv'
  BY <1>3, UsageIsArchived
     DEF Records!RemoveDevice, ArchiveInv, Records!Remove, Records!Restrict
<1>4. ASSUME NEW c, NEW k \in RecordKeys, NEW d \in Records!DeviceData,
             Records!AddDevice(c, k, d)
      PROVE  ArchiveInv'
  <2>1. Tells(Records!Archived(Records!NewDevice(d)), Records!NewDevice(d))
    BY ArchivedTells
  <2> QED
    BY <1>4, <2>1, UsageIsArchived DEF Records!AddDevice, ArchiveInv, Records!Put
<1>5. ASSUME NEW c, NEW k \in RecordKeys, NEW d \in Records!DeviceData,
             Records!UpdateDevice(c, k, d)
      PROVE  ArchiveInv'
  <2> DEFINE old == Records!WithUsage(Records!Devices, c)[k]
             new == Records!ApplyDeviceData(old, d)
             g == Records!ApplyDeviceData(Records!WithUsage(given, c)[k], d)
             e == Records!Apply(Records!DeviceDiff(old, new), archived[k])
  <2>1. /\ k \in DOMAIN given
        /\ given' = Records!Put(Records!WithUsage(given, c), k, g)
        /\ archived' = Records!Put(archived, k, e)
    BY <1>5, ReadIsKept DEF Records!UpdateDevice
  <2>2. Tells(e, g)
    BY <2>1, UpdateIsArchived
  <2> HIDE DEF g, e
  <2> QED
    BY <2>1, <2>2, UsageIsArchived DEF ArchiveInv, Records!Put
<1>6. ASSUME NEW c, NEW k \in RecordKeys, NEW d \in Records!DeviceData,
             NEW old \in RecordKeys, Records!ReplaceDevice(c, old, k, d)
      PROVE  ArchiveInv'
  <2>1. Tells(Records!Archived(Records!NewDevice(d)), Records!NewDevice(d))
    BY ArchivedTells
  <2> QED
    BY <1>6, <2>1, UsageIsArchived
       DEF Records!ReplaceDevice, ArchiveInv, Records!Put, Records!Remove, Records!Restrict
<1> QED
  BY <1>1, <1>2, <1>3, <1>4, <1>5, <1>6 DEF Records!Next

LEMMA RecordsAreTyped ==
    ASSUME Records!DeviceRecordsAssumption, RecordsInv, ArchiveInv
    PROVE  Records!TypeOK
<1>1. /\ DOMAIN passkeys = {k \in DOMAIN given : Records!StoredCred(given[k]) # NoCred}
      /\ DOMAIN recoveryKeys = {k \in DOMAIN given : Records!StoredCred(given[k]) = NoCred}
      /\ \A k \in DOMAIN passkeys : passkeys[k].cred = Records!StoredCred(given[k])
  BY DEF RecordsInv, Records!StoredPasskeys, Records!StoredRecoveryKeys, Records!PasskeyRecord
<1>2. DOMAIN Records!Devices = DOMAIN given
  BY ReadIsKept
<1> QED
  BY <1>1, <1>2 DEF Records!TypeOK, ArchiveInv

LEMMA ArchiveTellsDevices ==
    ASSUME Records!DeviceRecordsAssumption, RecordsInv, ArchiveInv
    PROVE  Records!OtherFieldsAreTold
<1>1. ASSUME NEW k \in DOMAIN given, NEW f \in Records!ArchivedFields \ {"cred"}
      PROVE  Records!Told(archived[k], Records!Devices[k], f)
  <2>1. Tells(archived[k], given[k]) /\ Kept(Records!Devices[k], given[k])
    BY ReadIsKept DEF ArchiveInv
  <2>2. f \in {"purpose", "protected", "origin", "keyType"}
    BY DEF Records!ArchivedFields
  <2> QED
    BY <2>1, <2>2 DEF Tells, Kept, Records!Told, Records!SameType
<1> QED
  BY <1>1, ReadIsKept DEF Records!OtherFieldsAreTold

-----------------------------------------------------------------------------
(***************************************************************************)
(* The OpenID credentials and their index.                                 *)
(*                                                                         *)
(* Two instances of OpenIdIndex start with no entries and with those of an *)
(* old version.  Their steps are of four kinds, about which everything is  *)
(* proved once: a credential is linked, one is unlinked, a batch of legacy *)
(* entries is migrated, or credentials and index stay as they are while    *)
(* calls are served.                                                       *)
(*                                                                         *)
(* DoneMeansMigrated is not inductive: before the migration is done, a     *)
(* credential may still wait for its legacy entry (Awaits), provided that  *)
(* it is the first one of its person in the anchor; and it may be missing  *)
(* if a legacy entry, or the removal of a credential, has changed an entry *)
(* of another anchor, which requires that both had it (contested).         *)
(***************************************************************************)

CredKeys == Persons \X Auds
KeysIn(ks) == {ks[i] : i \in DOMAIN ks}
Has(a, k) == a \in DOMAIN creds /\ k \in KeysIn(creds[a])
Had(a) == IF a \in DOMAIN creds THEN KeysIn(creds[a]) ELSE {}
Finds(k, a) == k \in DOMAIN index /\ index[k] = a

\* Credential k is the first one of its person.
IsFirst(ks, k) ==
    \E i \in DOMAIN ks : ks[i] = k /\ \A j \in DOMAIN ks : j < i => ks[j][1] # k[1]

\* The credentials that an anchor may have.
Linkable(ks) ==
    /\ ks \in Seq(CredKeys)
    /\ \A i, j \in DOMAIN ks : ks[i] = ks[j] => i = j
    /\ Len(ks) <= MaxLinked

\* Calls C await a salt.
Served(C) ==
    /\ salt \in C \cup {NoSalt, OldSalt}
    /\ DOMAIN pending \subseteq C
    /\ \A c \in DOMAIN pending : pending[c] \subseteq CredKeys \X (1..MaxAnchors)
    /\ answer \subseteq CredKeys \X (1..MaxAnchors)

\* Legacy entries are of persons P.
LinksTyped(P, C) ==
    /\ \E n \in 0..MaxAnchors : DOMAIN creds = 1..n
    /\ \A a \in DOMAIN creds : Linkable(creds[a])
    /\ DOMAIN index \subseteq CredKeys /\ \A k \in DOMAIN index : index[k] \in DOMAIN creds
    /\ DOMAIN legacy \subseteq P /\ \A p \in DOMAIN legacy : legacy[p] \in DOMAIN creds
    /\ contested \subseteq CredKeys
    /\ done \in BOOLEAN
    /\ Served(C)

\* The index and the anchors agree (new version).
Exact == \A k \in CredKeys, a \in 1..MaxAnchors : Finds(k, a) <=> Has(a, k)
Current == \A w \in answer : Has(w[2], w[1])

\* The credential waits for the migration of a legacy entry.
Awaits(a, k) == k[1] \in DOMAIN legacy /\ legacy[k[1]] = a /\ IsFirst(creds[a], k)

\* Every credential is found, waits, or is contested (old version).
SharedIsContested ==
    \A a, b \in DOMAIN creds : \A k \in KeysIn(creds[a]) :
        Has(b, k) /\ a # b => k \in contested
Migrating ==
    /\ SharedIsContested
    /\ \A a \in DOMAIN creds : \A k \in KeysIn(creds[a]) :
          Finds(k, a) \/ Awaits(a, k) \/ k \in contested
    /\ done => legacy = Old!Empty

NewLinksInv == LinksTyped({}, Calls) /\ Exact /\ Current
OldLinksInv == LinksTyped(Persons, {}) /\ Migrating

LEMMA AppendFact ==
    ASSUME MaxLinked \in Nat, NEW ks, Linkable(ks), NEW k \in CredKeys,
           k \notin KeysIn(ks), Len(ks) < MaxLinked
    PROVE  LET more == Append(ks, k)
           IN  /\ Linkable(more)
               /\ KeysIn(more) = KeysIn(ks) \cup {k}
               /\ \A x : IsFirst(ks, x) => IsFirst(more, x)
<1> DEFINE more == Append(ks, k)
<1>1. /\ ks \in Seq(CredKeys) /\ Len(ks) \in Nat /\ DOMAIN ks = 1..Len(ks)
      /\ more \in Seq(CredKeys) /\ Len(more) = Len(ks) + 1
      /\ DOMAIN more = 1..(Len(ks) + 1)
      /\ \A i \in 1..Len(ks) : more[i] = ks[i]
      /\ more[Len(ks) + 1] = k
  BY DEF Linkable
<1> HIDE DEF more
<1>2. \A i \in DOMAIN ks : ks[i] # k
  BY DEF KeysIn
<1>3. Linkable(more)
  <2>1. Len(more) <= MaxLinked
    BY <1>1
  <2>2. \A i, j \in DOMAIN more : more[i] = more[j] => i = j
    BY <1>1, <1>2 DEF Linkable
  <2> QED
    BY <1>1, <2>1, <2>2 DEF Linkable
<1>4. KeysIn(more) = KeysIn(ks) \cup {k}
  BY <1>1 DEF KeysIn
<1>5. ASSUME NEW x, IsFirst(ks, x)
      PROVE  IsFirst(more, x)
  BY <1>1, <1>5 DEF IsFirst
<1> QED
  BY <1>3, <1>4, <1>5 DEF more

LEMMA SingleFact ==
    ASSUME MaxLinked \in Nat \ {0}, NEW k \in CredKeys
    PROVE  Linkable(<<k>>) /\ KeysIn(<<k>>) = {k}
<1>1. <<k>> \in Seq(CredKeys) /\ Len(<<k>>) = 1 /\ DOMAIN <<k>> = 1..1 /\ <<k>>[1] = k
  OBVIOUS
<1> QED
  BY <1>1 DEF Linkable, KeysIn

LEMMA RemoveAtFact ==
    ASSUME MaxLinked \in Nat, NEW ks, Linkable(ks), NEW p \in DOMAIN ks
    PROVE  LET less == SubSeq(ks, 1, p - 1) \o SubSeq(ks, p + 1, Len(ks))
           IN  /\ Linkable(less)
               /\ KeysIn(less) = KeysIn(ks) \ {ks[p]}
               /\ \A x : x # ks[p] /\ IsFirst(ks, x) => IsFirst(less, x)
<1> DEFINE before == SubSeq(ks, 1, p - 1)
           after == SubSeq(ks, p + 1, Len(ks))
           less == before \o after
           Place(i) == IF i < p THEN i ELSE i + 1
<1>1. /\ ks \in Seq(CredKeys) /\ Len(ks) \in Nat /\ DOMAIN ks = 1..Len(ks) /\ p \in 1..Len(ks)
      /\ \A i \in 1..Len(ks) : ks[i] \in CredKeys
  BY DEF Linkable
<1>2. /\ before \in Seq(CredKeys) /\ Len(before) = p - 1
      /\ \A i \in 1..(p - 1) : before[i] = ks[i]
  <2>1. \A i \in 1..(p - 1) : ks[i] \in CredKeys
    BY <1>1
  <2> QED
    BY <1>1, <2>1, SubSeqProperties
<1>3. /\ after \in Seq(CredKeys) /\ Len(after) = Len(ks) - p
      /\ \A i \in 1..(Len(ks) - p) : after[i] = ks[p + i]
  <2>1. \A i \in (p + 1)..Len(ks) : ks[i] \in CredKeys
    BY <1>1
  <2>2. /\ after \in Seq(CredKeys)
        /\ Len(after) = IF p + 1 <= Len(ks) THEN Len(ks) - (p + 1) + 1 ELSE 0
        /\ \A i \in 1..(Len(ks) - (p + 1) + 1) : after[i] = ks[(p + 1) + i - 1]
    BY <1>1, <2>1, SubSeqProperties
  <2> QED
    BY SMTT(30), <1>1, <2>2
<1> HIDE DEF before, after
<1>4. /\ less \in Seq(CredKeys) /\ Len(less) = Len(ks) - 1
      /\ DOMAIN less = 1..(Len(ks) - 1)
      /\ \A i \in 1..(Len(ks) - 1) : less[i] = ks[Place(i)]
  <2>1. /\ less \in Seq(CredKeys) /\ Len(less) = (p - 1) + (Len(ks) - p)
        /\ \A i \in 1..((p - 1) + (Len(ks) - p)) :
              less[i] = IF i <= p - 1 THEN before[i] ELSE after[i - (p - 1)]
    <3>1. /\ less \in Seq(CredKeys) /\ Len(less) = Len(before) + Len(after)
          /\ \A i \in 1..(Len(before) + Len(after)) :
                less[i] = IF i <= Len(before) THEN before[i] ELSE after[i - Len(before)]
      BY <1>2, <1>3, ConcatProperties
    <3> QED
      BY <1>2, <1>3, <3>1
  <2>2. (p - 1) + (Len(ks) - p) = Len(ks) - 1
    BY <1>1
  <2>3. ASSUME NEW i \in 1..(Len(ks) - 1)
        PROVE  less[i] = ks[Place(i)]
    <3>1. CASE i < p
      BY <1>1, <1>2, <2>1, <2>2, <3>1
    <3>2. CASE ~(i < p)
      <4>1. i - (p - 1) \in 1..(Len(ks) - p) /\ ~(i <= p - 1) /\ p + (i - (p - 1)) = i + 1
        BY <1>1, <3>2
      <4> QED
        BY <1>3, <2>1, <2>2, <3>2, <4>1
    <3> QED
      BY <3>1, <3>2
  <2> HIDE DEF less, Place
  <2>4. Len(less) = Len(ks) - 1 /\ DOMAIN less = 1..Len(less)
    BY <2>1, <2>2, LenProperties
  <2> QED
    BY <2>1, <2>3, <2>4
<1> HIDE DEF less
<1>5. /\ \A i \in 1..(Len(ks) - 1) : Place(i) \in DOMAIN ks /\ Place(i) # p
      /\ \A i, j \in 1..(Len(ks) - 1) : Place(i) = Place(j) => i = j
      /\ \A j \in DOMAIN ks : j # p =>
            \E i \in 1..(Len(ks) - 1) : Place(i) = j
      /\ \A i, j \in 1..(Len(ks) - 1) : j < i => Place(j) < Place(i)
  <2>1. ASSUME NEW j \in DOMAIN ks, j # p
        PROVE  \E i \in 1..(Len(ks) - 1) : Place(i) = j
    <3>1. CASE j < p
      BY <1>1, <3>1
    <3>2. CASE j > p
      <4>1. j - 1 \in 1..(Len(ks) - 1) /\ Place(j - 1) = j
        BY <1>1, <3>2
      <4> QED
        BY <4>1
    <3> QED
      BY <1>1, <2>1, <3>1, <3>2
  <2> QED
    BY <1>1, <2>1
<1> HIDE DEF Place
<1>6. Linkable(less)
  <2>1. Len(less) <= MaxLinked
    BY <1>1, <1>4 DEF Linkable
  <2>2. \A i, j \in DOMAIN less : less[i] = less[j] => i = j
    BY <1>4, <1>5 DEF Linkable
  <2> QED
    BY <1>4, <2>1, <2>2 DEF Linkable
<1>7. KeysIn(less) = KeysIn(ks) \ {ks[p]}
  <2>1. ASSUME NEW k \in KeysIn(less)
        PROVE  k \in KeysIn(ks) \ {ks[p]}
    BY <1>4, <1>5 DEF Linkable, KeysIn
  <2>2. ASSUME NEW k \in KeysIn(ks) \ {ks[p]}
        PROVE  k \in KeysIn(less)
    <3>1. PICK j \in DOMAIN ks : ks[j] = k /\ j # p
      BY DEF KeysIn
    <3>2. PICK i \in 1..(Len(ks) - 1) : Place(i) = j
      BY <1>5, <3>1
    <3> QED
      BY <1>4, <3>1, <3>2 DEF KeysIn
  <2> QED
    BY <2>1, <2>2
<1>8. ASSUME NEW x, x # ks[p], IsFirst(ks, x)
      PROVE  IsFirst(less, x)
  <2>1. PICK j \in DOMAIN ks : ks[j] = x /\ \A l \in DOMAIN ks : l < j => ks[l][1] # x[1]
    BY <1>8 DEF IsFirst
  <2>2. PICK i \in 1..(Len(ks) - 1) : Place(i) = j
    BY <1>5, <1>8, <2>1
  <2>3. less[i] = x /\ i \in DOMAIN less
    BY <1>4, <2>1, <2>2
  <2>4. ASSUME NEW l \in DOMAIN less, l < i
        PROVE  less[l][1] # x[1]
    <3>1. l \in 1..(Len(ks) - 1) /\ Place(l) \in DOMAIN ks /\ Place(l) < j
      BY <1>4, <1>5, <2>2, <2>4
    <3> QED
      BY <1>4, <2>1, <3>1
  <2> QED
    BY <2>3, <2>4 DEF IsFirst
<1> QED
  BY <1>6, <1>7, <1>8 DEF less, before, after

-----------------------------------------------------------------------------
(***************************************************************************)
(* The four kinds of steps.                                                *)
(***************************************************************************)

CredsWritten(a, ks) ==
    /\ creds' = [b \in DOMAIN creds \cup {a} |-> IF b = a THEN ks ELSE creds[b]]
    /\ index' = [k \in (DOMAIN index \ (Had(a) \ KeysIn(ks))) \cup (KeysIn(ks) \ Had(a)) |->
                    IF k \in KeysIn(ks) \ Had(a) THEN a ELSE index[k]]
    /\ contested' = contested \cup
           {k \in KeysIn(ks) : \E b \in DOMAIN creds \ {a} : Has(b, k)}
    /\ answer' = {}
    /\ UNCHANGED <<legacy, done, salt, pending>>

\* k is linked to anchor a, which may be a new one.
Links(a, ks, k) ==
    /\ CredsWritten(a, ks)
    /\ Linkable(ks) /\ KeysIn(ks) = Had(a) \cup {k}
    /\ k \notin DOMAIN index /\ k \notin Had(a)
    /\ a \in DOMAIN creds \/ DOMAIN creds = 1..(a - 1)
    /\ \A x \in CredKeys : a \in DOMAIN creds /\ IsFirst(creds[a], x) => IsFirst(ks, x)

Unlinks(a, ks, k) ==
    /\ CredsWritten(a, ks)
    /\ Linkable(ks) /\ KeysIn(ks) = Had(a) \ {k}
    /\ a \in DOMAIN creds /\ k \in Had(a)
    /\ \A x \in CredKeys : x # k /\ IsFirst(creds[a], x) => IsFirst(ks, x)

Serves(C) ==
    /\ UNCHANGED <<creds, index, legacy, contested>>
    /\ done' \in {done, FALSE}
    /\ Served(C)'
    /\ \A w \in answer' : w \in answer \/ Finds(w[1], w[2])

\* The credentials that legacy entries stand for: the first of each person.
Resolves(batch) == {k \in CredKeys : k[1] \in batch /\ IsFirst(creds[legacy[k[1]]], k)}

Migrates(batch) ==
    /\ legacy' = [p \in DOMAIN legacy \ batch |-> legacy[p]]
    /\ index' = [k \in DOMAIN index \cup Resolves(batch) |->
                    IF k \in Resolves(batch) THEN legacy[k[1]] ELSE index[k]]
    /\ done' \in BOOLEAN
    /\ done' => batch = DOMAIN legacy
    /\ answer' = {}
    /\ UNCHANGED <<creds, salt, pending, contested>>

Moves(C) ==
    \/ \E a \in 1..MaxAnchors, ks \in Seq(CredKeys), k \in CredKeys :
          Links(a, ks, k) \/ Unlinks(a, ks, k)
    \/ Serves(C)
    \/ \E batch \in SUBSET DOMAIN legacy : Migrates(batch)

FirstOf(ks, p) ==
    LET candidates == {i \in DOMAIN ks : ks[i][1] = p}
    IN  {ks[i] : i \in {j \in candidates : \A l \in candidates : j <= l}}

LEMMA FirstOfFact ==
    ASSUME NEW ks, Linkable(ks), NEW p, NEW k
    PROVE  k \in FirstOf(ks, p) <=> k \in CredKeys /\ k[1] = p /\ IsFirst(ks, k)
<1>1. /\ DOMAIN ks = 1..Len(ks) /\ Len(ks) \in Nat
      /\ \A i \in DOMAIN ks : ks[i] \in CredKeys
  BY DEF Linkable
<1>2. ASSUME k \in FirstOf(ks, p)
      PROVE  k \in CredKeys /\ k[1] = p /\ IsFirst(ks, k)
  <2>1. PICK i \in DOMAIN ks :
           k = ks[i] /\ ks[i][1] = p /\ \A l \in DOMAIN ks : ks[l][1] = p => i <= l
    BY <1>2 DEF FirstOf
  <2>2. \A j \in DOMAIN ks : j < i => ks[j][1] # k[1]
    BY <1>1, <2>1
  <2> QED
    BY <1>1, <2>1, <2>2 DEF IsFirst
<1>3. ASSUME k[1] = p, IsFirst(ks, k)
      PROVE  k \in FirstOf(ks, p)
  <2>1. PICK i \in DOMAIN ks : ks[i] = k /\ \A j \in DOMAIN ks : j < i => ks[j][1] # k[1]
    BY <1>3 DEF IsFirst
  <2>2. \A l \in DOMAIN ks : ks[l][1] = p => i <= l
    BY <1>1, <1>3, <2>1
  <2> QED
    BY <1>3, <2>1, <2>2 DEF FirstOf
<1> QED
  BY <1>2, <1>3

\* Resolves is what a batch migrates to, entry by entry.
LEMMA ResolvesFact ==
    ASSUME NEW P, NEW C, LinksTyped(P, C), NEW batch \in SUBSET DOMAIN legacy
    PROVE  UNION {FirstOf(creds[legacy[p]], p) : p \in batch} = Resolves(batch)
<1>1. \A p \in batch : Linkable(creds[legacy[p]])
  BY DEF LinksTyped
<1>2. \A p \in batch : \A k :
          k \in FirstOf(creds[legacy[p]], p)
              <=> k \in CredKeys /\ k[1] = p /\ IsFirst(creds[legacy[p]], k)
  BY <1>1, FirstOfFact
<1>3. \A k : k \in Resolves(batch)
                 <=> \E p \in batch : k \in CredKeys /\ k[1] = p /\ IsFirst(creds[legacy[p]], k)
  BY DEF Resolves
<1> QED
  BY <1>2, <1>3

LEMMA AnchorsAreInRange ==
    ASSUME MaxAnchors \in Nat, NEW P, NEW C, LinksTyped(P, C)
    PROVE  \A a \in DOMAIN creds : a \in 1..MaxAnchors
BY DEF LinksTyped

\* The steps of the new version are of these kinds.
LEMMA NewWriteFact ==
    ASSUME NEW a, NEW ks, New!Write(a, ks)
    PROVE  CredsWritten(a, ks)
BY DEF New!Write, New!Synced, New!ToSet, New!Holds, CredsWritten, Had, KeysIn, Has

LEMMA NewCardinality ==
    ASSUME NEW n \in Nat, DOMAIN creds = 1..n
    PROVE  New!Cardinality(DOMAIN creds) = n
<1>1. New!Cardinality(DOMAIN creds) = Cardinality(1..n)
  BY DEF New!Cardinality, Cardinality
<1> QED
  BY <1>1, FS_Interval

LEMMA NewRegister ==
    ASSUME New!OpenIdIndexAssumption, LinksTyped({}, Calls), NEW k \in CredKeys,
           New!FinishRegistration(k)
    PROVE  Moves(Calls)
<1>1. PICK n \in 0..MaxAnchors : DOMAIN creds = 1..n
  BY DEF LinksTyped
<1>2. /\ k \notin DOMAIN index /\ n < MaxAnchors /\ New!Write(n + 1, <<k>>)
  BY <1>1, NewCardinality DEF New!FinishRegistration, New!Unused
<1>3. /\ n \in Nat /\ n + 1 \in 1..MaxAnchors /\ n + 1 \notin DOMAIN creds
      /\ DOMAIN creds = 1..((n + 1) - 1)
  BY <1>1, <1>2 DEF New!OpenIdIndexAssumption
<1>4. Linkable(<<k>>) /\ KeysIn(<<k>>) = {k} /\ <<k>> \in Seq(CredKeys)
  BY SingleFact DEF New!OpenIdIndexAssumption
<1>5. Links(n + 1, <<k>>, k)
  BY <1>2, <1>3, <1>4, NewWriteFact DEF Links, Had
<1> QED
  BY <1>3, <1>4, <1>5 DEF Moves

LEMMA NewLink ==
    ASSUME New!OpenIdIndexAssumption, LinksTyped({}, Calls), NEW k \in CredKeys,
           NEW a \in DOMAIN creds, New!Add(a, k)
    PROVE  Moves(Calls)
<1>1. Linkable(creds[a]) /\ a \in 1..MaxAnchors /\ Had(a) = KeysIn(creds[a])
  BY AnchorsAreInRange DEF New!OpenIdIndexAssumption, LinksTyped, Had
<1>2. /\ k \notin DOMAIN index /\ k \notin KeysIn(creds[a]) /\ Len(creds[a]) < MaxLinked
      /\ New!Write(a, Append(creds[a], k))
  BY DEF New!Add, New!Unused, New!Holds, New!ToSet, New!MayLink, KeysIn
<1> DEFINE ks == Append(creds[a], k)
<1>3. /\ Linkable(ks) /\ KeysIn(ks) = KeysIn(creds[a]) \cup {k}
      /\ \A x : IsFirst(creds[a], x) => IsFirst(ks, x)
  BY <1>1, <1>2, AppendFact DEF New!OpenIdIndexAssumption
<1>4. CredsWritten(a, ks)
  BY <1>2, NewWriteFact
<1> HIDE DEF ks
<1>5. Links(a, ks, k) /\ ks \in Seq(CredKeys)
  BY <1>1, <1>2, <1>3, <1>4 DEF Links, Linkable
<1> QED
  BY <1>1, <1>5 DEF Moves

LEMMA NewUnlink ==
    ASSUME New!OpenIdIndexAssumption, LinksTyped({}, Calls), NEW k \in CredKeys,
           NEW a \in DOMAIN creds, New!RemoveCredential(a, k)
    PROVE  Moves(Calls)
<1>1. Linkable(creds[a]) /\ a \in 1..MaxAnchors /\ Had(a) = KeysIn(creds[a])
  BY AnchorsAreInRange DEF New!OpenIdIndexAssumption, LinksTyped, Had
<1>2. PICK i \in DOMAIN creds[a] :
         creds[a][i] = k /\ New!Write(a, New!RemoveAt(creds[a], i))
  BY DEF New!RemoveCredential
<1> DEFINE ks == SubSeq(creds[a], 1, i - 1) \o SubSeq(creds[a], i + 1, Len(creds[a]))
<1>3. /\ Linkable(ks) /\ KeysIn(ks) = KeysIn(creds[a]) \ {k}
      /\ \A x : x # k /\ IsFirst(creds[a], x) => IsFirst(ks, x)
  BY <1>1, <1>2, RemoveAtFact DEF New!OpenIdIndexAssumption
<1>4. CredsWritten(a, ks)
  BY <1>2, NewWriteFact DEF New!RemoveAt
<1> HIDE DEF ks
<1>5. k \in Had(a)
  BY <1>1, <1>2 DEF KeysIn
<1>6. Unlinks(a, ks, k) /\ ks \in Seq(CredKeys)
  BY <1>1, <1>3, <1>4, <1>5 DEF Unlinks, Linkable
<1> QED
  BY <1>1, <1>6 DEF Moves

LEMMA NewBatch ==
    ASSUME New!OpenIdIndexAssumption, LinksTyped({}, Calls), New!RunMigrationBatch
    PROVE  Moves(Calls)
<1>1. PICK batch \in SUBSET DOMAIN legacy :
         LET new == UNION {New!Resolved(p) : p \in batch}
         IN  /\ \/ New!Cardinality(batch) = BatchSize
                \/ New!Cardinality(batch) < BatchSize /\ batch = DOMAIN legacy
             /\ legacy' = New!Without(legacy, batch)
             /\ index' = [k \in DOMAIN index \cup new |->
                             IF k \in new THEN legacy[k[1]] ELSE index[k]]
             /\ done' = (New!Cardinality(batch) < BatchSize)
  BY DEF New!RunMigrationBatch, New!MigrateBatch, New!IsLast
<1>2. UNION {New!Resolved(p) : p \in batch} = Resolves(batch)
  <2>1. \A p : New!Resolved(p) = FirstOf(creds[legacy[p]], p)
    BY DEF New!Resolved, New!Candidates, FirstOf
  <2> QED
    BY <2>1, ResolvesFact
<1>3. done' => batch = DOMAIN legacy
  <2>1. BatchSize \in Nat
    BY DEF New!OpenIdIndexAssumption
  <2>2. CASE New!Cardinality(batch) = BatchSize
    <3>1. ~(New!Cardinality(batch) < BatchSize)
      BY <2>1, <2>2
    <3> QED
      BY <1>1, <3>1, Zenon
  <2> QED
    BY <1>1, <2>2, Zenon
<1>4. Migrates(batch)
  BY <1>1, <1>2, <1>3
     DEF Migrates, New!RunMigrationBatch, New!Without, New!Restrict
<1> QED
  BY <1>4 DEF Moves

LEMMA NewServe ==
    ASSUME New!OpenIdIndexAssumption, LinksTyped({}, Calls),
           \/ \E k \in CredKeys, a \in DOMAIN creds :
                 \/ New!PrepareDelegation(k, a)
                 \/ \E c \in Calls : New!AwaitDelegation(c, k, a)
           \/ \E c \in Calls : New!AwaitSalt(c) \/ New!SetSalt(c) \/ New!Trap(c)
           \/ New!Upgrade
           \/ UNCHANGED New!vars
    PROVE  Moves(Calls)
<1>1. \A a \in DOMAIN creds : a \in 1..MaxAnchors
  BY AnchorsAreInRange DEF New!OpenIdIndexAssumption
<1>2. ASSUME NEW want, NEW w \in New!Answered(want)
      PROVE  w \in want /\ Finds(w[1], w[2])
  BY DEF New!Answered, New!Found, Finds
<1>3. ASSUME NEW k \in CredKeys, NEW a \in DOMAIN creds, New!PrepareDelegation(k, a)
      PROVE  Serves(Calls)
  <2>1. Served(Calls)'
    BY <1>1, <1>2, <1>3 DEF New!PrepareDelegation, LinksTyped, Served
  <2>2. \A w \in answer' : Finds(w[1], w[2])
    BY <1>2, <1>3 DEF New!PrepareDelegation
  <2> QED
    BY <1>3, <2>1, <2>2 DEF New!PrepareDelegation, Serves
<1>4. ASSUME NEW c \in Calls, NEW want \in SUBSET (CredKeys \X (1..MaxAnchors)),
             New!Await(c, want)
      PROVE  Serves(Calls)
  <2>1. Served(Calls)'
    BY <1>4 DEF New!Await, LinksTyped, Served
  <2> QED
    BY <1>4, <2>1 DEF New!Await, Serves
<1>5. ASSUME NEW c \in Calls, New!SetSalt(c)
      PROVE  Serves(Calls)
  <2>1. /\ DOMAIN pending' \subseteq Calls
        /\ \A e \in DOMAIN pending' : pending'[e] \subseteq CredKeys \X (1..MaxAnchors)
    BY <1>5 DEF New!SetSalt, New!Without, New!Restrict, LinksTyped, Served
  <2>2. /\ answer' \subseteq CredKeys \X (1..MaxAnchors)
        /\ \A w \in answer' : Finds(w[1], w[2])
    BY <1>2, <1>5 DEF New!SetSalt, LinksTyped, Served
  <2> QED
    BY <1>5, <2>1, <2>2 DEF New!SetSalt, Served, Serves
<1>6. ASSUME NEW c \in Calls, New!Trap(c)
      PROVE  Serves(Calls)
  BY <1>6 DEF New!Trap, New!Without, New!Restrict, LinksTyped, Served, Serves
<1>7. CASE New!Upgrade
  BY <1>7 DEF New!Upgrade, LinksTyped, Served, Moves, Serves
<1>8. CASE UNCHANGED New!vars
  BY <1>8 DEF New!vars, LinksTyped, Served, Moves, Serves
<1>9. ASSUME NEW c \in Calls, NEW k \in CredKeys, NEW a \in DOMAIN creds,
             New!AwaitDelegation(c, k, a)
      PROVE  Serves(Calls)
  <2>1. {<<k, a>>} \in SUBSET (CredKeys \X (1..MaxAnchors))
    BY <1>1
  <2> QED
    BY <1>4, <1>9, <2>1 DEF New!AwaitDelegation
<1>10. ASSUME NEW c \in Calls, New!AwaitSalt(c)
       PROVE  Serves(Calls)
  BY <1>4, <1>10 DEF New!AwaitSalt
<1> QED
  BY <1>3, <1>5, <1>6, <1>7, <1>8, <1>9, <1>10 DEF Moves

LEMMA NewMoves ==
    ASSUME New!OpenIdIndexAssumption, LinksTyped({}, Calls), [New!Next]_(New!vars)
    PROVE  Moves(Calls)
<1>1. New!CredentialKeys = CredKeys
  BY DEF New!CredentialKeys, CredKeys
<1> QED
  BY <1>1, NewRegister, NewLink, NewUnlink, NewBatch, NewServe DEF New!Next

\* The steps of the old version are of these kinds.
LEMMA OldWriteFact ==
    ASSUME NEW a, NEW ks, Old!Write(a, ks)
    PROVE  CredsWritten(a, ks)
BY DEF Old!Write, Old!Synced, Old!ToSet, Old!Holds, CredsWritten, Had, KeysIn, Has

LEMMA OldCardinality ==
    ASSUME NEW n \in Nat, DOMAIN creds = 1..n
    PROVE  Old!Cardinality(DOMAIN creds) = n
<1>1. Old!Cardinality(DOMAIN creds) = Cardinality(1..n)
  BY DEF Old!Cardinality, Cardinality
<1> QED
  BY <1>1, FS_Interval

LEMMA OldRegister ==
    ASSUME Old!OpenIdIndexAssumption, LinksTyped(Persons, {}), NEW k \in CredKeys,
           Old!FinishRegistration(k)
    PROVE  Moves({})
<1>1. PICK n \in 0..MaxAnchors : DOMAIN creds = 1..n
  BY DEF LinksTyped
<1>2. /\ k \notin DOMAIN index /\ n < MaxAnchors /\ Old!Write(n + 1, <<k>>)
  BY <1>1, OldCardinality DEF Old!FinishRegistration, Old!Unused
<1>3. /\ n \in Nat /\ n + 1 \in 1..MaxAnchors /\ n + 1 \notin DOMAIN creds
      /\ DOMAIN creds = 1..((n + 1) - 1)
  BY <1>1, <1>2 DEF Old!OpenIdIndexAssumption
<1>4. Linkable(<<k>>) /\ KeysIn(<<k>>) = {k} /\ <<k>> \in Seq(CredKeys)
  BY SingleFact DEF Old!OpenIdIndexAssumption
<1>5. Links(n + 1, <<k>>, k)
  BY <1>2, <1>3, <1>4, OldWriteFact DEF Links, Had
<1> QED
  BY <1>3, <1>4, <1>5 DEF Moves

LEMMA OldLink ==
    ASSUME Old!OpenIdIndexAssumption, LinksTyped(Persons, {}), NEW k \in CredKeys,
           NEW a \in DOMAIN creds, Old!Add(a, k)
    PROVE  Moves({})
<1>1. Linkable(creds[a]) /\ a \in 1..MaxAnchors /\ Had(a) = KeysIn(creds[a])
  BY AnchorsAreInRange DEF Old!OpenIdIndexAssumption, LinksTyped, Had
<1>2. /\ k \notin DOMAIN index /\ k \notin KeysIn(creds[a]) /\ Len(creds[a]) < MaxLinked
      /\ Old!Write(a, Append(creds[a], k))
  BY DEF Old!Add, Old!Unused, Old!Holds, Old!ToSet, Old!MayLink, KeysIn
<1> DEFINE ks == Append(creds[a], k)
<1>3. /\ Linkable(ks) /\ KeysIn(ks) = KeysIn(creds[a]) \cup {k}
      /\ \A x : IsFirst(creds[a], x) => IsFirst(ks, x)
  BY <1>1, <1>2, AppendFact DEF Old!OpenIdIndexAssumption
<1>4. CredsWritten(a, ks)
  BY <1>2, OldWriteFact
<1> HIDE DEF ks
<1>5. Links(a, ks, k) /\ ks \in Seq(CredKeys)
  BY <1>1, <1>2, <1>3, <1>4 DEF Links, Linkable
<1> QED
  BY <1>1, <1>5 DEF Moves

LEMMA OldUnlink ==
    ASSUME Old!OpenIdIndexAssumption, LinksTyped(Persons, {}), NEW k \in CredKeys,
           NEW a \in DOMAIN creds, Old!RemoveCredential(a, k)
    PROVE  Moves({})
<1>1. Linkable(creds[a]) /\ a \in 1..MaxAnchors /\ Had(a) = KeysIn(creds[a])
  BY AnchorsAreInRange DEF Old!OpenIdIndexAssumption, LinksTyped, Had
<1>2. PICK i \in DOMAIN creds[a] :
         creds[a][i] = k /\ Old!Write(a, Old!RemoveAt(creds[a], i))
  BY DEF Old!RemoveCredential
<1> DEFINE ks == SubSeq(creds[a], 1, i - 1) \o SubSeq(creds[a], i + 1, Len(creds[a]))
<1>3. /\ Linkable(ks) /\ KeysIn(ks) = KeysIn(creds[a]) \ {k}
      /\ \A x : x # k /\ IsFirst(creds[a], x) => IsFirst(ks, x)
  BY <1>1, <1>2, RemoveAtFact DEF Old!OpenIdIndexAssumption
<1>4. CredsWritten(a, ks)
  BY <1>2, OldWriteFact DEF Old!RemoveAt
<1> HIDE DEF ks
<1>5. k \in Had(a)
  BY <1>1, <1>2 DEF KeysIn
<1>6. Unlinks(a, ks, k) /\ ks \in Seq(CredKeys)
  BY <1>1, <1>3, <1>4, <1>5 DEF Unlinks, Linkable
<1> QED
  BY <1>1, <1>6 DEF Moves

LEMMA OldBatch ==
    ASSUME Old!OpenIdIndexAssumption, LinksTyped(Persons, {}), Old!RunMigrationBatch
    PROVE  Moves({})
<1>1. PICK batch \in SUBSET DOMAIN legacy :
         LET new == UNION {Old!Resolved(p) : p \in batch}
         IN  /\ \/ Old!Cardinality(batch) = BatchSize
                \/ Old!Cardinality(batch) < BatchSize /\ batch = DOMAIN legacy
             /\ legacy' = Old!Without(legacy, batch)
             /\ index' = [k \in DOMAIN index \cup new |->
                             IF k \in new THEN legacy[k[1]] ELSE index[k]]
             /\ done' = (Old!Cardinality(batch) < BatchSize)
  BY DEF Old!RunMigrationBatch, Old!MigrateBatch, Old!IsLast
<1>2. UNION {Old!Resolved(p) : p \in batch} = Resolves(batch)
  <2>1. \A p : Old!Resolved(p) = FirstOf(creds[legacy[p]], p)
    BY DEF Old!Resolved, Old!Candidates, FirstOf
  <2> QED
    BY <2>1, ResolvesFact
<1>3. done' => batch = DOMAIN legacy
  <2>1. BatchSize \in Nat
    BY DEF Old!OpenIdIndexAssumption
  <2>2. CASE Old!Cardinality(batch) = BatchSize
    <3>1. ~(Old!Cardinality(batch) < BatchSize)
      BY <2>1, <2>2
    <3> QED
      BY <1>1, <3>1, Zenon
  <2> QED
    BY <1>1, <2>2, Zenon
<1>4. Migrates(batch)
  BY <1>1, <1>2, <1>3
     DEF Migrates, Old!RunMigrationBatch, Old!Without, Old!Restrict
<1> QED
  BY <1>4 DEF Moves

LEMMA OldServe ==
    ASSUME Old!OpenIdIndexAssumption, LinksTyped(Persons, {}),
           \/ \E k \in CredKeys, a \in DOMAIN creds :
                 \/ Old!PrepareDelegation(k, a)
                 \/ \E c \in {} : Old!AwaitDelegation(c, k, a)
           \/ \E c \in {} : Old!AwaitSalt(c) \/ Old!SetSalt(c) \/ Old!Trap(c)
           \/ Old!Upgrade
           \/ UNCHANGED Old!vars
    PROVE  Moves({})
<1>1. \A a \in DOMAIN creds : a \in 1..MaxAnchors
  BY AnchorsAreInRange DEF Old!OpenIdIndexAssumption
<1>2. ASSUME NEW want, NEW w \in Old!Answered(want)
      PROVE  w \in want /\ Finds(w[1], w[2])
  BY DEF Old!Answered, Old!Found, Finds
<1>3. ASSUME NEW k \in CredKeys, NEW a \in DOMAIN creds, Old!PrepareDelegation(k, a)
      PROVE  Serves({})
  <2>1. Served({})'
    BY <1>1, <1>2, <1>3 DEF Old!PrepareDelegation, LinksTyped, Served
  <2>2. \A w \in answer' : Finds(w[1], w[2])
    BY <1>2, <1>3 DEF Old!PrepareDelegation
  <2> QED
    BY <1>3, <2>1, <2>2 DEF Old!PrepareDelegation, Serves
<1>4. ASSUME NEW c \in {}, NEW want \in SUBSET (CredKeys \X (1..MaxAnchors)),
             Old!Await(c, want)
      PROVE  Serves({})
  <2>1. Served({})'
    BY <1>4 DEF Old!Await, LinksTyped, Served
  <2> QED
    BY <1>4, <2>1 DEF Old!Await, Serves
<1>5. ASSUME NEW c \in {}, Old!SetSalt(c)
      PROVE  Serves({})
  <2>1. /\ DOMAIN pending' \subseteq {}
        /\ \A e \in DOMAIN pending' : pending'[e] \subseteq CredKeys \X (1..MaxAnchors)
    BY <1>5 DEF Old!SetSalt, Old!Without, Old!Restrict, LinksTyped, Served
  <2>2. /\ answer' \subseteq CredKeys \X (1..MaxAnchors)
        /\ \A w \in answer' : Finds(w[1], w[2])
    BY <1>2, <1>5 DEF Old!SetSalt, LinksTyped, Served
  <2> QED
    BY <1>5, <2>1, <2>2 DEF Old!SetSalt, Served, Serves
<1>6. ASSUME NEW c \in {}, Old!Trap(c)
      PROVE  Serves({})
  BY <1>6 DEF Old!Trap, Old!Without, Old!Restrict, LinksTyped, Served, Serves
<1>7. CASE Old!Upgrade
  BY <1>7 DEF Old!Upgrade, LinksTyped, Served, Moves, Serves
<1>8. CASE UNCHANGED Old!vars
  BY <1>8 DEF Old!vars, LinksTyped, Served, Moves, Serves
<1>9. ASSUME NEW c \in {}, NEW k \in CredKeys, NEW a \in DOMAIN creds,
             Old!AwaitDelegation(c, k, a)
      PROVE  Serves({})
  <2>1. {<<k, a>>} \in SUBSET (CredKeys \X (1..MaxAnchors))
    BY <1>1
  <2> QED
    BY <1>4, <1>9, <2>1 DEF Old!AwaitDelegation
<1>10. ASSUME NEW c \in {}, Old!AwaitSalt(c)
       PROVE  Serves({})
  BY <1>4, <1>10 DEF Old!AwaitSalt
<1> QED
  BY <1>3, <1>5, <1>6, <1>7, <1>8, <1>9, <1>10 DEF Moves

LEMMA OldMoves ==
    ASSUME Old!OpenIdIndexAssumption, LinksTyped(Persons, {}), [Old!Next]_(Old!vars)
    PROVE  Moves({})
<1>1. Old!CredentialKeys = CredKeys
  BY DEF Old!CredentialKeys, CredKeys
<1> QED
  BY <1>1, OldRegister, OldLink, OldUnlink, OldBatch, OldServe DEF Old!Next

-----------------------------------------------------------------------------
(***************************************************************************)
(* What the steps do to credentials and index.                             *)
(***************************************************************************)

\* Who has what after a write of anchor a, which is as typed as it was.
LEMMA WrittenFact ==
    ASSUME NEW a, NEW ks, CredsWritten(a, ks)
    PROVE  /\ DOMAIN creds' = DOMAIN creds \cup {a}
           /\ creds'[a] = ks
           /\ \A b \in DOMAIN creds : b # a => creds'[b] = creds[b]
           /\ \A x : Has(a, x)' <=> x \in KeysIn(ks)
           /\ \A b, x : b # a => (Has(b, x)' <=> Has(b, x))
<1>1. /\ DOMAIN creds' = DOMAIN creds \cup {a}
      /\ creds'[a] = ks
      /\ \A b \in DOMAIN creds : b # a => creds'[b] = creds[b]
  BY DEF CredsWritten
<1> QED
  BY <1>1 DEF Has

LEMMA LinksFact ==
    ASSUME NEW a, NEW ks, NEW k, Links(a, ks, k)
    PROVE  /\ \A b, x : Has(b, x)' <=> Has(b, x) \/ (b = a /\ x = k)
           /\ DOMAIN index' = DOMAIN index \cup {k}
           /\ index'[k] = a
           /\ \A x \in DOMAIN index : index'[x] = index[x]
<1>1. \A x : Has(a, x) <=> x \in Had(a)
  BY DEF Has, Had
<1>2. \A b, x : Has(b, x)' <=> Has(b, x) \/ (b = a /\ x = k)
  <2>1. CredsWritten(a, ks) /\ KeysIn(ks) = Had(a) \cup {k}
    BY DEF Links
  <2>2. /\ \A x : Has(a, x)' <=> x \in KeysIn(ks)
        /\ \A b, x : b # a => (Has(b, x)' <=> Has(b, x))
    BY <2>1, WrittenFact
  <2> QED
    BY <1>1, <2>1, <2>2
<1>3. KeysIn(ks) \ Had(a) = {k} /\ Had(a) \ KeysIn(ks) = {} /\ k \notin DOMAIN index
  BY DEF Links
<1>4. index' = [x \in DOMAIN index \cup {k} |-> IF x = k THEN a ELSE index[x]]
  BY <1>3 DEF Links, CredsWritten
<1> QED
  BY <1>2, <1>3, <1>4

LEMMA UnlinksFact ==
    ASSUME NEW a, NEW ks, NEW k, Unlinks(a, ks, k)
    PROVE  /\ \A b, x : Has(b, x)' <=> Has(b, x) /\ ~(b = a /\ x = k)
           /\ Has(a, k)
           /\ DOMAIN index' = DOMAIN index \ {k}
           /\ \A x \in DOMAIN index : x # k => index'[x] = index[x]
<1>1. \A x : Has(a, x) <=> x \in Had(a)
  BY DEF Has, Had
<1>2. \A b, x : Has(b, x)' <=> Has(b, x) /\ ~(b = a /\ x = k)
  BY <1>1, WrittenFact DEF Unlinks
<1>3. KeysIn(ks) \ Had(a) = {} /\ Had(a) \ KeysIn(ks) = {k}
  BY DEF Unlinks
<1>4. index' = [x \in DOMAIN index \ {k} |-> index[x]]
  BY <1>3 DEF Unlinks, CredsWritten
<1> QED
  BY <1>1, <1>2, <1>4 DEF Unlinks

LEMMA MovesKeepTypes ==
    ASSUME MaxAnchors \in Nat, NEW P, NEW C, LinksTyped(P, C), Moves(C)
    PROVE  LinksTyped(P, C)'
<1>1. PICK n \in 0..MaxAnchors : DOMAIN creds = 1..n
  BY DEF LinksTyped
<1>2. ASSUME NEW a \in 1..MaxAnchors, NEW ks, NEW k \in CredKeys,
             Links(a, ks, k) \/ Unlinks(a, ks, k)
      PROVE  LinksTyped(P, C)'
  <2>1. CredsWritten(a, ks) /\ Linkable(ks)
    BY <1>2 DEF Links, Unlinks
  <2>2. /\ DOMAIN creds' = DOMAIN creds \cup {a}
        /\ creds'[a] = ks
        /\ \A b \in DOMAIN creds : b # a => creds'[b] = creds[b]
    BY <2>1, WrittenFact
  <2>3. \E m \in 0..MaxAnchors : DOMAIN creds' = 1..m
    <3>1. CASE a \in DOMAIN creds
      BY <1>1, <2>2, <3>1
    <3>2. CASE a \notin DOMAIN creds
      <4>1. DOMAIN creds = 1..(a - 1)
        BY <1>2, <3>2 DEF Links, Unlinks
      <4>2. DOMAIN creds' = 1..a
        BY <2>2, <4>1
      <4> QED
        BY <4>2
    <3> QED
      BY <3>1, <3>2
  <2>4. \A b \in DOMAIN creds' : Linkable(creds'[b])
    BY <2>1, <2>2 DEF LinksTyped
  <2>5. /\ DOMAIN index' \subseteq DOMAIN index \cup {k}
        /\ \A x \in DOMAIN index' : index'[x] = a \/ (x \in DOMAIN index /\ index'[x] = index[x])
    <3>1. CASE Links(a, ks, k)
      <4>1. /\ DOMAIN index' = DOMAIN index \cup {k}
            /\ index'[k] = a
            /\ \A x \in DOMAIN index : index'[x] = index[x]
        BY <3>1, LinksFact
      <4> QED
        BY <4>1
    <3>2. CASE Unlinks(a, ks, k)
      <4>1. /\ DOMAIN index' = DOMAIN index \ {k}
            /\ \A x \in DOMAIN index : x # k => index'[x] = index[x]
        BY <3>2, UnlinksFact
      <4> QED
        BY <4>1
    <3> QED
      BY <1>2, <3>1, <3>2
  <2>6. DOMAIN index' \subseteq CredKeys /\ \A x \in DOMAIN index' : index'[x] \in DOMAIN creds'
    BY <2>2, <2>5 DEF LinksTyped
  <2>7. contested' \subseteq CredKeys
    <3>1. KeysIn(ks) \subseteq CredKeys
      BY <2>1 DEF Linkable, KeysIn
    <3> QED
      BY <2>1, <3>1 DEF CredsWritten, LinksTyped
  <2>8. Served(C)'
    BY <2>1 DEF CredsWritten, LinksTyped, Served
  <2>9. /\ DOMAIN legacy' \subseteq P /\ \A p \in DOMAIN legacy' : legacy'[p] \in DOMAIN creds'
        /\ done' \in BOOLEAN
    BY <2>1, <2>2 DEF CredsWritten, LinksTyped
  <2> QED
    BY <2>3, <2>4, <2>6, <2>7, <2>8, <2>9 DEF LinksTyped
<1>3. CASE Serves(C)
  BY <1>3 DEF Serves, LinksTyped
<1>4. ASSUME NEW batch \in SUBSET DOMAIN legacy, Migrates(batch)
      PROVE  LinksTyped(P, C)'
  <2>1. \A k \in Resolves(batch) : k \in CredKeys /\ legacy[k[1]] \in DOMAIN creds
    BY DEF Resolves, LinksTyped
  <2>2. DOMAIN index' \subseteq CredKeys /\ \A x \in DOMAIN index' : index'[x] \in DOMAIN creds
    BY <1>4, <2>1 DEF Migrates, LinksTyped
  <2>3. Served(C)'
    BY <1>4 DEF Migrates, LinksTyped, Served
  <2>4. DOMAIN legacy' \subseteq P /\ \A p \in DOMAIN legacy' : legacy'[p] \in DOMAIN creds
    BY <1>4 DEF Migrates, LinksTyped
  <2>5. creds' = creds /\ contested' = contested /\ done' \in BOOLEAN
    BY <1>4 DEF Migrates
  <2> QED
    BY <2>2, <2>3, <2>4, <2>5 DEF LinksTyped
<1> QED
  BY <1>2, <1>3, <1>4 DEF Moves

\* Without legacy entries a migration changes nothing, and the index follows
\* the anchors (sync_anchor_with_openid_credential_index).
LEMMA MovesKeepExact ==
    ASSUME MaxAnchors \in Nat, NEW C, LinksTyped({}, C), Exact, Current, Moves(C)
    PROVE  Exact' /\ Current'
<1>1. ASSUME NEW a \in 1..MaxAnchors, NEW ks, NEW k \in CredKeys, Links(a, ks, k)
      PROVE  Exact' /\ Current'
  <2>1. answer' = {} /\ k \notin DOMAIN index
    BY <1>1 DEF Links, CredsWritten
  <2>2. \A b \in 1..MaxAnchors : ~Has(b, k)
    BY <2>1 DEF Exact, Finds
  <2>3. ASSUME NEW x \in CredKeys, NEW b \in 1..MaxAnchors
        PROVE  Finds(x, b)' <=> Has(b, x)'
    <3>1. Finds(x, b) <=> Has(b, x)
      BY DEF Exact
    <3>2. CASE x = k
      BY <1>1, <2>2, <3>2, LinksFact DEF Finds
    <3>3. CASE x # k
      BY <1>1, <3>1, <3>3, LinksFact DEF Finds
    <3> QED
      BY <3>2, <3>3
  <2> QED
    BY <2>1, <2>3 DEF Exact, Current
<1>2. ASSUME NEW a \in 1..MaxAnchors, NEW ks, NEW k \in CredKeys, Unlinks(a, ks, k)
      PROVE  Exact' /\ Current'
  <2>1. answer' = {}
    BY <1>2 DEF Unlinks, CredsWritten
  <2>2. Finds(k, a)
    BY <1>2, UnlinksFact DEF Exact
  <2>3. ASSUME NEW x \in CredKeys, NEW b \in 1..MaxAnchors
        PROVE  Finds(x, b)' <=> Has(b, x)'
    <3>1. Finds(x, b) <=> Has(b, x)
      BY DEF Exact
    <3>2. CASE x = k
      <4>1. ~Finds(x, b)'
        BY <1>2, <3>2, UnlinksFact DEF Finds
      <4>2. Has(b, x) => b = a
        BY <2>2, <3>1, <3>2 DEF Finds
      <4> QED
        BY <1>2, <3>2, <4>1, <4>2, UnlinksFact
    <3>3. CASE x # k
      <4>1. /\ DOMAIN index' = DOMAIN index \ {k}
            /\ \A y \in DOMAIN index : y # k => index'[y] = index[y]
        BY <1>2, UnlinksFact
      <4>2. Finds(x, b)' <=> Finds(x, b)
        BY <3>3, <4>1 DEF Finds
      <4>3. Has(b, x)' <=> Has(b, x)
        BY <1>2, <3>3, UnlinksFact
      <4> QED
        BY <3>1, <4>2, <4>3
    <3> QED
      BY <3>2, <3>3
  <2> QED
    BY <2>1, <2>3 DEF Exact, Current
<1>3. CASE Serves(C)
  <2>1. creds' = creds /\ index' = index
    BY <1>3 DEF Serves
  <2>2. Exact'
    BY <2>1 DEF Exact, Finds, Has
  <2>3. ASSUME NEW w \in answer'
        PROVE  Has(w[2], w[1])'
    <3>1. w[1] \in CredKeys /\ w[2] \in 1..MaxAnchors
      BY <1>3 DEF Serves, Served
    <3>2. w \in answer \/ Finds(w[1], w[2])
      BY <1>3 DEF Serves
    <3>3. Has(w[2], w[1])
      BY <3>1, <3>2 DEF Exact, Current
    <3> QED
      BY <2>1, <3>3 DEF Has
  <2> QED
    BY <2>2, <2>3 DEF Current
<1>4. ASSUME NEW batch \in SUBSET DOMAIN legacy, Migrates(batch)
      PROVE  Exact' /\ Current'
  <2>1. Resolves(batch) = {}
    BY DEF LinksTyped, Resolves
  <2>2. /\ creds' = creds /\ answer' = {} /\ DOMAIN index' = DOMAIN index
        /\ \A x \in DOMAIN index : index'[x] = index[x]
    BY <1>4, <2>1 DEF Migrates
  <2> QED
    BY <2>2 DEF Exact, Current, Finds, Has
<1> QED
  BY <1>1, <1>2, <1>3, <1>4 DEF Moves

\* What two anchors have is contested: it is when the second one links it.
LEMMA MovesKeepShared ==
    ASSUME MaxAnchors \in Nat, NEW P, NEW C, LinksTyped(P, C), SharedIsContested, Moves(C)
    PROVE  SharedIsContested'
<1> SUFFICES ASSUME NEW b \in DOMAIN creds', NEW c \in DOMAIN creds', NEW x,
                    Has(b, x)', Has(c, x)', b # c
             PROVE  x \in contested'
  BY DEF SharedIsContested, Has
<1>1. \A e, d : Has(d, x) /\ Has(e, x) /\ d # e => x \in contested
  BY DEF SharedIsContested, Has
<1>2. ASSUME NEW a \in 1..MaxAnchors, NEW ks, CredsWritten(a, ks)
      PROVE  x \in contested'
  <2>1. CASE b # a /\ c # a
    BY <1>1, <1>2, <2>1, WrittenFact DEF CredsWritten
  <2>2. ASSUME NEW d, d # a, Has(d, x)', Has(a, x)'
        PROVE  x \in contested'
    <3>1. x \in KeysIn(ks) /\ Has(d, x) /\ d \in DOMAIN creds
      BY <1>2, <2>2, WrittenFact DEF Has
    <3> QED
      BY <1>2, <2>2, <3>1 DEF CredsWritten
  <2> QED
    BY <2>1, <2>2
<1>3. CASE UNCHANGED <<creds, contested>>
  BY <1>1, <1>3 DEF Has
<1> QED
  BY <1>2, <1>3 DEF Moves, Links, Unlinks, Serves, Migrates

\* No credential is lost between the legacy entries and the new ones
\* (migrate_openid_credential_keys_batch).
LEMMA MovesKeepMigrating ==
    ASSUME MaxAnchors \in Nat, NEW P, NEW C, LinksTyped(P, C), Migrating, Moves(C)
    PROVE  Migrating'
<1>1. SharedIsContested'
  BY MovesKeepShared DEF Migrating
<1>2. \A b, x : Has(b, x) => Finds(x, b) \/ Awaits(b, x) \/ x \in contested
  BY DEF Migrating, Has
<1>3. \A b, x : Has(b, x) => x \in CredKeys
  BY DEF Has, KeysIn, LinksTyped, Linkable
<1>4. ASSUME NEW a \in 1..MaxAnchors, NEW ks, NEW k \in CredKeys, Links(a, ks, k),
             NEW b, NEW x, Has(b, x)'
      PROVE  (Finds(x, b) \/ Awaits(b, x) \/ x \in contested)'
  <2>1. CASE b = a /\ x = k
    <3>1. DOMAIN index' = DOMAIN index \cup {k} /\ index'[k] = a
      BY <1>4, LinksFact
    <3>2. Finds(x, b)'
      BY <2>1, <3>1 DEF Finds
    <3> QED
      BY <3>2
  <2>2. CASE ~(b = a /\ x = k)
    <3>1. Has(b, x)
      BY <1>4, <2>2, LinksFact
    <3>2. Finds(x, b) => Finds(x, b)'
      BY <1>4, LinksFact DEF Finds
    <3>3. x \in contested => x \in contested'
      BY <1>4 DEF Links, CredsWritten
    <3>4. ASSUME Awaits(b, x)
          PROVE  Awaits(b, x)'
      <4>1. legacy' = legacy /\ b \in DOMAIN creds /\ x \in CredKeys
        BY <1>3, <1>4, <3>1 DEF Links, CredsWritten, Has
      <4>2. IsFirst(creds[b], x) => IsFirst(creds'[b], x)
        BY <1>4, <4>1, WrittenFact DEF Links
      <4> QED
        BY <3>4, <4>1, <4>2 DEF Awaits
    <3> QED
      BY <1>2, <3>1, <3>2, <3>3, <3>4
  <2> QED
    BY <2>1, <2>2
<1>5. ASSUME NEW a \in 1..MaxAnchors, NEW ks, NEW k \in CredKeys, Unlinks(a, ks, k),
             NEW b, NEW x, Has(b, x)'
      PROVE  (Finds(x, b) \/ Awaits(b, x) \/ x \in contested)'
  <2>1. Has(b, x) /\ ~(b = a /\ x = k) /\ Has(a, k)
    BY <1>5, UnlinksFact
  <2>2. x \in contested => x \in contested'
    BY <1>5 DEF Unlinks, CredsWritten
  <2>3. CASE x = k
    <3>1. b # a /\ b \in DOMAIN creds /\ a \in DOMAIN creds /\ x \in KeysIn(creds[b])
      BY <2>1, <2>3 DEF Has
    <3>2. x \in contested
      BY <2>1, <2>3, <3>1 DEF Migrating, SharedIsContested
    <3> QED
      BY <2>2, <3>2
  <2>4. CASE x # k
    <3>1. Finds(x, b) => Finds(x, b)'
      <4>1. /\ DOMAIN index' = DOMAIN index \ {k}
            /\ \A y \in DOMAIN index : y # k => index'[y] = index[y]
        BY <1>5, UnlinksFact
      <4> QED
        BY <2>4, <4>1 DEF Finds
    <3>2. ASSUME Awaits(b, x)
          PROVE  Awaits(b, x)'
      <4>1. legacy' = legacy /\ b \in DOMAIN creds /\ x \in CredKeys
        BY <1>3, <1>5, <2>1 DEF Unlinks, CredsWritten, Has
      <4>2. IsFirst(creds[b], x) => IsFirst(creds'[b], x)
        BY <1>5, <2>4, <4>1, WrittenFact DEF Unlinks
      <4> QED
        BY <3>2, <4>1, <4>2 DEF Awaits
    <3> QED
      BY <1>2, <2>1, <2>2, <3>1, <3>2
  <2> QED
    BY <2>3, <2>4
<1>6. ASSUME Serves(C), NEW b, NEW x, Has(b, x)'
      PROVE  (Finds(x, b) \/ Awaits(b, x) \/ x \in contested)'
  BY <1>2, <1>6 DEF Serves, Has, Finds, Awaits
<1>7. ASSUME NEW batch \in SUBSET DOMAIN legacy, Migrates(batch), NEW b, NEW x, Has(b, x)'
      PROVE  (Finds(x, b) \/ Awaits(b, x) \/ x \in contested)'
  <2>1. creds' = creds /\ contested' = contested /\ Has(b, x) /\ x \in CredKeys
    BY <1>3, <1>7 DEF Migrates, Has
  <2>2. /\ DOMAIN index' = DOMAIN index \cup Resolves(batch)
        /\ \A y \in Resolves(batch) : index'[y] = legacy[y[1]]
        /\ \A y \in DOMAIN index : y \notin Resolves(batch) => index'[y] = index[y]
    BY <1>7 DEF Migrates
  <2>3. CASE x \in Resolves(batch)
    <3>1. PICK c : c = legacy[x[1]]
      OBVIOUS
    <3>2. c \in DOMAIN creds /\ IsFirst(creds[c], x)
      BY <2>3, <3>1 DEF Resolves, LinksTyped
    <3>3. Has(c, x)
      BY <3>2 DEF IsFirst, Has, KeysIn
    <3>4. CASE b = c
      <4>1. x \in DOMAIN index' /\ index'[x] = b
        BY <2>2, <2>3, <3>1, <3>4
      <4>2. Finds(x, b)'
        BY <4>1 DEF Finds
      <4> QED
        BY <4>2
    <3>5. CASE b # c
      <4>1. x \in contested
        BY <2>1, <3>3, <3>5 DEF Migrating, SharedIsContested, Has
      <4> QED
        BY <2>1, <4>1
    <3> QED
      BY <3>4, <3>5
  <2>4. CASE x \notin Resolves(batch)
    <3>1. Finds(x, b) => Finds(x, b)'
      BY <2>2, <2>4 DEF Finds
    <3>2. ASSUME Awaits(b, x)
          PROVE  Awaits(b, x)'
      <4>1. x[1] \notin batch
        BY <2>1, <2>4, <3>2 DEF Awaits, Resolves
      <4> QED
        BY <1>7, <2>1, <3>2, <4>1 DEF Awaits, Migrates
    <3> QED
      BY <1>2, <2>1, <3>1, <3>2
  <2> QED
    BY <2>3, <2>4
<1>8. \A b, x : Has(b, x)' => (Finds(x, b) \/ Awaits(b, x) \/ x \in contested)'
  BY <1>4, <1>5, <1>6, <1>7 DEF Moves
<1>9. (done => legacy = Old!Empty)'
  <2>1. CASE legacy' = legacy /\ done' \in {done, FALSE}
    BY <2>1 DEF Migrating
  <2>2. ASSUME NEW batch \in SUBSET DOMAIN legacy, Migrates(batch), done'
        PROVE  legacy' = Old!Empty
    BY <2>2 DEF Migrates, Old!Empty
  <2> QED
    BY ZenonT(40), <2>1, <2>2 DEF Moves, Links, Unlinks, CredsWritten, Serves
<1> QED
  BY <1>1, <1>8, <1>9 DEF Migrating, Has


-----------------------------------------------------------------------------
(***************************************************************************)
(* The invariants at first, and what they imply.                           *)
(***************************************************************************)

LEMMA NewInitially ==
    ASSUME New!OpenIdIndexAssumption, New!Init
    PROVE  NewLinksInv
<1>1. DOMAIN creds = {} /\ DOMAIN index = {} /\ DOMAIN legacy = {} /\ DOMAIN pending = {}
  BY DEF New!Init, New!Empty
<1>2. DOMAIN creds = 1..0 /\ 0 \in 0..MaxAnchors
  BY <1>1 DEF New!OpenIdIndexAssumption
<1>3. done = FALSE /\ salt \in {NoSalt, OldSalt} /\ answer = {} /\ contested = {}
  BY DEF New!Init
<1>4. LinksTyped({}, Calls)
  BY <1>1, <1>2, <1>3 DEF LinksTyped, Served
<1>5. Exact /\ Current
  BY <1>1, <1>3 DEF Exact, Current, Finds, Has
<1> QED
  BY <1>4, <1>5 DEF NewLinksInv

\* A sequence of the members of a set has only these, each once.
LEMMA ListedFact ==
    ASSUME MaxLinked \in Nat, NEW S \in SUBSET CredKeys, IsFiniteSet(S),
           Cardinality(S) <= MaxLinked
    PROVE  Linkable(Old!SetToSeq(S)) /\ KeysIn(Old!SetToSeq(S)) \subseteq S
<1> DEFINE n == Cardinality(S)
           Listings == {f \in [1..n -> S] : \A i, j \in DOMAIN f : f[i] = f[j] => i = j}
           ks == Old!SetToSeq(S)
<1>1. n \in Nat /\ n <= MaxLinked
  BY FS_CardinalityType
<1>2. Listings # {}
  <2>1. Bijection(1..n, S) # {}
    BY FS_CardinalityType DEF ExistsBijection
  <2> QED
    BY <2>1 DEF Bijection, Injection, IsInjective
<1>3. ks = CHOOSE f \in [1..n -> S] : \A i, j \in DOMAIN f : f[i] = f[j] => i = j
  BY DEF Old!SetToSeq, Old!IsInjective, Old!Cardinality, Cardinality
<1>4. ks \in [1..n -> S] /\ \A i, j \in DOMAIN ks : ks[i] = ks[j] => i = j
  <2>1. PICK f \in [1..n -> S] : \A i, j \in DOMAIN f : f[i] = f[j] => i = j
    BY <1>2
  <2> HIDE DEF ks
  <2> QED
    BY ZenonT(40), <1>3, <2>1
<1> HIDE DEF n, ks
<1>5. ks \in Seq(CredKeys) /\ Len(ks) = n
  BY <1>1, <1>4
<1> QED
  BY <1>1, <1>4, <1>5 DEF Linkable, KeysIn, ks

LEMMA OldInitially ==
    ASSUME Old!OpenIdIndexAssumption, Old!Init
    PROVE  OldLinksInv
<1>1. PICK owner \in [Persons -> 1..MaxAnchors], aud \in [Persons -> Auds] :
         LET Linked(a) == {<<p, aud[p]>> : p \in {q \in Persons : owner[q] = a}}
         IN  /\ \A a \in 1..MaxAnchors : Old!Cardinality(Linked(a)) <= MaxLinked
             /\ legacy = owner
             /\ creds = [a \in 1..MaxAnchors |-> Old!SetToSeq(Linked(a))]
  BY DEF Old!Init
<1> DEFINE Linked(a) == {<<p, aud[p]>> : p \in {q \in Persons : owner[q] = a}}
<1>2. /\ DOMAIN index = {} /\ DOMAIN pending = {} /\ done = FALSE
      /\ salt \in {NoSalt, OldSalt} /\ answer = {} /\ contested = {}
  BY DEF Old!Init, Old!Empty
<1>3. /\ MaxAnchors \in Nat /\ MaxLinked \in Nat /\ IsFiniteSet(Persons)
      /\ legacy = owner /\ DOMAIN creds = 1..MaxAnchors
  BY <1>1 DEF Old!OpenIdIndexAssumption, Old!IsFiniteSet, IsFiniteSet
<1>4. ASSUME NEW a \in DOMAIN creds
      PROVE  Linkable(creds[a]) /\ KeysIn(creds[a]) \subseteq Linked(a)
  <2>1. Linked(a) \in SUBSET CredKeys
    BY DEF CredKeys
  <2>2. IsFiniteSet(Linked(a))
    <3> DEFINE S == {q \in Persons : owner[q] = a}
               f == [p \in S |-> <<p, aud[p]>>]
    <3>1. IsFiniteSet(S)
      BY <1>3, FS_Subset
    <3>2. f \in Surjection(S, Linked(a))
      BY DEF Surjection
    <3> QED
      BY <3>1, <3>2, FS_Surjection
  <2>3. Cardinality(Linked(a)) <= MaxLinked
    BY <1>1, <1>3 DEF Old!Cardinality, Cardinality
  <2>4. creds[a] = Old!SetToSeq(Linked(a))
    BY <1>1, <1>3
  <2> HIDE DEF Linked
  <2> QED
    BY <1>3, <2>1, <2>2, <2>3, <2>4, ListedFact
<1>5. LinksTyped(Persons, {})
  <2>1. \E n \in 0..MaxAnchors : DOMAIN creds = 1..n
    BY <1>3
  <2>2. /\ \A b \in DOMAIN creds : Linkable(creds[b])
        /\ DOMAIN legacy \subseteq Persons
        /\ \A p \in DOMAIN legacy : legacy[p] \in DOMAIN creds
    BY <1>3, <1>4
  <2>3. Served({})
    BY <1>2 DEF Served
  <2> QED
    BY <1>2, <2>1, <2>2, <2>3 DEF LinksTyped
<1>6. ASSUME NEW a \in DOMAIN creds, NEW k \in KeysIn(creds[a])
      PROVE  Awaits(a, k)
  <2>1. PICK p \in Persons : owner[p] = a /\ k = <<p, aud[p]>>
    BY <1>4
  <2>2. k[1] \in DOMAIN legacy /\ legacy[k[1]] = a
    BY <1>3, <2>1
  <2>3. \A i, j \in DOMAIN creds[a] : creds[a][i] = creds[a][j] => i = j
    BY <1>4 DEF Linkable
  <2>4. \A j \in DOMAIN creds[a] : creds[a][j][1] = p => creds[a][j] = k
    BY <1>4, <2>1 DEF KeysIn
  <2>5. PICK i \in DOMAIN creds[a] : creds[a][i] = k
    BY DEF KeysIn
  <2>6. DOMAIN creds[a] \subseteq Int
    BY <1>4 DEF Linkable
  <2>7. \A j \in DOMAIN creds[a] : j < i => creds[a][j][1] # k[1]
    BY <2>1, <2>3, <2>4, <2>5, <2>6
  <2> QED
    BY <2>2, <2>5, <2>7 DEF Awaits, IsFirst
<1>7. SharedIsContested
  BY <1>6 DEF SharedIsContested, Has, Awaits
<1> QED
  BY <1>2, <1>5, <1>6, <1>7 DEF OldLinksInv, Migrating

LEMMA NewIsTyped ==
    ASSUME New!OpenIdIndexAssumption, NewLinksInv
    PROVE  New!TypeOK /\ New!IndexIsExact /\ New!AnswersAreCurrent
<1>1. New!CredentialKeys = CredKeys /\ New!Numbers = 1..MaxAnchors
  BY DEF New!CredentialKeys, CredKeys, New!Numbers
<1>2. PICK n \in 0..MaxAnchors : DOMAIN creds = 1..n
  BY DEF NewLinksInv, LinksTyped
<1>3. /\ n \in Nat /\ MaxAnchors \in Nat
      /\ New!Cardinality(DOMAIN creds) = n /\ DOMAIN creds \subseteq 1..MaxAnchors
  BY <1>2, NewCardinality DEF New!OpenIdIndexAssumption
<1>4. \A a \in DOMAIN creds :
          creds[a] \in Seq(CredKeys) /\ New!IsInjective(creds[a]) /\ Len(creds[a]) <= MaxLinked
  BY DEF NewLinksInv, LinksTyped, Linkable, New!IsInjective
<1>5. /\ DOMAIN index \subseteq CredKeys /\ New!Range(index) \subseteq DOMAIN creds
      /\ DOMAIN legacy \subseteq {} /\ New!Range(legacy) \subseteq DOMAIN creds
      /\ contested \subseteq CredKeys /\ done \in BOOLEAN
  BY DEF NewLinksInv, LinksTyped, New!Range
<1>6. /\ salt \in Calls \cup {NoSalt, OldSalt}
      /\ DOMAIN pending \subseteq Calls
      /\ New!Range(pending) \subseteq SUBSET (CredKeys \X (1..MaxAnchors))
      /\ answer \subseteq CredKeys \X (1..MaxAnchors)
  BY DEF NewLinksInv, LinksTyped, Served, New!Range
<1>7. New!TypeOK
  BY <1>1, <1>2, <1>3, <1>4, <1>5, <1>6 DEF New!TypeOK
<1>8. \A k, a : (New!Found(k, a) <=> Finds(k, a)) /\ (New!Holds(a, k) <=> Has(a, k))
  BY DEF New!Found, Finds, New!Holds, New!ToSet, Has, KeysIn
<1>9. New!IndexIsExact
  BY <1>1, <1>8 DEF New!IndexIsExact, NewLinksInv, Exact
<1>10. New!AnswersAreCurrent
  BY <1>8 DEF New!AnswersAreCurrent, NewLinksInv, Current
<1> QED
  BY <1>7, <1>9, <1>10

LEMMA OldIsTyped ==
    ASSUME Old!OpenIdIndexAssumption, OldLinksInv
    PROVE  Old!TypeOK /\ Old!IndexIsExact /\ Old!DoneMeansMigrated
<1>1. Old!CredentialKeys = CredKeys /\ Old!Numbers = 1..MaxAnchors
  BY DEF Old!CredentialKeys, CredKeys, Old!Numbers
<1>2. PICK n \in 0..MaxAnchors : DOMAIN creds = 1..n
  BY DEF OldLinksInv, LinksTyped
<1>3. /\ n \in Nat /\ MaxAnchors \in Nat
      /\ Old!Cardinality(DOMAIN creds) = n /\ DOMAIN creds \subseteq 1..MaxAnchors
  BY <1>2, OldCardinality DEF Old!OpenIdIndexAssumption
<1>4. \A a \in DOMAIN creds :
          creds[a] \in Seq(CredKeys) /\ Old!IsInjective(creds[a]) /\ Len(creds[a]) <= MaxLinked
  BY DEF OldLinksInv, LinksTyped, Linkable, Old!IsInjective
<1>5. /\ DOMAIN index \subseteq CredKeys /\ Old!Range(index) \subseteq DOMAIN creds
      /\ DOMAIN legacy \subseteq Persons /\ Old!Range(legacy) \subseteq DOMAIN creds
      /\ contested \subseteq CredKeys /\ done \in BOOLEAN
  BY DEF OldLinksInv, LinksTyped, Old!Range
<1>6. /\ salt \in {} \cup {NoSalt, OldSalt}
      /\ DOMAIN pending \subseteq {}
      /\ Old!Range(pending) \subseteq SUBSET (CredKeys \X (1..MaxAnchors))
      /\ answer \subseteq CredKeys \X (1..MaxAnchors)
  BY DEF OldLinksInv, LinksTyped, Served, Old!Range
<1>7. Old!TypeOK
  BY <1>1, <1>2, <1>3, <1>4, <1>5, <1>6 DEF Old!TypeOK
<1>8. Old!IndexIsExact
  BY DEF Old!IndexIsExact, Old!CredentialKeys
<1>9. \A k, a : Old!Found(k, a) <=> Finds(k, a)
  BY DEF Old!Found, Finds
<1>10. \A a : Old!ToSet(creds[a]) = KeysIn(creds[a])
  BY DEF Old!ToSet, KeysIn
<1>11. Old!DoneMeansMigrated
  <2>1. ASSUME done, NEW a \in DOMAIN creds, NEW k \in KeysIn(creds[a])
        PROVE  Finds(k, a) \/ k \in contested
    <3>1. DOMAIN legacy = {}
      BY <2>1 DEF OldLinksInv, Migrating, Old!Empty
    <3> QED
      BY <2>1, <3>1 DEF OldLinksInv, Migrating, Awaits
  <2>2. done => legacy = Old!Empty
    BY DEF OldLinksInv, Migrating
  <2> QED
    BY <1>9, <1>10, <2>1, <2>2 DEF Old!DoneMeansMigrated
<1> QED
  BY <1>7, <1>8, <1>11

LEMMA NewStep ==
    ASSUME New!OpenIdIndexAssumption, NewLinksInv, [New!Next]_(New!vars)
    PROVE  NewLinksInv'
<1>1. MaxAnchors \in Nat
  BY DEF New!OpenIdIndexAssumption
<1>2. Moves(Calls)
  BY NewMoves DEF NewLinksInv
<1> QED
  BY <1>1, <1>2, MovesKeepTypes, MovesKeepExact DEF NewLinksInv

LEMMA OldStep ==
    ASSUME Old!OpenIdIndexAssumption, OldLinksInv, [Old!Next]_(Old!vars)
    PROVE  OldLinksInv'
<1>1. MaxAnchors \in Nat
  BY DEF Old!OpenIdIndexAssumption
<1>2. Moves({})
  BY OldMoves DEF OldLinksInv
<1> QED
  BY <1>1, <1>2, MovesKeepTypes, MovesKeepMigrating DEF OldLinksInv

-----------------------------------------------------------------------------
(***************************************************************************)
(* The accounts.                                                           *)
(*                                                                         *)
(* Seeds are unique because every number is in one list, and because a     *)
(* list has one account whose seed is the anchor's: the unnumbered one, or *)
(* the one stored in its place.                                            *)
(***************************************************************************)

\* Numbers are given out in order (allocate_account_number).
NumbersInOrder == total.accounts \in Nat /\ DOMAIN accounts = 1..total.accounts

\* A list refers to stored accounts and to the default account.
ListsAreStored == \A x \in DOMAIN refs : refs[x] \subseteq DOMAIN accounts \cup {Unnumbered}

\* A numbered account is in one list.
OneList == \A x, y \in DOMAIN refs : \A n \in DOMAIN accounts :
    n \in refs[x] /\ n \in refs[y] => x = y

\* Number n is that of a default account that has been stored.
StoredDefault(n) == n \in DOMAIN accounts /\ accounts[n].seedFrom # {}

\* A list has either the unnumbered default account or one that is stored.
OneDefault ==
    \A a, o : <<a, o>> \in DOMAIN refs =>
        /\ \A n \in refs[<<a, o>>] : StoredDefault(n) =>
              /\ accounts[n].seedFrom = {a}
              /\ Unnumbered \notin refs[<<a, o>>]
              /\ \A m \in refs[<<a, o>>] : StoredDefault(m) => m = n
        /\ \E n \in refs[<<a, o>>] : n = Unnumbered \/ StoredDefault(n)

\* The account that was chosen as the default one is in the list.
ChosenIsListed ==
    \A x \in DOMAIN defaults : defaults[x] # Unnumbered =>
        x \in DOMAIN refs /\ defaults[x] \in refs[x]

IInv == NumbersInOrder /\ ListsAreStored /\ OneList /\ OneDefault /\ ChosenIsListed

-----------------------------------------------------------------------------
(***************************************************************************)
(* What the accounts of a list are.                                        *)
(***************************************************************************)

\* read_account and list_accounts agree: what is listed is what the list has,
\* or the default account alone.
LEMMA ListedAccounts ==
    ASSUME IInv, NEW a, NEW o
    PROVE  Listed(a, o) = Get(refs, <<a, o>>, {Unnumbered})
<1>1. CASE <<a, o>> \in DOMAIN refs
  <2>1. \A n \in refs[<<a, o>>] : Readable(a, o, n)
    BY <1>1 DEF IInv, ListsAreStored, Readable, Get
  <2> QED BY <1>1, <2>1 DEF Listed, Get
<1>2. CASE <<a, o>> \notin DOMAIN refs
  BY <1>2 DEF Listed, Get
<1> QED BY <1>1, <1>2

\* calculate_seed of a listed account: the anchor's for the default account,
\* stored or not, and the number's for the others.
LEMMA SeedFact ==
    ASSUME IInv, NEW a, NEW o, NEW n \in Listed(a, o)
    PROVE  \/ /\ n = Unnumbered \/ StoredDefault(n)
              /\ Seed(a, o, n) = <<"anchor", a, o>>
           \/ /\ n # Unnumbered /\ n \in DOMAIN accounts /\ ~StoredDefault(n)
              /\ <<a, o>> \in DOMAIN refs /\ n \in refs[<<a, o>>]
              /\ Seed(a, o, n) = <<"account", n, o>>
<1>1. CASE n = Unnumbered
  BY <1>1 DEF Seed
<1>2. CASE n # Unnumbered
  <2>1. <<a, o>> \in DOMAIN refs /\ n \in refs[<<a, o>>] /\ n \in DOMAIN accounts
    BY <1>2, ListedAccounts DEF Get, IInv, ListsAreStored
  <2>2. CASE StoredDefault(n)
    <3>1. accounts[n].seedFrom = {a}
      BY <2>1, <2>2 DEF IInv, OneDefault
    <3>2. (CHOOSE b \in {a} : TRUE) = a
      OBVIOUS
    <3> QED BY <1>2, <2>2, <3>1, <3>2 DEF Seed
  <2>3. CASE ~StoredDefault(n)
    BY <1>2, <2>1, <2>3 DEF Seed, StoredDefault
  <2> QED BY <2>2, <2>3
<1> QED BY <1>1, <1>2

\* Two hashed triples are equal only if their parts are.
LEMMA Triples ==
    ASSUME NEW r, NEW s, NEW t, NEW u, NEW v, NEW w, <<r, s, t>> = <<u, v, w>>
    PROVE  r = u /\ s = v /\ t = w
OBVIOUS

\* The default account of a list is one account.
LEMMA DefaultFact ==
    ASSUME IInv, NEW a, NEW o, NEW m \in Listed(a, o), NEW n \in Listed(a, o),
           m = Unnumbered \/ StoredDefault(m), n = Unnumbered \/ StoredDefault(n)
    PROVE  m = n
<1>0. Unnumbered \notin DOMAIN accounts
  BY DEF IInv, NumbersInOrder, Unnumbered
<1>1. CASE <<a, o>> \in DOMAIN refs
  <2>1. m \in refs[<<a, o>>] /\ n \in refs[<<a, o>>]
    BY <1>1, ListedAccounts DEF Get
  <2> QED BY <1>1, <2>1 DEF IInv, OneDefault
<1>2. CASE <<a, o>> \notin DOMAIN refs
  BY <1>2, ListedAccounts DEF Get
<1> QED BY <1>1, <1>2

-----------------------------------------------------------------------------
(***************************************************************************)
(* What the invariant implies.                                             *)
(***************************************************************************)

\* Different accounts on the same origin yield different principals.
LEMMA InvSeeds == IInv => DistinctSeeds
<1> SUFFICES ASSUME IInv,
                    NEW x \in Anchors \X Origins, NEW y \in Anchors \X Origins,
                    NEW m \in Listed(x[1], x[2]), NEW n \in Listed(y[1], y[2]),
                    Seed(x[1], x[2], m) = Seed(y[1], y[2], n)
             PROVE  x = y /\ m = n
  BY DEF DistinctSeeds
<1> DEFINE Default(k) == k = Unnumbered \/ StoredDefault(k)
<1>0. x = <<x[1], x[2]>> /\ y = <<y[1], y[2]>>
  OBVIOUS
<1>1. CASE Default(m) /\ Default(n)
  <2>1. Seed(x[1], x[2], m) = <<"anchor", x[1], x[2]>>
    BY <1>1, SeedFact
  <2>2. Seed(y[1], y[2], n) = <<"anchor", y[1], y[2]>>
    BY <1>1, SeedFact
  <2>3. x[1] = y[1] /\ x[2] = y[2]
    <3>1. <<"anchor", x[1], x[2]>> = <<"anchor", y[1], y[2]>>
      BY <2>1, <2>2
    <3> QED BY <3>1, Triples
  <2>4. m = n
    BY <1>1, <2>3, DefaultFact
  <2> QED BY <1>0, <2>3, <2>4
<1>2. CASE ~Default(m) /\ ~Default(n)
  <2>1. /\ Seed(x[1], x[2], m) = <<"account", m, x[2]>>
        /\ m \in DOMAIN accounts /\ x \in DOMAIN refs /\ m \in refs[x]
    BY <1>0, <1>2, SeedFact
  <2>2. /\ Seed(y[1], y[2], n) = <<"account", n, y[2]>>
        /\ y \in DOMAIN refs /\ n \in refs[y]
    BY <1>0, <1>2, SeedFact
  <2>3. m = n
    <3>1. <<"account", m, x[2]>> = <<"account", n, y[2]>>
      BY <2>1, <2>2
    <3> QED BY <3>1, Triples
  <2> QED BY <2>1, <2>2, <2>3 DEF IInv, OneList
<1>3. CASE Default(m) /\ ~Default(n)
  <2>1. Seed(x[1], x[2], m) = <<"anchor", x[1], x[2]>>
    BY <1>3, SeedFact
  <2>2. Seed(y[1], y[2], n) = <<"account", n, y[2]>>
    BY <1>3, SeedFact
  <2>3. <<"anchor", x[1], x[2]>> = <<"account", n, y[2]>>
    BY <2>1, <2>2
  <2>4. "anchor" = "account"
    BY <2>3, Triples
  <2> QED BY <2>4
<1>4. CASE ~Default(m) /\ Default(n)
  <2>1. Seed(x[1], x[2], m) = <<"account", m, x[2]>>
    BY <1>4, SeedFact
  <2>2. Seed(y[1], y[2], n) = <<"anchor", y[1], y[2]>>
    BY <1>4, SeedFact
  <2>3. <<"account", m, x[2]>> = <<"anchor", y[1], y[2]>>
    BY <2>1, <2>2
  <2>4. "anchor" = "account"
    BY <2>3, Triples
  <2> QED BY <2>4
<1> QED BY <1>1, <1>2, <1>3, <1>4

\* A default account is listed.
DefaultListed == \A a, o : \E n \in Listed(a, o) : n = Unnumbered \/ StoredDefault(n)

\* Every list has its default account, unnumbered or stored (list_accounts).
LEMMA InvDefaultListed == IInv => DefaultListed
<1> SUFFICES ASSUME IInv, NEW a, NEW o
             PROVE  \E n \in Listed(a, o) : n = Unnumbered \/ StoredDefault(n)
  BY DEF DefaultListed
<1>1. CASE <<a, o>> \in DOMAIN refs
  BY <1>1, ListedAccounts DEF Get, IInv, OneDefault
<1>2. CASE <<a, o>> \notin DOMAIN refs
  BY <1>2, ListedAccounts DEF Get
<1> QED BY <1>1, <1>2

\* Attributes are for the principals of the listed accounts.
LEMMA InvObtained == IInv => ObtainedIsListed
<1> SUFFICES ASSUME IInv, NEW a \in Anchors, NEW o \in Origins, NEW n \in Obtained(a, o)
             PROVE  \E m \in Listed(a, o) : ObtainedSeed(a, o, n) = Seed(a, o, m)
  BY DEF ObtainedIsListed, Seeds
<1>1. CASE n = Unnumbered
  <2>1. PICK m \in Listed(a, o) : m = Unnumbered \/ StoredDefault(m)
    BY InvDefaultListed DEF DefaultListed
  <2>2. Seed(a, o, m) = <<"anchor", a, o>>
    BY <2>1, SeedFact
  <2> QED BY <1>1, <2>1, <2>2 DEF ObtainedSeed
<1>2. CASE n # Unnumbered
  <2>1. n \in Listed(a, o)
    BY <1>2, ListedAccounts DEF Obtained, Readable, Get
  <2> QED BY <1>2, <2>1 DEF ObtainedSeed
<1> QED BY <1>1, <1>2

\* get_default_account never meets an inconsistency.
LEMMA InvDefault == IInv => DefaultIsConsistent
BY DEF IInv, ChosenIsListed, ListsAreStored, DefaultIsConsistent, DefaultOf, Get, Readable

-----------------------------------------------------------------------------
(***************************************************************************)
(* The invariant is inductive.                                             *)
(***************************************************************************)

\* The next number is new (allocate_account_number).
LEMMA NextIsNew ==
    ASSUME IInv, NEW a
    PROVE  /\ NextNumber(a) \notin DOMAIN accounts
           /\ NextNumber(a) # Unnumbered
           /\ \A x \in DOMAIN refs : NextNumber(a) \notin refs[x]
           /\ DOMAIN accounts \cup {NextNumber(a)} = 1..(total.accounts + 1)
           /\ Unnumbered \notin DOMAIN accounts
BY DEF IInv, NumbersInOrder, ListsAreStored, NextNumber, Unnumbered

\* The counters are of no interest, but for the number of accounts.
LEMMA CountFact ==
    ASSUME IInv, NEW a, NEW o, NEW k, Count(a, o, k)
    PROVE  total'.accounts = total.accounts + 1
BY DEF Count, Plus

\* create_account adds an ordinary account, and the default one to a new list.
LEMMA CreateAccountStep ==
    ASSUME IInv, NEW a, NEW o, CreateAccount(a, o)
    PROVE  IInv'
<1> DEFINE n == NextNumber(a)
           x == <<a, o>>
           old == Get(refs, x, {Unnumbered})
<1>1. /\ accounts' = Put(accounts, n, [seedFrom |-> {}])
      /\ refs' = Put(refs, x, old \cup {n})
      /\ total'.accounts = total.accounts + 1
      /\ defaults' = defaults
  BY CountFact DEF CreateAccount
<1> HIDE DEF n, x, old
<1>2. /\ DOMAIN refs' = DOMAIN refs \cup {x}
      /\ refs'[x] = old \cup {n}
      /\ \A y \in DOMAIN refs : y # x => refs'[y] = refs[y]
  BY <1>1 DEF Put
<1>3. /\ old = IF x \in DOMAIN refs THEN refs[x] ELSE {Unnumbered}
      /\ n \notin DOMAIN accounts /\ n \notin old
      /\ DOMAIN accounts \cup {n} = 1..(total.accounts + 1)
  BY NextIsNew DEF Get, n, x, old
<1>4. /\ DOMAIN accounts' = DOMAIN accounts \cup {n}
      /\ \A k \in DOMAIN accounts : accounts'[k] = accounts[k]
      /\ \A k : StoredDefault(k)' <=> k # n /\ StoredDefault(k)
  <2>1. /\ DOMAIN accounts' = DOMAIN accounts \cup {n}
        /\ \A k \in DOMAIN accounts : accounts'[k] = accounts[k]
        /\ accounts'[n].seedFrom = {}
    BY <1>1, <1>3 DEF Put
  <2> QED BY <2>1, <1>3 DEF StoredDefault
<1>5. NumbersInOrder'
  <2>1. total'.accounts = total.accounts + 1
    BY <1>1
  <2>2. DOMAIN accounts' = 1..(total.accounts + 1)
    BY <1>3, <1>4
  <2> QED BY <2>1, <2>2 DEF IInv, NumbersInOrder
<1>6. ListsAreStored'
  BY <1>2, <1>3, <1>4 DEF IInv, ListsAreStored
<1>7. OneList'
  <2> SUFFICES ASSUME NEW y \in DOMAIN refs', NEW z \in DOMAIN refs',
                      NEW k \in DOMAIN accounts', k \in refs'[y], k \in refs'[z]
               PROVE  y = z
    BY DEF OneList
  <2>1. CASE k = n
    BY <2>1, <1>2, NextIsNew DEF n
  <2>2. CASE k # n
    <3>1. k \in DOMAIN accounts /\ k # Unnumbered
      BY <2>2, <1>4, NextIsNew
    <3>2. \A w \in DOMAIN refs' : k \in refs'[w] => w \in DOMAIN refs /\ k \in refs[w]
      BY <2>2, <3>1, <1>2, <1>3
    <3> QED BY <3>1, <3>2 DEF IInv, OneList
  <2> QED BY <2>1, <2>2
<1>8. OneDefault'
  <2> SUFFICES ASSUME NEW b, NEW p, <<b, p>> \in DOMAIN refs'
               PROVE  /\ \A k \in refs'[<<b, p>>] : StoredDefault(k)' =>
                           /\ accounts'[k].seedFrom = {b}
                           /\ Unnumbered \notin refs'[<<b, p>>]
                           /\ \A m \in refs'[<<b, p>>] : StoredDefault(m)' => m = k
                      /\ \E k \in refs'[<<b, p>>] : k = Unnumbered \/ StoredDefault(k)'
    BY DEF OneDefault, Unnumbered
  <2> DEFINE new == refs'[<<b, p>>]
             before == IF <<b, p>> \in DOMAIN refs THEN refs[<<b, p>>] ELSE {Unnumbered}
  <2>1. before \subseteq new /\ new \subseteq before \cup {n}
    BY <1>2, <1>3
  <2>2. n # Unnumbered
    BY NextIsNew DEF n
  <2>3. \A k \in DOMAIN accounts : k # n
    BY NextIsNew DEF n
  <2>4. /\ \A k \in before : StoredDefault(k) =>
              /\ accounts[k].seedFrom = {b}
              /\ Unnumbered \notin before
              /\ \A m \in before : StoredDefault(m) => m = k
        /\ \E k \in before : k = Unnumbered \/ StoredDefault(k)
    <3>1. CASE <<b, p>> \in DOMAIN refs
      BY <3>1 DEF IInv, OneDefault
    <3>2. CASE <<b, p>> \notin DOMAIN refs
      BY <3>2, NextIsNew DEF StoredDefault
    <3> QED BY <3>1, <3>2
  <2> HIDE DEF new, before
  <2>5. \A k \in new : StoredDefault(k)' => k \in before /\ StoredDefault(k)
    BY <2>1, <1>4
  <2>6. \A k : StoredDefault(k) => accounts'[k].seedFrom = accounts[k].seedFrom
    BY <1>4 DEF StoredDefault
  <2>7. ASSUME NEW k \in new, StoredDefault(k)'
        PROVE  /\ accounts'[k].seedFrom = {b}
               /\ Unnumbered \notin new
               /\ \A m \in new : StoredDefault(m)' => m = k
    BY <2>7, <2>1, <2>2, <2>4, <2>5, <2>6
  <2>8. PICK k \in before : k = Unnumbered \/ StoredDefault(k)
    BY <2>4
  <2>9. k \in new /\ (k = Unnumbered \/ StoredDefault(k)')
    BY <2>1, <2>3, <2>8, <1>4 DEF StoredDefault
  <2> QED BY <2>7, <2>9 DEF new
<1>9. ChosenIsListed'
  <2>1. \A y \in DOMAIN refs : y \in DOMAIN refs' /\ refs[y] \subseteq refs'[y]
    BY <1>2, <1>3
  <2> QED BY <2>1, <1>1 DEF IInv, ChosenIsListed, Unnumbered
<1> QED BY <1>5, <1>6, <1>7, <1>8, <1>9 DEF IInv

\* update_account of the default account puts the stored one in its place.
LEMMA NameDefaultStep ==
    ASSUME IInv, NEW a, NEW o, NameDefault(a, o)
    PROVE  IInv'
<1> DEFINE n == NextNumber(a)
           x == <<a, o>>
           old == Get(refs, x, {}) \ {Unnumbered}
<1>1. /\ accounts' = Put(accounts, n, [seedFrom |-> {a}])
      /\ refs' = Put(refs, x, old \cup {n})
      /\ defaults' = Put(defaults, x, n)
      /\ Readable(a, o, Unnumbered)
  BY DEF NameDefault, SeedFromAnchor
<1>2. total'.accounts = total.accounts + 1
  BY CountFact DEF NameDefault
<1>3. /\ \A k \in old : ~StoredDefault(k) /\ k \in refs[x] /\ x \in DOMAIN refs
      /\ Unnumbered \notin old
  BY <1>1 DEF Get, Readable, IInv, OneDefault, Unnumbered
<1>4. /\ n \notin DOMAIN accounts /\ n # Unnumbered /\ Unnumbered \notin DOMAIN accounts
      /\ \A y \in DOMAIN refs : n \notin refs[y]
      /\ DOMAIN accounts \cup {n} = 1..(total.accounts + 1)
  BY NextIsNew
<1> HIDE DEF n, x, old
<1>5. /\ DOMAIN refs' = DOMAIN refs \cup {x}
      /\ refs'[x] = old \cup {n}
      /\ \A y \in DOMAIN refs : y # x => refs'[y] = refs[y]
  BY <1>1 DEF Put
<1>6. /\ DOMAIN accounts' = DOMAIN accounts \cup {n}
      /\ \A k \in DOMAIN accounts : accounts'[k] = accounts[k]
      /\ accounts'[n].seedFrom = {a}
      /\ \A k : StoredDefault(k)' <=> k = n \/ StoredDefault(k)
  <2>1. /\ DOMAIN accounts' = DOMAIN accounts \cup {n}
        /\ \A k \in DOMAIN accounts : accounts'[k] = accounts[k]
        /\ accounts'[n].seedFrom = {a}
    BY <1>1, <1>4 DEF Put
  <2> QED BY <2>1, <1>4 DEF StoredDefault
<1>7. /\ DOMAIN defaults' = DOMAIN defaults \cup {x}
      /\ defaults'[x] = n
      /\ \A y \in DOMAIN defaults : y # x => defaults'[y] = defaults[y]
  BY <1>1 DEF Put
<1>8. NumbersInOrder'
  BY <1>2, <1>6, <1>4 DEF IInv, NumbersInOrder
<1>9. ListsAreStored'
  BY <1>5, <1>6, <1>3 DEF IInv, ListsAreStored
<1>10. OneList'
  <2> SUFFICES ASSUME NEW y \in DOMAIN refs', NEW z \in DOMAIN refs',
                      NEW k \in DOMAIN accounts', k \in refs'[y], k \in refs'[z]
               PROVE  y = z
    BY DEF OneList
  <2>1. CASE k = n
    BY <2>1, <1>5, <1>4
  <2>2. CASE k # n
    <3>1. k \in DOMAIN accounts
      BY <2>2, <1>6
    <3>2. \A w \in DOMAIN refs' : k \in refs'[w] => w \in DOMAIN refs /\ k \in refs[w]
      BY <2>2, <1>5, <1>3
    <3> QED BY <3>1, <3>2 DEF IInv, OneList
  <2> QED BY <2>1, <2>2
<1>11. OneDefault'
  <2> SUFFICES ASSUME NEW b, NEW p, <<b, p>> \in DOMAIN refs'
               PROVE  /\ \A k \in refs'[<<b, p>>] : StoredDefault(k)' =>
                           /\ accounts'[k].seedFrom = {b}
                           /\ Unnumbered \notin refs'[<<b, p>>]
                           /\ \A m \in refs'[<<b, p>>] : StoredDefault(m)' => m = k
                      /\ \E k \in refs'[<<b, p>>] : k = Unnumbered \/ StoredDefault(k)'
    BY DEF OneDefault, Unnumbered
  <2>1. CASE <<b, p>> = x
    <3>1. b = a
      BY <2>1 DEF x
    <3>2. \A k \in refs'[x] : StoredDefault(k)' => k = n
      BY <1>5, <1>6, <1>3
    <3>3. n \in refs'[x] /\ \A k : k = n => StoredDefault(k)'
      BY <1>5, <1>6
    <3>4. Unnumbered \notin refs'[x]
      BY <1>3, <1>4, <1>5
    <3> QED BY <2>1, <3>1, <3>2, <3>3, <3>4, <1>6
  <2>2. CASE <<b, p>> # x
    <3>1. <<b, p>> \in DOMAIN refs /\ refs'[<<b, p>>] = refs[<<b, p>>]
      BY <2>2, <1>5
    <3>2. \A k \in refs[<<b, p>>] : StoredDefault(k)' <=> StoredDefault(k)
      BY <3>1, <1>6, <1>4
    <3>3. \A k : StoredDefault(k) => accounts'[k] = accounts[k]
      BY <1>6 DEF StoredDefault
    <3> QED BY <3>1, <3>2, <3>3 DEF IInv, OneDefault
  <2> QED BY <2>1, <2>2
<1>12. ChosenIsListed'
  <2> SUFFICES ASSUME NEW y \in DOMAIN defaults', defaults'[y] # Unnumbered
               PROVE  y \in DOMAIN refs' /\ defaults'[y] \in refs'[y]
    BY DEF ChosenIsListed, Unnumbered
  <2>1. CASE y = x
    BY <2>1, <1>5, <1>7
  <2>2. CASE y # x
    BY <2>2, <1>5, <1>7 DEF IInv, ChosenIsListed
  <2> QED BY <2>1, <2>2
<1> QED BY <1>8, <1>9, <1>10, <1>11, <1>12 DEF IInv

\* set_default_account chooses only what can be read.
LEMMA SetDefaultStep ==
    ASSUME IInv, NEW a, NEW o, NEW n, SetDefault(a, o, n)
    PROVE  IInv'
<1>1. UNCHANGED <<accounts, refs, total>>
  BY DEF SetDefault
<1>2. NumbersInOrder' /\ ListsAreStored' /\ OneList'
  BY <1>1 DEF IInv, NumbersInOrder, ListsAreStored, OneList, Unnumbered
<1>3. OneDefault'
  BY <1>1 DEF IInv, OneDefault, StoredDefault, Unnumbered
<1>4. ChosenIsListed'
  <2> SUFFICES ASSUME NEW y \in DOMAIN defaults', defaults'[y] # Unnumbered
               PROVE  y \in DOMAIN refs /\ defaults'[y] \in refs[y]
    BY <1>1 DEF ChosenIsListed, Unnumbered
  <2>1. CASE MayBeDefault(a, o, n)
    <3>1. /\ DOMAIN defaults' = DOMAIN defaults \cup {<<a, o>>}
          /\ defaults'[<<a, o>>] = n
          /\ \A z \in DOMAIN defaults : z # <<a, o>> => defaults'[z] = defaults[z]
      BY <2>1 DEF SetDefault, Put
    <3>2. CASE y = <<a, o>>
      BY <2>1, <3>1, <3>2 DEF MayBeDefault, Readable, Get
    <3>3. CASE y # <<a, o>>
      BY <3>1, <3>3 DEF IInv, ChosenIsListed
    <3> QED BY <3>2, <3>3
  <2>2. CASE ~MayBeDefault(a, o, n)
    BY <2>2 DEF SetDefault, IInv, ChosenIsListed
  <2> QED BY <2>1, <2>2
<1> QED BY <1>2, <1>3, <1>4 DEF IInv

\* Nothing is stored at first.
LEMMA InitIInv == Init => IInv
BY DEF Init, Empty, Zero, IInv, NumbersInOrder, ListsAreStored, OneList, OneDefault, ChosenIsListed

\* Every operation keeps the invariant.
LEMMA NextPreservesIInv == IInv /\ [Next]_vars => IInv'
<1> SUFFICES ASSUME IInv, [Next]_vars
             PROVE  IInv'
  OBVIOUS
<1>1. ASSUME UNCHANGED <<accounts, refs, defaults, total>>
      PROVE  IInv'
  BY <1>1 DEF IInv, NumbersInOrder, ListsAreStored, OneList, OneDefault, StoredDefault,
              ChosenIsListed, Unnumbered
<1>2. ASSUME NEW a \in Anchors, Refuse(a)
      PROVE  IInv'
  BY <1>1, <1>2 DEF Refuse
<1>3. ASSUME NEW a \in Anchors, NEW o \in Origins, CreateAccount(a, o)
      PROVE  IInv'
  BY <1>3, CreateAccountStep
<1>4. ASSUME NEW a \in Anchors, NEW o \in Origins, NameDefault(a, o)
      PROVE  IInv'
  BY <1>4, NameDefaultStep
<1>5. ASSUME NEW a \in Anchors, NEW o \in Origins, NEW n \in Numbers \cup {Unnumbered},
             SetDefault(a, o, n)
      PROVE  IInv'
  BY <1>5, SetDefaultStep
<1>6. CASE UNCHANGED vars
  BY <1>1, <1>6 DEF vars, counters
<1> QED BY <1>2, <1>3, <1>4, <1>5, <1>6 DEF Next

\* The invariant always holds.
LEMMA Invariant == Spec => []IInv
<1> QED BY InitIInv, NextPreservesIInv, PTL DEF Spec

-----------------------------------------------------------------------------
(***************************************************************************)
(* Principals are kept.                                                    *)
(***************************************************************************)

\* The accounts of a list whose seed is their number.
Ordinary(a, o) == {n \in Get(refs, <<a, o>>, {}) : n # Unnumbered /\ ~StoredDefault(n)}

\* The seeds of a list: the anchor's, and one for each ordinary account.
SeedsByKind ==
    \A a, o : Seeds(a, o) = {<<"anchor", a, o>>} \cup {<<"account", n, o>> : n \in Ordinary(a, o)}

\* calculate_seed, for all accounts of a list.
LEMMA InvSeedsByKind == IInv => SeedsByKind
<1> SUFFICES ASSUME IInv, NEW a, NEW o
             PROVE  Seeds(a, o) = {<<"anchor", a, o>>}
                                    \cup {<<"account", n, o>> : n \in Ordinary(a, o)}
  BY DEF SeedsByKind
<1> DEFINE Kinds == {<<"anchor", a, o>>} \cup {<<"account", n, o>> : n \in Ordinary(a, o)}
<1>1. ASSUME NEW n \in Listed(a, o)
      PROVE  Seed(a, o, n) \in Kinds
  <2>1. CASE n = Unnumbered \/ StoredDefault(n)
    BY <2>1, SeedFact
  <2>2. CASE ~(n = Unnumbered \/ StoredDefault(n))
    <3>1. n \in Ordinary(a, o) /\ Seed(a, o, n) = <<"account", n, o>>
      BY <2>2, SeedFact DEF Ordinary, Get
    <3> QED BY <3>1
  <2> QED BY <2>1, <2>2
<1>2. <<"anchor", a, o>> \in Seeds(a, o)
  <2>1. PICK m \in Listed(a, o) : m = Unnumbered \/ StoredDefault(m)
    BY InvDefaultListed DEF DefaultListed
  <2>2. Seed(a, o, m) = <<"anchor", a, o>>
    BY <2>1, SeedFact
  <2> QED BY <2>1, <2>2 DEF Seeds
<1>3. ASSUME NEW n \in Ordinary(a, o)
      PROVE  <<"account", n, o>> \in Seeds(a, o)
  <2>1. n \in Listed(a, o) /\ n # Unnumbered /\ ~StoredDefault(n)
    BY <1>3, ListedAccounts DEF Ordinary, Get
  <2>2. Seed(a, o, n) = <<"account", n, o>>
    BY <2>1, SeedFact
  <2> QED BY <2>1, <2>2 DEF Seeds
<1> QED BY <1>1, <1>2, <1>3 DEF Seeds

\* No step takes an ordinary account away or changes its seed
\* (create_account, update_account, set_default_account).
LEMMA OrdinaryIsKept ==
    ASSUME IInv, [Next]_vars, NEW b, NEW p
    PROVE  Ordinary(b, p) \subseteq Ordinary(b, p)'
<1>1. CASE UNCHANGED <<accounts, refs>>
  BY <1>1 DEF Ordinary, Get, StoredDefault, Unnumbered
<1>2. ASSUME NEW a, NEW o, NEW r, NEW list,
             Get(refs, <<a, o>>, {}) \ {Unnumbered} \subseteq list,
             accounts' = Put(accounts, NextNumber(a), r),
             refs' = Put(refs, <<a, o>>, list)
      PROVE  Ordinary(b, p) \subseteq Ordinary(b, p)'
  <2> SUFFICES ASSUME NEW n \in Ordinary(b, p)
               PROVE  n \in Ordinary(b, p)'
    OBVIOUS
  <2>1. /\ <<b, p>> \in DOMAIN refs /\ n \in refs[<<b, p>>]
        /\ n # Unnumbered /\ ~StoredDefault(n)
    BY DEF Ordinary, Get
  <2>2. n # NextNumber(a) /\ n \in DOMAIN accounts
    BY <2>1, NextIsNew DEF IInv, ListsAreStored
  <2>3. ~StoredDefault(n)'
    BY <1>2, <2>1, <2>2 DEF StoredDefault, Put
  <2>4. <<b, p>> \in DOMAIN refs' /\ n \in refs'[<<b, p>>]
    BY <1>2, <2>1 DEF Put, Get
  <2> QED BY <2>1, <2>3, <2>4 DEF Ordinary, Get, Unnumbered
<1>3. ASSUME NEW a \in Anchors, NEW o \in Origins, CreateAccount(a, o)
      PROVE  Ordinary(b, p) \subseteq Ordinary(b, p)'
  <2>1. Get(refs, <<a, o>>, {}) \ {Unnumbered}
          \subseteq Get(refs, <<a, o>>, {Unnumbered}) \cup {NextNumber(a)}
    BY DEF Get
  <2> QED BY <1>2, <1>3, <2>1 DEF CreateAccount
<1>4. ASSUME NEW a \in Anchors, NEW o \in Origins, NameDefault(a, o)
      PROVE  Ordinary(b, p) \subseteq Ordinary(b, p)'
  BY <1>2, <1>4 DEF NameDefault
<1>5. ASSUME NEW a \in Anchors, Refuse(a)
      PROVE  Ordinary(b, p) \subseteq Ordinary(b, p)'
  BY <1>1, <1>5 DEF Refuse
<1>6. ASSUME NEW a \in Anchors, NEW o \in Origins, NEW n \in Numbers \cup {Unnumbered},
             SetDefault(a, o, n)
      PROVE  Ordinary(b, p) \subseteq Ordinary(b, p)'
  BY <1>1, <1>6 DEF SetDefault
<1>7. CASE UNCHANGED vars
  BY <1>1, <1>7 DEF vars
<1> QED BY <1>3, <1>4, <1>5, <1>6, <1>7 DEF Next

\* With the ordinary accounts, all seeds stay.
LEMMA StepKeepsPrincipals ==
    ASSUME IInv, SeedsByKind, SeedsByKind', [Next]_vars
    PROVE  PrincipalsAreKeptStep
<1> SUFFICES ASSUME NEW a \in Anchors, NEW o \in Origins
             PROVE  Seeds(a, o) \subseteq Seeds(a, o)'
  BY DEF PrincipalsAreKeptStep
<1>1. Seeds(a, o) = {<<"anchor", a, o>>} \cup {<<"account", n, o>> : n \in Ordinary(a, o)}
  BY DEF SeedsByKind
<1>2. Seeds(a, o)' = {<<"anchor", a, o>>} \cup {<<"account", n, o>> : n \in Ordinary(a, o)'}
  BY DEF SeedsByKind
<1> QED BY <1>1, <1>2, OrdinaryIsKept

-----------------------------------------------------------------------------
(***************************************************************************)
(* Counting references.                                                    *)
(***************************************************************************)

\* The references of some lists, and those to stored accounts.
Pairs(r, lists) == UNION {{x} \X r[x] : x \in lists}
NumberedPairs(r, lists) == UNION {{x} \X (r[x] \ {Unnumbered}) : x \in lists}

CountedIn(r, lists) ==
    [accounts |-> Cardinality(NumberedPairs(r, lists)), refs |-> Cardinality(Pairs(r, lists))]

\* Lists are counted by their references.
LEMMA CountedFact ==
    ASSUME NEW lists
    PROVE  Counted(lists) = CountedIn(refs, lists)
BY DEF Counted, CountedIn, Pairs, NumberedPairs

\* A reference is that of one list to one account.
LEMMA PairsFact ==
    ASSUME NEW r, NEW lists
    PROVE  /\ \A p : p \in Pairs(r, lists) <=> \E x \in lists : \E n \in r[x] : p = <<x, n>>
           /\ \A p : p \in NumberedPairs(r, lists) <=>
                 \E x \in lists : \E n \in r[x] : n # Unnumbered /\ p = <<x, n>>
BY DEF Pairs, NumberedPairs

\* No lists, no references.
LEMMA CountedEmpty == ASSUME NEW r PROVE CountedIn(r, {}) = Zero
<1>1. Pairs(r, {}) = {} /\ NumberedPairs(r, {}) = {}
  BY DEF Pairs, NumberedPairs
<1> QED BY <1>1, FS_EmptySet DEF CountedIn, Zero

\* Lists that stay as they are have as many.
LEMMA CountedSame ==
    ASSUME NEW r, NEW r2, NEW lists, \A y \in lists : r2[y] = r[y]
    PROVE  CountedIn(r2, lists) = CountedIn(r, lists)
<1>1. Pairs(r2, lists) = Pairs(r, lists) /\ NumberedPairs(r2, lists) = NumberedPairs(r, lists)
  BY DEF Pairs, NumberedPairs
<1> QED BY <1>1 DEF CountedIn

\* Some of finitely many references are finitely many.
LEMMA PairsFinite ==
    ASSUME NEW r, NEW all, IsFiniteSet(Pairs(r, all)), NEW lists \in SUBSET all
    PROVE  IsFiniteSet(Pairs(r, lists)) /\ IsFiniteSet(NumberedPairs(r, lists))
<1>1. Pairs(r, lists) \subseteq Pairs(r, all) /\ NumberedPairs(r, lists) \subseteq Pairs(r, all)
  BY PairsFact
<1> QED BY <1>1, FS_Subset

\* One of finitely many lists changes, or is added to them.
OneChange(r, r2, lists, x, new) ==
    /\ IsFiniteSet(Pairs(r, lists))
    /\ \A y \in lists : y # x => r2[y] = r[y]
    /\ r2[x] = new

\* What create_account adds to the references.
LEMMA CreateCounts ==
    ASSUME NEW r, NEW r2, NEW lists, NEW x, NEW n, NEW old, NEW k,
           OneChange(r, r2, lists, x, old \cup {n}), n # Unnumbered,
           x \in lists => n \notin r[x] /\ old = r[x] /\ k = 1,
           x \notin lists => old = {Unnumbered} /\ k = 2
    PROVE  /\ CountedIn(r2, lists \cup {x}) = Plus(CountedIn(r, lists), 1, k)
           /\ IsFiniteSet(Pairs(r2, lists \cup {x}))
<1> DEFINE P == Pairs(r, lists)
           N == NumberedPairs(r, lists)
<1>0. IsFiniteSet(P) /\ IsFiniteSet(N)
  BY PairsFinite DEF OneChange
<1>1. /\ NumberedPairs(r2, lists \cup {x}) = N \cup {<<x, n>>}
      /\ <<x, n>> \notin N /\ <<x, n>> \notin P
  BY PairsFact DEF OneChange
<1>2. Cardinality(NumberedPairs(r2, lists \cup {x})) = Cardinality(N) + 1
  BY <1>0, <1>1, FS_AddElement
<1>3. CASE x \in lists
  <2>1. Pairs(r2, lists \cup {x}) = P \cup {<<x, n>>}
    BY <1>3, PairsFact DEF OneChange
  <2>2. /\ IsFiniteSet(Pairs(r2, lists \cup {x}))
        /\ Cardinality(Pairs(r2, lists \cup {x})) = Cardinality(P) + 1
    <3>1. IsFiniteSet(P \cup {<<x, n>>})
      BY <1>0, FS_AddElement
    <3>2. Cardinality(P \cup {<<x, n>>}) = Cardinality(P) + 1
      BY <1>0, <1>1, FS_AddElement
    <3> QED BY <2>1, <3>1, <3>2
  <2> QED BY <1>2, <1>3, <2>2 DEF CountedIn, Plus
<1>4. CASE x \notin lists
  <2> DEFINE Q == P \cup {<<x, Unnumbered>>}
  <2>1. /\ Pairs(r2, lists \cup {x}) = Q \cup {<<x, n>>}
        /\ <<x, Unnumbered>> \notin P /\ <<x, n>> \notin Q
    BY <1>1, <1>4, PairsFact DEF OneChange
  <2>2. IsFiniteSet(Q) /\ Cardinality(Q) = Cardinality(P) + 1
    BY <1>0, <2>1, FS_AddElement
  <2>3. /\ IsFiniteSet(Pairs(r2, lists \cup {x}))
        /\ Cardinality(Pairs(r2, lists \cup {x})) = Cardinality(Q) + 1
    <3> HIDE DEF Q
    <3>1. IsFiniteSet(Q \cup {<<x, n>>})
      BY <2>2, FS_AddElement
    <3>2. Cardinality(Q \cup {<<x, n>>}) = Cardinality(Q) + 1
      BY <2>1, <2>2, FS_AddElement
    <3> QED BY <2>1, <3>1, <3>2
  <2>4. Cardinality(P) \in Nat
    BY <1>0, FS_CardinalityType
  <2>5. Cardinality(Pairs(r2, lists \cup {x})) = Cardinality(P) + 2
    BY <2>2, <2>3, <2>4
  <2> QED BY <1>2, <1>4, <2>3, <2>5 DEF CountedIn, Plus
<1> QED BY <1>3, <1>4

\* What update_account of the default account adds: its reference takes the
\* place of the one without a number.
NameChange(r, r2, lists, x, n, k) ==
    /\ IsFiniteSet(Pairs(r, lists))
    /\ \A y \in lists : y # x => r2[y] = r[y]
    /\ n # Unnumbered
    /\ x \in lists => /\ n \notin r[x] /\ Unnumbered \in r[x] /\ k = 0
                      /\ r2[x] = (r[x] \ {Unnumbered}) \cup {n}
    /\ x \notin lists => r2[x] = {n} /\ k = 1

LEMMA NameCounts ==
    ASSUME NEW r, NEW r2, NEW lists, NEW x, NEW n, NEW k, NameChange(r, r2, lists, x, n, k)
    PROVE  /\ CountedIn(r2, lists \cup {x}) = Plus(CountedIn(r, lists), 1, k)
           /\ IsFiniteSet(Pairs(r2, lists \cup {x}))
<1> DEFINE P == Pairs(r, lists)
           N == NumberedPairs(r, lists)
           Q == P \ {<<x, Unnumbered>>}
<1>0. IsFiniteSet(P) /\ IsFiniteSet(N)
  BY PairsFinite DEF NameChange
<1>1. /\ NumberedPairs(r2, lists \cup {x}) = N \cup {<<x, n>>}
      /\ Pairs(r2, lists \cup {x}) = Q \cup {<<x, n>>}
      /\ <<x, n>> \notin N /\ <<x, n>> \notin P
      /\ <<x, Unnumbered>> \in P <=> x \in lists
  BY PairsFact DEF NameChange
<1>2. Cardinality(NumberedPairs(r2, lists \cup {x})) = Cardinality(N) + 1
  BY <1>0, <1>1, FS_AddElement
<1>3. /\ IsFiniteSet(Q)
      /\ Cardinality(Q) = IF x \in lists THEN Cardinality(P) - 1 ELSE Cardinality(P)
  BY <1>0, <1>1, FS_RemoveElement
<1>4. /\ IsFiniteSet(Pairs(r2, lists \cup {x}))
      /\ Cardinality(Pairs(r2, lists \cup {x})) = Cardinality(Q) + 1
  <2>1. <<x, n>> \notin Q
    BY <1>1
  <2> HIDE DEF Q
  <2>2. IsFiniteSet(Q \cup {<<x, n>>})
    BY <1>3, FS_AddElement
  <2>3. Cardinality(Q \cup {<<x, n>>}) = Cardinality(Q) + 1
    BY <1>3, <2>1, FS_AddElement
  <2> QED BY <1>1, <2>2, <2>3
<1>5. Cardinality(P) \in Nat
  BY <1>0, FS_CardinalityType
<1>6. Cardinality(Pairs(r2, lists \cup {x}))
        = Cardinality(P) + k
  BY <1>3, <1>4, <1>5 DEF NameChange
<1> QED BY <1>2, <1>4, <1>6 DEF CountedIn, Plus

-----------------------------------------------------------------------------
(***************************************************************************)
(* The counters.                                                           *)
(***************************************************************************)

\* The lists of an anchor, and those for an application.
AnchorLists(r, a) == {x \in DOMAIN r : x[1] = a}
AppLists(r, o) == {x \in DOMAIN r : x[2] = o}

CountsExactly ==
    /\ \A a \in Anchors : ofAnchor[a] = CountedIn(refs, AnchorLists(refs, a))
    /\ \A o \in DOMAIN ofApp : ofApp[o] = CountedIn(refs, AppLists(refs, o))
    /\ total = CountedIn(refs, DOMAIN refs)

FinitelyMany == IsFiniteSet(Pairs(refs, DOMAIN refs))

CInv == IInv /\ TypeOK /\ CountsExactly /\ FinitelyMany

\* The counters agree with the references.
LEMMA ExactFact == TypeOK /\ CountsExactly => CountersAreExact
BY CountedFact DEF CountsExactly, CountersAreExact, RefsOf, AnchorLists, AppLists

\* A rebuilt counter is the one that was kept
\* (check_or_rebuild_max_anchor_accounts).
LEMMA RebuiltIsSame == ASSUME CInv, NEW a \in Anchors PROVE Checked(a) = ofAnchor[a]
BY CountedFact DEF Checked, CInv, CountsExactly, RefsOf, AnchorLists

\* Counters keep their types, and anchors their limit (update_counters).
LEMMA CountTypes ==
    ASSUME CInv, NEW a \in Anchors, NEW o \in Origins, NEW k \in Nat,
           ~AtLimit(Checked(a).accounts), Count(a, o, k)
    PROVE  /\ ofAnchor' = [ofAnchor EXCEPT ![a] = Plus(ofAnchor[a], 1, k)]
           /\ ofAnchor' \in [Anchors -> [accounts : 0..MaxAccounts, refs : Nat]]
           /\ DOMAIN ofApp' = DOMAIN ofApp \cup {o}
           /\ ofApp'[o] = Plus(Get(ofApp, o, Zero), 1, k)
           /\ \A p \in DOMAIN ofApp : p # o => ofApp'[p] = ofApp[p]
           /\ \A p \in DOMAIN ofApp' : ofApp'[p] \in Counter
           /\ total' = Plus(total, 1, k)
           /\ total' \in Counter
           /\ rebuilds' \in 0..MaxRebuilds
<1>1. /\ Checked(a) = ofAnchor[a]
      /\ ofAnchor[a] \in [accounts : 0..MaxAccounts, refs : Nat]
      /\ ofAnchor[a].accounts < MaxAccounts
  <2>1. Checked(a) = ofAnchor[a]
    BY RebuiltIsSame
  <2>2. ofAnchor[a] \in [accounts : 0..MaxAccounts, refs : Nat]
    BY DEF CInv, TypeOK
  <2> QED BY <2>1, <2>2, AccountsAssumption DEF AtLimit
<1>2. ofAnchor' = [ofAnchor EXCEPT ![a] = Plus(ofAnchor[a], 1, k)]
  BY <1>1 DEF Count
<1>3. Plus(ofAnchor[a], 1, k) \in [accounts : 0..MaxAccounts, refs : Nat]
  BY <1>1, AccountsAssumption DEF Plus
<1>4. ofAnchor' \in [Anchors -> [accounts : 0..MaxAccounts, refs : Nat]]
  BY <1>2, <1>3 DEF CInv, TypeOK
<1>5. /\ DOMAIN ofApp' = DOMAIN ofApp \cup {o}
      /\ ofApp'[o] = Plus(Get(ofApp, o, Zero), 1, k)
      /\ \A p \in DOMAIN ofApp : p # o => ofApp'[p] = ofApp[p]
  BY DEF Count, Put
<1>6. ofApp'[o] \in Counter
  BY <1>5 DEF CInv, TypeOK, Counter, Plus, Zero, Get
<1>7. \A p \in DOMAIN ofApp' : ofApp'[p] \in Counter
  BY <1>5, <1>6 DEF CInv, TypeOK
<1>8. total' = Plus(total, 1, k) /\ total' \in Counter
  BY DEF Count, CInv, TypeOK, Counter, Plus
<1>9. rebuilds' \in 0..MaxRebuilds
  BY AccountsAssumption DEF Count, Rebuilds, CInv, TypeOK
<1> QED BY <1>2, <1>4, <1>5, <1>7, <1>8, <1>9

\* Lists to which x belongs get one account and k references.
Grown(x, k) ==
    /\ DOMAIN refs' = DOMAIN refs \cup {x}
    /\ \A y \in DOMAIN refs : y # x => refs'[y] = refs[y]
    /\ \A lists \in SUBSET DOMAIN refs :
          (x \in DOMAIN refs => x \in lists)
              => CountedIn(refs', lists \cup {x}) = Plus(CountedIn(refs, lists), 1, k)

\* One list is given one account and k references, and so are the counters of
\* its anchor and its application, and the total.
LEMMA CountStep ==
    ASSUME CInv, NEW a \in Anchors, NEW o \in Origins, NEW k \in Nat,
           ~AtLimit(Checked(a).accounts), Count(a, o, k), Grown(<<a, o>>, k)
    PROVE  CountsExactly'
<1> DEFINE x == <<a, o>>
<1>0. /\ ofAnchor' = [ofAnchor EXCEPT ![a] = Plus(ofAnchor[a], 1, k)]
      /\ DOMAIN ofApp' = DOMAIN ofApp \cup {o}
      /\ ofApp'[o] = Plus(Get(ofApp, o, Zero), 1, k)
      /\ \A p \in DOMAIN ofApp : p # o => ofApp'[p] = ofApp[p]
      /\ total' = Plus(total, 1, k)
  BY CountTypes
<1>1. ASSUME NEW b \in Anchors
      PROVE  ofAnchor'[b] = CountedIn(refs', AnchorLists(refs', b))
  <2>1. ofAnchor[b] = CountedIn(refs, AnchorLists(refs, b))
    BY DEF CInv, CountsExactly
  <2>2. CASE b = a
    <3>1. /\ AnchorLists(refs', b) = AnchorLists(refs, b) \cup {x}
          /\ x \in DOMAIN refs => x \in AnchorLists(refs, b)
          /\ AnchorLists(refs, b) \in SUBSET DOMAIN refs
      BY <2>2 DEF AnchorLists, Grown
    <3>2. ofAnchor'[b] = Plus(ofAnchor[b], 1, k)
      BY <1>0, <2>2 DEF CInv, TypeOK
    <3> QED BY <2>1, <3>1, <3>2 DEF Grown
  <2>3. CASE b # a
    <3>1. /\ AnchorLists(refs', b) = AnchorLists(refs, b)
          /\ \A y \in AnchorLists(refs, b) : refs'[y] = refs[y]
      BY <2>3 DEF AnchorLists, Grown
    <3>2. ofAnchor'[b] = ofAnchor[b]
      BY <1>0, <2>3 DEF CInv, TypeOK
    <3>3. CountedIn(refs', AnchorLists(refs, b)) = CountedIn(refs, AnchorLists(refs, b))
      BY <3>1, CountedSame
    <3> QED BY <2>1, <3>1, <3>2, <3>3
  <2> QED BY <2>2, <2>3
<1>2. ASSUME NEW p \in DOMAIN ofApp'
      PROVE  ofApp'[p] = CountedIn(refs', AppLists(refs', p))
  <2>1. CASE p = o
    <3>1. /\ AppLists(refs', p) = AppLists(refs, p) \cup {x}
          /\ x \in DOMAIN refs => x \in AppLists(refs, p)
          /\ AppLists(refs, p) \in SUBSET DOMAIN refs
      BY <2>1 DEF AppLists, Grown
    <3>2. Get(ofApp, p, Zero) = CountedIn(refs, AppLists(refs, p))
      <4>1. CASE p \in DOMAIN ofApp
        BY <4>1 DEF CInv, CountsExactly, Get
      <4>2. CASE p \notin DOMAIN ofApp
        <5>1. AppLists(refs, p) = {}
          BY <4>2 DEF AppLists, CInv, TypeOK
        <5> QED BY <4>2, <5>1, CountedEmpty DEF Get
      <4> QED BY <4>1, <4>2
    <3>3. ofApp'[p] = Plus(Get(ofApp, p, Zero), 1, k)
      BY <1>0, <2>1
    <3> QED BY <3>1, <3>2, <3>3 DEF Grown
  <2>2. CASE p # o
    <3>1. /\ AppLists(refs', p) = AppLists(refs, p)
          /\ \A y \in AppLists(refs, p) : refs'[y] = refs[y]
      BY <2>2 DEF AppLists, Grown
    <3>2. p \in DOMAIN ofApp /\ ofApp'[p] = ofApp[p]
      BY <1>0, <2>2
    <3>3. CountedIn(refs', AppLists(refs, p)) = CountedIn(refs, AppLists(refs, p))
      BY <3>1, CountedSame
    <3> QED BY <3>1, <3>2, <3>3 DEF CInv, CountsExactly
  <2> QED BY <2>1, <2>2
<1>3. total' = CountedIn(refs', DOMAIN refs')
  <2>1. total' = Plus(total, 1, k) /\ total = CountedIn(refs, DOMAIN refs)
    BY <1>0 DEF CInv, CountsExactly
  <2> QED BY <2>1 DEF Grown
<1> QED BY <1>1, <1>2, <1>3 DEF CountsExactly

\* Types, after an account was stored and its reference counted.
LEMMA TypesFact ==
    ASSUME CInv, IInv', NEW a \in Anchors, NEW o \in Origins, NEW k \in Nat,
           ~AtLimit(Checked(a).accounts), Count(a, o, k), NEW n, NEW from \in SUBSET Anchors,
           accounts' = Put(accounts, n, [seedFrom |-> from]),
           DOMAIN refs' = DOMAIN refs \cup {<<a, o>>},
           DOMAIN defaults' \subseteq DOMAIN defaults \cup {<<a, o>>}
    PROVE  TypeOK'
<1>1. DOMAIN accounts' = 1..total'.accounts
  BY DEF IInv, NumbersInOrder
<1>2. \A m \in DOMAIN accounts' : accounts'[m].seedFrom \in SUBSET Anchors
  BY DEF Put, CInv, TypeOK
<1>3. DOMAIN ofApp' = DOMAIN ofApp \cup {o}
  BY CountTypes
<1>4. /\ DOMAIN refs' \subseteq Anchors \X DOMAIN ofApp'
      /\ DOMAIN defaults' \subseteq Anchors \X DOMAIN ofApp'
      /\ DOMAIN ofApp' \subseteq Origins
  BY <1>3 DEF CInv, TypeOK
<1>5. \A x \in DOMAIN refs' : refs'[x] \subseteq DOMAIN accounts' \cup {Unnumbered}
  BY DEF IInv, ListsAreStored, Unnumbered
<1>6. \A x \in DOMAIN defaults' : defaults'[x] \in DOMAIN accounts' \cup {Unnumbered}
  BY DEF IInv, ChosenIsListed, ListsAreStored, Unnumbered
<1> QED BY <1>1, <1>2, <1>4, <1>5, <1>6, CountTypes DEF TypeOK, Unnumbered

\* create_account keeps the counters exact.
LEMMA CreateAccountCounts ==
    ASSUME CInv, NEW a \in Anchors, NEW o \in Origins, CreateAccount(a, o)
    PROVE  CInv'
<1> DEFINE n == NextNumber(a)
           x == <<a, o>>
           old == Get(refs, x, {Unnumbered})
           k == NewRefs(a, o)
<1>1. IInv'
  BY CreateAccountStep DEF CInv
<1>2. /\ accounts' = Put(accounts, n, [seedFrom |-> {}])
      /\ ~AtLimit(Checked(a).accounts) /\ Count(a, o, k) /\ defaults' = defaults
      /\ DOMAIN refs' = DOMAIN refs \cup {x}
      /\ \A y \in DOMAIN refs : y # x => refs'[y] = refs[y]
      /\ refs'[x] = old \cup {n}
  BY DEF CreateAccount, Put
<1>3. /\ k \in Nat
      /\ x \in DOMAIN refs => old = refs[x] /\ k = 1
      /\ x \notin DOMAIN refs => old = {Unnumbered} /\ k = 2
  BY DEF NewRefs, Get
<1>4. n # Unnumbered /\ \A y \in DOMAIN refs : n \notin refs[y]
  BY NextIsNew DEF CInv
<1> HIDE DEF n, x, old, k
<1>5. ASSUME NEW lists \in SUBSET DOMAIN refs, x \in DOMAIN refs => x \in lists
      PROVE  /\ CountedIn(refs', lists \cup {x}) = Plus(CountedIn(refs, lists), 1, k)
             /\ IsFiniteSet(Pairs(refs', lists \cup {x}))
  <2>1. OneChange(refs, refs', lists, x, old \cup {n})
    BY <1>2, PairsFinite DEF CInv, FinitelyMany, OneChange
  <2>2. /\ x \in lists => n \notin refs[x] /\ old = refs[x] /\ k = 1
        /\ x \notin lists => old = {Unnumbered} /\ k = 2
    BY <1>2, <1>3, <1>4, <1>5
  <2> QED BY <1>4, <2>1, <2>2, CreateCounts
<1>6. CountsExactly'
  BY <1>2, <1>3, <1>5, CountStep DEF x, Grown
<1>7. TypeOK'
  BY <1>1, <1>2, <1>3, TypesFact DEF x
<1>8. FinitelyMany'
  BY <1>2, <1>5 DEF FinitelyMany
<1> QED BY <1>1, <1>6, <1>7, <1>8 DEF CInv

\* So does update_account of the default account.
LEMMA NameDefaultCounts ==
    ASSUME CInv, NEW a \in Anchors, NEW o \in Origins, NameDefault(a, o)
    PROVE  CInv'
<1> DEFINE n == NextNumber(a)
           x == <<a, o>>
           old == Get(refs, x, {})
           k == IF x \in DOMAIN refs THEN 0 ELSE 1
<1>1. IInv'
  BY NameDefaultStep DEF CInv
<1>2. /\ accounts' = Put(accounts, n, [seedFrom |-> {a}])
      /\ ~AtLimit(Checked(a).accounts) /\ Count(a, o, k)
      /\ DOMAIN defaults' = DOMAIN defaults \cup {x}
      /\ DOMAIN refs' = DOMAIN refs \cup {x}
      /\ \A y \in DOMAIN refs : y # x => refs'[y] = refs[y]
      /\ refs'[x] = (old \ {Unnumbered}) \cup {n}
      /\ x \in DOMAIN refs => Unnumbered \in refs[x]
  BY DEF NameDefault, SeedFromAnchor, Put, Readable
<1>3. /\ k \in Nat
      /\ x \in DOMAIN refs => old = refs[x] /\ k = 0
      /\ x \notin DOMAIN refs => old = {} /\ k = 1
  BY DEF Get
<1>4. n # Unnumbered /\ \A y \in DOMAIN refs : n \notin refs[y]
  BY NextIsNew DEF CInv
<1> HIDE DEF n, x, old, k
<1>5. ASSUME NEW lists \in SUBSET DOMAIN refs, x \in DOMAIN refs => x \in lists
      PROVE  /\ CountedIn(refs', lists \cup {x}) = Plus(CountedIn(refs, lists), 1, k)
             /\ IsFiniteSet(Pairs(refs', lists \cup {x}))
  <2>1. IsFiniteSet(Pairs(refs, lists))
    BY PairsFinite DEF CInv, FinitelyMany
  <2>2. NameChange(refs, refs', lists, x, n, k)
    BY <1>2, <1>3, <1>4, <1>5, <2>1 DEF NameChange
  <2> QED BY <2>2, NameCounts
<1>6. CountsExactly'
  BY <1>2, <1>3, <1>5, CountStep DEF x, Grown
<1>7. TypeOK'
  BY <1>1, <1>2, <1>3, TypesFact DEF x
<1>8. FinitelyMany'
  BY <1>2, <1>5 DEF FinitelyMany
<1> QED BY <1>1, <1>6, <1>7, <1>8 DEF CInv

\* An application is known, without accounts (set_default_account).
LEMMA SetDefaultCounts ==
    ASSUME CInv, NEW a \in Anchors, NEW o \in Origins, NEW n, SetDefault(a, o, n)
    PROVE  CInv'
<1>1. IInv'
  BY SetDefaultStep DEF CInv
<1>2. /\ UNCHANGED <<accounts, refs, ofAnchor, total, rebuilds>>
      /\ DOMAIN ofApp' = DOMAIN ofApp \cup {o}
      /\ ofApp'[o] = IF o \in DOMAIN ofApp THEN ofApp[o] ELSE Zero
      /\ \A p \in DOMAIN ofApp : ofApp'[p] = ofApp[p]
      /\ DOMAIN defaults' \subseteq DOMAIN defaults \cup {<<a, o>>}
  BY DEF SetDefault, AppStored, Put, Get
<1>3. \A p \in DOMAIN ofApp' : ofApp'[p] \in Counter
  BY <1>2 DEF CInv, TypeOK, Counter, Zero
<1>4. \A p \in DOMAIN ofApp' : ofApp'[p] = CountedIn(refs, AppLists(refs, p))
  <2>1. \A p \in DOMAIN ofApp : ofApp'[p] = CountedIn(refs, AppLists(refs, p))
    BY <1>2 DEF CInv, CountsExactly
  <2>2. ASSUME o \notin DOMAIN ofApp
        PROVE  ofApp'[o] = CountedIn(refs, AppLists(refs, o))
    <3>1. AppLists(refs, o) = {}
      BY <2>2 DEF AppLists, CInv, TypeOK
    <3> QED BY <2>2, <1>2, <3>1, CountedEmpty
  <2> QED BY <1>2, <2>1, <2>2
<1>5. CountsExactly'
  BY <1>2, <1>4 DEF CInv, CountsExactly
<1>6. \A x \in DOMAIN defaults' : defaults'[x] \in DOMAIN accounts' \cup {Unnumbered}
  BY <1>1 DEF IInv, ChosenIsListed, ListsAreStored, Unnumbered
<1>7. TypeOK'
  BY <1>2, <1>3, <1>6 DEF CInv, TypeOK, Unnumbered
<1>8. FinitelyMany'
  BY <1>2 DEF CInv, FinitelyMany
<1> QED BY <1>1, <1>5, <1>7, <1>8 DEF CInv

\* A refused account leaves a rebuilt counter, which is the same.
LEMMA RefuseCounts ==
    ASSUME CInv, NEW a \in Anchors, Refuse(a)
    PROVE  CInv'
<1>1. UNCHANGED <<accounts, refs, defaults, ofApp, total>>
  BY DEF Refuse
<1>2. ofAnchor' = ofAnchor
  <2>1. ofAnchor' = [ofAnchor EXCEPT ![a] = ofAnchor[a]]
    BY RebuiltIsSame DEF Refuse
  <2> QED BY <2>1 DEF CInv, TypeOK
<1>3. rebuilds' \in 0..MaxRebuilds
  BY AccountsAssumption DEF Refuse, Rebuilds, CInv, TypeOK
<1>4. IInv'
  BY <1>1 DEF CInv, IInv, NumbersInOrder, ListsAreStored, OneList, OneDefault, StoredDefault,
              ChosenIsListed, Unnumbered
<1>5. TypeOK'
  BY <1>1, <1>2, <1>3 DEF CInv, TypeOK, Unnumbered
<1>6. CountsExactly' /\ FinitelyMany'
  BY <1>1, <1>2 DEF CInv, CountsExactly, FinitelyMany
<1> QED BY <1>4, <1>5, <1>6 DEF CInv

\* At first there is nothing to count.
LEMMA InitCInv == Init => CInv
<1> SUFFICES ASSUME Init PROVE CInv
  OBVIOUS
<1>1. IInv
  BY InitIInv
<1>2. DOMAIN refs = {} /\ DOMAIN ofApp = {} /\ \A a : AnchorLists(refs, a) = {}
  BY DEF Init, Empty, AnchorLists
<1>3. TypeOK
  BY <1>2, AccountsAssumption DEF Init, Empty, TypeOK, Zero, Counter
<1>4. CountsExactly
  BY <1>2, CountedEmpty DEF Init, CountsExactly
<1>5. FinitelyMany
  BY <1>2, FS_EmptySet DEF FinitelyMany, Pairs
<1> QED BY <1>1, <1>3, <1>4, <1>5 DEF CInv

\* Every operation keeps the counters exact.
LEMMA NextPreservesCInv == CInv /\ [Next]_vars => CInv'
<1> SUFFICES ASSUME CInv, [Next]_vars
             PROVE  CInv'
  OBVIOUS
<1>1. CASE UNCHANGED vars
  <2>1. IInv'
    BY <1>1, NextPreservesIInv DEF CInv
  <2>2. TypeOK'
    BY <1>1 DEF vars, counters, CInv, TypeOK, Unnumbered
  <2>3. CountsExactly' /\ FinitelyMany'
    BY <1>1 DEF vars, counters, CInv, CountsExactly, FinitelyMany
  <2> QED BY <2>1, <2>2, <2>3 DEF CInv
<1> QED BY <1>1, RefuseCounts, CreateAccountCounts, NameDefaultCounts, SetDefaultCounts DEF Next

-----------------------------------------------------------------------------
(***************************************************************************)
(* The parts together.                                                     *)
(***************************************************************************)

StorageInv ==
    /\ part = "devices" => AnchorsInv
    /\ part = "records" => RecordsInv /\ ArchiveInv
    /\ part = "new credentials" => NewLinksInv
    /\ part = "old credentials" => OldLinksInv

LEMMA StorageInitially == StorageInit => StorageInv
<1> SUFFICES ASSUME StorageInit
             PROVE  StorageInv
  OBVIOUS
<1>1. CASE part = "devices"
  BY <1>1, MCStorageAssumption, AnchorsInitially DEF StorageInit, StorageInv
<1>2. CASE part = "records"
  BY <1>2, MCStorageAssumption, RecordsInitially, ArchiveInitially DEF StorageInit, StorageInv
<1>3. CASE part = "new credentials"
  BY <1>3, MCStorageAssumption, NewInitially DEF StorageInit, StorageInv
<1>4. CASE part = "old credentials"
  BY <1>4, MCStorageAssumption, OldInitially DEF StorageInit, StorageInv
<1> QED
  BY <1>1, <1>2, <1>3, <1>4 DEF StorageInv

\* A step of the storage is one of its part.
LEMMA PartsStep ==
    ASSUME [StorageNext]_storageVars
    PROVE  /\ part' = part
           /\ part = "devices" => [Devices!Next]_(Devices!vars)
           /\ part = "records" => [Records!Next]_(Records!vars)
           /\ part = "new credentials" => [New!Next]_(New!vars)
           /\ part = "old credentials" => [Old!Next]_(Old!vars)
<1>1. CASE StorageNext
  BY <1>1 DEF StorageNext
<1>2. CASE UNCHANGED storageVars
  BY <1>2 DEF storageVars, deviceVars, recordVars, openIdVars,
              Devices!vars, Records!vars, New!vars, Old!vars, Devices!indices
<1> QED
  BY <1>1, <1>2

LEMMA StorageStep == StorageInv /\ [StorageNext]_storageVars => StorageInv'
<1> SUFFICES ASSUME StorageInv, [StorageNext]_storageVars
             PROVE  StorageInv'
  OBVIOUS
<1>1. part' = part
  BY PartsStep
<1>2. ASSUME part = "devices"
      PROVE  AnchorsInv'
  BY <1>2, MCStorageAssumption, PartsStep, AnchorsStep DEF StorageInv, AnchorsGood
<1>3. ASSUME part = "records"
      PROVE  RecordsInv' /\ ArchiveInv'
  <2>1. RecordsInv /\ ArchiveInv /\ [Records!Next]_(Records!vars)
    BY <1>3, PartsStep DEF StorageInv
  <2> QED
    BY <2>1, MCStorageAssumption, RecordsStep, ArchiveStep
<1>4. ASSUME part = "new credentials"
      PROVE  NewLinksInv'
  BY <1>4, MCStorageAssumption, PartsStep, NewStep DEF StorageInv
<1>5. ASSUME part = "old credentials"
      PROVE  OldLinksInv'
  BY <1>5, MCStorageAssumption, PartsStep, OldStep DEF StorageInv
<1> QED
  BY <1>1, <1>2, <1>3, <1>4, <1>5 DEF StorageInv

-----------------------------------------------------------------------------
(***************************************************************************)
(* The theorems.                                                           *)
(***************************************************************************)

\* Whatever keys and credential ids the anchors share, an index leads to an
\* anchor that has the device (Storage::write).
THEOREM IndicesLeadToOwners == StorageSpec => []IndicesAreSound
<1>1. StorageInv => IndicesAreSound
  BY AnchorsAreTyped DEF StorageInv, IndicesAreSound, AnchorsInv
<1> QED
  BY <1>1, StorageInitially, StorageStep, PTL DEF StorageSpec

\* No operation of one anchor takes an index entry from another that has the
\* device, activity of an anchor restores its entries, and none changes a
\* protected recovery phrase but that of the phrase itself (Storage::write,
\* check_mutation_allowed).
THEOREM NobodyLosesAnEntry == StorageSpec => EntriesAreKept
<1>1. ASSUME StorageInv, [StorageNext]_storageVars, part = "devices"
      PROVE  /\ Devices!EntriesAreKeptStep
             /\ Devices!ActivityRestoresIndicesStep
             /\ Devices!ProtectedIsProtectedStep
  BY <1>1, MCStorageAssumption, PartsStep, AnchorsStep, ActivityFact DEF StorageInv, AnchorsGood
<1>2. StorageInv /\ [StorageNext]_storageVars
          => [part = "devices" =>
                /\ Devices!EntriesAreKeptStep
                /\ Devices!ActivityRestoresIndicesStep
                /\ Devices!ProtectedIsProtectedStep]_storageVars
  BY <1>1
<1> QED
  BY <1>2, StorageInitially, StorageStep, PTL DEF StorageSpec, EntriesAreKept

\* A device that is stored as a passkey or a recovery key and read again has
\* the fields it was given, and the archive tells its other fields (Anchor's
\* conversions from and to StorableAnchor, DeviceDataUpdate).
THEOREM NothingIsLostInRecords == StorageSpec => []DevicesAreKept
<1>1. StorageInv => DevicesAreKept
  BY MCStorageAssumption, RecordsAreTyped, RecordsTellDevices, ArchiveTellsDevices
     DEF StorageInv, DevicesAreKept
<1> QED
  BY <1>1, StorageInitially, StorageStep, PTL DEF StorageSpec

\* The index of OpenID credentials is exact in the new version; and whatever
\* happens during the migration of an old one, when it says that it is done
\* every credential is found, unless two anchors had it
\* (sync_anchor_with_openid_credential_index,
\* migrate_openid_credential_keys_batch).
THEOREM MigrationLosesNothing == StorageSpec => []IndexIsExact
<1>1. StorageInv => IndexIsExact
  BY MCStorageAssumption, NewIsTyped, OldIsTyped DEF StorageInv, IndexIsExact
<1> QED
  BY <1>1, StorageInitially, StorageStep, PTL DEF StorageSpec

\* Whatever happens while openid_prepare_delegation waits for the salt, it
\* answers for an anchor only if the anchor has the credential.
THEOREM NoStaleDelegation == StorageSpec => []AnswersAreCurrent
<1>1. StorageInv => AnswersAreCurrent
  BY MCStorageAssumption, NewIsTyped DEF StorageInv, AnswersAreCurrent
<1> QED
  BY <1>1, StorageInitially, StorageStep, PTL DEF StorageSpec

\* The other parts leave the accounts alone: what follows holds in storage.
LEMMA AccountsInStorage == StorageSpec => Spec
<1>1. StorageInit => Init
  BY DEF StorageInit
<1>2. [StorageNext]_storageVars => [Next]_vars
  BY DEF StorageNext, storageVars
<1> QED
  BY <1>1, <1>2, PTL DEF StorageSpec, Spec

\* No two accounts, of whichever anchors and dapps, are the same user; those
\* that attributes are prepared for are among them; and the one chosen as the
\* default exists (calculate_seed, get_account_for_origin,
\* get_default_account).
THEOREM AccountsAreDistinct ==
    Spec => []SeedsAreUnique
<1>1. IInv => SeedsAreUnique
  BY InvSeeds, InvObtained, InvDefault DEF SeedsAreUnique
<1> QED BY Invariant, <1>1, PTL

\* Whatever is created, named or chosen, a user keeps every principal at every
\* dapp (create_account, update_account, set_default_account).
THEOREM PrincipalsArePermanent == Spec => PrincipalsAreKept
<1>1. IInv /\ SeedsByKind /\ SeedsByKind' /\ [Next]_vars => PrincipalsAreKeptStep
  BY StepKeepsPrincipals
<1>2. IInv => SeedsByKind
  BY InvSeedsByKind
<1> QED BY Invariant, <1>1, <1>2, PTL DEF Spec, PrincipalsAreKept

\* All four counters are those of the references, whatever is created, named,
\* refused and rebuilt, and no anchor has more accounts than it may: a counter
\* that is rebuilt at the limit was right before (update_counters,
\* check_or_rebuild_max_anchor_accounts).
THEOREM CountersAgree == Spec => []CountersAreExact
<1>1. CInv => CountersAreExact
  BY ExactFact DEF CInv
<1> QED BY InitCInv, NextPreservesCInv, <1>1, PTL DEF Spec

=============================================================================
