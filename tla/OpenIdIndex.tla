----------------------------- MODULE OpenIdIndex -----------------------------
(***************************************************************************)
(* The OpenID credentials of the identities, their index and its migration *)
(* to keys with an audience, and the salt that the delegations are derived *)
(* from (main.rs, storage.rs, storage/anchor.rs, state.rs, openid.rs).     *)
(*                                                                         *)
(* A credential is known by its key: a person (issuer and subject) and an  *)
(* audience.  Before the migration the index knew only the person; such    *)
(* legacy entries are in the same map as the new ones, but no lookup finds *)
(* them.  A timer migrates them batch by batch, while the identities are   *)
(* in use.  openid_prepare_delegation awaits a random salt in its middle,  *)
(* if none is set yet.                                                     *)
(***************************************************************************)
EXTENDS Integers, FiniteSets, Functions, SequencesExt

CONSTANTS
    Persons,        \* issuer and subject
    Auds,           \* audiences
    LegacyPersons,  \* those registered before the last change of the index
    OldAnchors,     \* the number of anchors of that time
    MaxAnchors,     \* bound on the number of anchors
    MaxLinked,      \* MAX_LINKED_CREDENTIALS
    BatchSize,      \* OIDC_KEY_MIGRATION_BATCH_SIZE
    Calls,          \* calls that are in progress at the same time
    NoSalt, OldSalt \* no salt; a salt set in the past

OpenIdIndexAssumption ==
    /\ LegacyPersons \subseteq Persons /\ IsFiniteSet(LegacyPersons)
    /\ OldAnchors \in Nat /\ MaxAnchors \in Nat /\ OldAnchors <= MaxAnchors
    /\ LegacyPersons # {} => OldAnchors > 0
    /\ MaxLinked \in Nat \ {0}
    /\ BatchSize \in Nat \ {0}
    /\ NoSalt # OldSalt /\ {NoSalt, OldSalt} \cap Calls = {}

VARIABLES
    creds,      \* anchor |-> the keys of its credentials, in order
    index,      \* lookup_anchor_with_openid_credential_memory: key |-> anchor
    legacy,     \* the legacy entries of the same map: person |-> anchor
    done,       \* OIDC_KEY_MIGRATION_DONE (heap); else the timer is set
    salt,       \* the call whose random bytes are the salt
    pending,    \* call that awaits raw_rand |-> what it goes on with
    answer,     \* history: <<key, anchor>> of the delegation just answered
    contested   \* history: keys that two anchors had at the same time

vars == <<creds, index, legacy, done, salt, pending, answer, contested>>

CredentialKeys == Persons \X Auds
Numbers == 1..MaxAnchors

Holds(a, k) == a \in DOMAIN creds /\ k \in ToSet(creds[a])

TypeOK ==
    /\ DOMAIN creds = 1..Cardinality(DOMAIN creds) /\ DOMAIN creds \subseteq Numbers
    /\ \A a \in DOMAIN creds :
          /\ creds[a] \in Seq(CredentialKeys)
          /\ IsInjective(creds[a])
          /\ Len(creds[a]) <= MaxLinked
    /\ DOMAIN index \subseteq CredentialKeys /\ Range(index) \subseteq DOMAIN creds
    /\ DOMAIN legacy \subseteq LegacyPersons /\ Range(legacy) \subseteq DOMAIN creds
    /\ done \in BOOLEAN
    /\ salt \in Calls \cup {NoSalt, OldSalt}
    /\ DOMAIN pending \subseteq Calls
    /\ Range(pending) \subseteq SUBSET (CredentialKeys \X Numbers)
    /\ answer \subseteq CredentialKeys \X Numbers
    /\ contested \subseteq CredentialKeys

Empty == [x \in {} |-> 0]

\* Before the last change a person had one credential in one anchor.
Init ==
    /\ \E owner \in [LegacyPersons -> 1..OldAnchors], aud \in [LegacyPersons -> Auds] :
          LET Linked(a) == {<<p, aud[p]>> : p \in {q \in LegacyPersons : owner[q] = a}} IN
          /\ \A a \in 1..OldAnchors : Cardinality(Linked(a)) <= MaxLinked
          /\ legacy = owner
          /\ creds = [a \in 1..OldAnchors |-> SetToSeq(Linked(a))]
    /\ index = Empty
    /\ done = FALSE
    /\ salt \in {NoSalt, OldSalt}
    /\ pending = Empty
    /\ answer = {}
    /\ contested = {}

Without(f, S) == Restrict(f, DOMAIN f \ S)

-----------------------------------------------------------------------------
(***************************************************************************)
(* Credentials and the index.                                              *)
(***************************************************************************)

\* lookup_anchor_with_openid_credential
Found(k, a) == k \in DOMAIN index /\ index[k] = a

\* check_openid_credential_is_unique
Unused(k) == k \notin DOMAIN index

\* Mutant: what has been removed stays in the index.
SyncedAdded(a, previous, current) ==
    [k \in DOMAIN index \cup (current \ previous) |->
        IF k \in current \ previous THEN a ELSE index[k]]

\* sync_anchor_with_openid_credential_index: removes and overwrites entries,
\* whoever they belong to.
Synced(a, previous, current) ==
    [k \in (DOMAIN index \ (previous \ current)) \cup (current \ previous) |->
        IF k \in current \ previous THEN a ELSE index[k]]

Write(a, ks) ==
    /\ creds' = [b \in DOMAIN creds \cup {a} |-> IF b = a THEN ks ELSE creds[b]]
    /\ index' = Synced(a, IF a \in DOMAIN creds THEN ToSet(creds[a]) ELSE {}, ToSet(ks))
    /\ contested' = contested \cup
           {k \in ToSet(ks) : \E b \in DOMAIN creds \ {a} : Holds(b, k)}
    /\ answer' = {}
    /\ UNCHANGED <<legacy, done, salt, pending>>

\* openid_identity_registration_finish, which allocates the next anchor.
FinishRegistration(k) ==
    /\ Unused(k)
    /\ Cardinality(DOMAIN creds) < MaxAnchors
    /\ Write(Cardinality(DOMAIN creds) + 1, <<k>>)

MayLink(ks) == Len(ks) < MaxLinked

\* openid_credential_add
Add(a, k) ==
    /\ Unused(k)
    /\ ~Holds(a, k)
    /\ MayLink(creds[a])
    /\ Write(a, Append(creds[a], k))

\* openid_credential_remove
RemoveCredential(a, k) ==
    /\ Holds(a, k)
    /\ \E i \in DOMAIN creds[a] : creds[a][i] = k /\ Write(a, RemoveAt(creds[a], i))

-----------------------------------------------------------------------------
(***************************************************************************)
(* Delegations and the salt.                                               *)
(***************************************************************************)

\* Mutant: the lookup from before the await is still good.
AnsweredUnchecked(want) == want

\* What openid_prepare_delegation answers once the salt is set: the lookup is
\* repeated.
Answered(want) == {w \in want : Found(w[1], w[2])}

\* openid_prepare_delegation: looks the anchor up and updates the data of its
\* credential.  With a salt it does not wait.
PrepareDelegation(k, a) ==
    /\ Found(k, a)
    /\ Holds(a, k)
    /\ salt # NoSalt
    /\ answer' = Answered({<<k, a>>})
    /\ UNCHANGED <<creds, index, legacy, done, salt, pending, contested>>

Await(c, want) ==
    /\ salt = NoSalt
    /\ c \notin DOMAIN pending
    /\ pending' = [d \in DOMAIN pending \cup {c} |-> IF d = c THEN want ELSE pending[d]]
    /\ answer' = {}
    /\ UNCHANGED <<creds, index, legacy, done, salt, contested>>

AwaitDelegation(c, k, a) ==
    /\ Found(k, a)
    /\ Holds(a, k)
    /\ Await(c, {<<k, a>>})

\* init_salt and everyone else who needs a salt.
AwaitSalt(c) == Await(c, {})

\* update_salt traps otherwise.
SaltMaySet == salt = NoSalt

\* raw_rand answers and the call goes on to its end.
SetSalt(c) ==
    /\ c \in DOMAIN pending
    /\ SaltMaySet
    /\ salt' = c
    /\ answer' = Answered(pending[c])
    /\ pending' = Without(pending, {c})
    /\ UNCHANGED <<creds, index, legacy, done, contested>>

\* The call ends with a trap: raw_rand failed, or the salt is set already.
Trap(c) ==
    /\ c \in DOMAIN pending
    /\ pending' = Without(pending, {c})
    /\ answer' = {}
    /\ UNCHANGED <<creds, index, legacy, done, salt, contested>>

-----------------------------------------------------------------------------
(***************************************************************************)
(* The migration.                                                          *)
(***************************************************************************)

\* The positions of the credentials that a legacy entry may stand for.
Candidates(p) == {i \in DOMAIN creds[legacy[p]] : creds[legacy[p]][i][1] = p}

\* The first one; none for an orphan, which is dropped.
Resolved(p) ==
    {creds[legacy[p]][i] : i \in {j \in Candidates(p) : \A l \in Candidates(p) : j <= l}}

\* Mutant: a full batch may be the last one.
FullIsLast(n) == n <= BatchSize

\* A short batch is the last one.
IsLast(n) == n < BatchSize

\* migrate_openid_credential_keys_batch: any BatchSize entries (the code takes
\* them in the order of the map, which does not matter here).
MigrateBatch ==
    \E batch \in SUBSET DOMAIN legacy :
        LET new == UNION {Resolved(p) : p \in batch} IN
        /\ \/ Cardinality(batch) = BatchSize
           \/ Cardinality(batch) < BatchSize /\ batch = DOMAIN legacy
        /\ legacy' = Without(legacy, batch)
        /\ index' = [k \in DOMAIN index \cup new |->
                        IF k \in new THEN legacy[k[1]] ELSE index[k]]
        /\ done' = IsLast(Cardinality(batch))

\* run_oidc_key_migration_batch, by the timer.
RunMigrationBatch ==
    /\ ~done
    /\ MigrateBatch
    /\ answer' = {}
    /\ UNCHANGED <<creds, salt, pending, contested>>

\* An upgrade waits for all calls to end.  It sets the timer.
Upgrade ==
    /\ pending = Empty
    /\ done' = FALSE
    /\ answer' = {}
    /\ UNCHANGED <<creds, index, legacy, salt, pending, contested>>

Next ==
    \/ \E k \in CredentialKeys :
          \/ FinishRegistration(k)
          \/ \E a \in DOMAIN creds :
                \/ Add(a, k)
                \/ RemoveCredential(a, k)
                \/ PrepareDelegation(k, a)
                \/ \E c \in Calls : AwaitDelegation(c, k, a)
    \/ \E c \in Calls : AwaitSalt(c) \/ SetSalt(c) \/ Trap(c)
    \/ RunMigrationBatch
    \/ Upgrade

Spec == Init /\ [][Next]_vars

\* The interval timer goes on firing until it is cleared.
FairSpec == Spec /\ WF_vars(RunMigrationBatch)

-----------------------------------------------------------------------------
(***************************************************************************)
(* Properties.                                                             *)
(***************************************************************************)

\* An anchor has a credential if and only if the index leads to it, and so no
\* two anchors have the same credential: at all times for persons who never had
\* a legacy entry.
IndexIsExact ==
    \A k \in CredentialKeys, a \in Numbers :
        k[1] \notin LegacyPersons => (Found(k, a) <=> Holds(a, k))

\* A delegation of an anchor is answered only to a credential that the anchor
\* has at that moment, whatever happened during the await.
AnswersAreCurrent == \A w \in answer : Holds(w[2], w[1])

\* When the migration says that it is done, no legacy entry is left, and every
\* credential is found again at its anchor, unless two anchors had it.
DoneMeansMigrated ==
    done =>
        /\ legacy = Empty
        /\ \A a \in DOMAIN creds : \A k \in ToSet(creds[a]) : Found(k, a) \/ k \in contested

\* The migration comes to its end, whatever upgrades and registrations happen
\* meanwhile.
LegacyIsMigrated == <>[](legacy = Empty)

\* "Returns an error if the OpenIdCredential already exists in this or another
\* anchor."
ExistsInOneAnchor ==
    \A a, b \in DOMAIN creds : \A k \in ToSet(creds[a]) : Holds(b, k) => a = b

=============================================================================
