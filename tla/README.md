# Internet Identity: a TLA+ development

This directory holds TLA+ specifications of the Internet Identity backend (the
canister `src/internet_identity`), its companion `src/archive`, its frontend
canister `src/internet_identity_frontend` and the library `src/asset_util`, the TLC
configurations that model-check them, and TLAPS proofs about them. Paths in this
document are relative to the repository's `src/`; file names without a directory
are under `internet_identity/src/`.

1. The system
2. The modules and how they correspond to the code
3. What TLC checks
4. What is proved
5. Disagreements between the code and its documentation
6. What is not modelled
7. Plan

## 1. The system

Internet Identity (II) is a canister on the Internet Computer: a single-threaded
program that handles one message at a time. A message runs to its end or to an
`await` of a call to another canister; a trap undoes what the message did since
its start or since its last `await`. What makes the code hard is therefore not
threads but

- what changes between an `await` and its continuation (`raw_rand` for captchas,
  confirmation codes and the salt; HTTP outcalls for the documents and keys of
  OpenID providers; the management canister when an archive is deployed; the
  archive's polling of II);
- state in heap memory that an upgrade drops while stable memory stays, and state
  that is converted field by field when it is saved and restored;
- lazily pruned queues, maps, windows and caches whose parts must agree;
- several indices in stable memory that repeat what the identities say;
- counters and limits maintained beside the data that they count;
- answers that are prepared by one call, certified, and fetched by a later one.

In the modules an action is a whole message, or the part of one from an `await`
to the next. Identities are called *anchors* in the code and here.

### Components

| Component | State | Operations | Interacts with | What makes it correct | Modules |
|---|---|---|---|---|---|
| Archive pipeline (`archive.rs`, `archive/src/main.rs`) | II, stable: buffered entries, next sequence number, configuration. Archive, stable: log, anchor index, highest sequence number; heap: call errors, last fetch | `archive_operation`, `fetch_entries`, `acknowledge_entries`; on the archive a timer's `fetch_entries`; upgrades of the archive | every change of an anchor buffers an entry; the archive polls II on a timer and acknowledges | each committed operation is archived once, in order; nothing is pruned before it is archived; the buffer drains | `ArchiveLog`, `ArchivePipeline`, `ArchivePipelineProofs` |
| Archive queries (`archive/src/main.rs`) | log and index of the archive; cursors with the clients | `get_entries`, `get_anchor_entries` | the pipeline, which lets the log grow meanwhile | pages put together are what was asked for | `ArchiveQueries` |
| Archive deployment (`archive.rs`) | persistent: `archive_state` (a lock with a time stamp); heap: status cache | `deploy_archive`: `create_canister`, `canister_status`, `status`, `install_code`; the configuration at an upgrade | management canister, the archive; the pipeline needs a created archive | one creation at a time, no canister wasted, the archive is kept, success means installed | `ArchiveDeployment` |
| Registration flow (`anchor_management/registration/registration_flow_v2.rs`, `rate_limit.rs`, `state/flow_states.rs`) | heap: a flow per principal, a queue of expirations, a token bucket | start, check captcha, finish (passkey or OpenID) | awaits `raw_rand`; creates anchors, adds temporary keys; registration rates decide whether a captcha is needed | one start, one flow, one identity; one solution, one identity; flows are pruned; the rate limit bounds them | `RegistrationFlow` (with `TempKeys`) |
| Legacy captcha challenges and registration rates (`anchor_management/registration.rs`, `registration/captcha.rs`, `storage/registration_rates.rs`) | heap: table of challenges; stable: two heaps of time stamps | `create_challenge`, `register`, the decision whether a captcha is required | storage, temporary keys, the flow's decision | a challenge buys one attempt; no registration is missing from the rates | `LegacyRegistration` |
| Temporary keys (`state/temp_keys.rs`) | heap: (anchor, device) to principal and expiration, a queue of expirations | add at registration and at leaving the registration mode, remove with the device, prune at a check of the caller | registration, device management, authorization | a key dies with its device and in time | `TempKeys` |
| Tentative devices (`anchor_management/tentative_device_registration.rs`) | heap: registration mode per anchor, lookup by registration id | enter and leave the mode, add a tentative device or session, confirm with a code, pruning | awaits `raw_rand`; adds devices and temporary keys; asks the public key index | the device that was shown is the one that is added, once, in time, after few guesses | `TentativeRegistration` |
| Anchors and devices (`storage.rs`, `storage/anchor.rs`, `anchor_management.rs`) | stable: header with the range of numbers, anchors, three indices (public key, credential id, recovery phrase) | register, add, update, replace, remove, record activity, set the range | every authenticated call writes the anchor | indices lead to anchors that have the device; no anchor loses an entry to another; protected phrases stay | `AnchorStorage` |
| Records of devices and their history (`storage/anchor.rs`, `storage/storable/special_device_migration.rs`, `archive.rs`) | stable: passkeys and recovery keys of an anchor; the archive's entries | conversion in both directions with every operation; differences for the archive | storage, archive | no field is lost in a record; the history tells the devices | `DeviceRecords` |
| OpenID credentials and salt (`storage.rs`, `state.rs`, `main.rs`) | stable: credentials of the anchors, their index with legacy keys; persistent: salt; heap: is the migration done | link, unlink, register with a credential, prepare a delegation, migration timer, `init_salt` | awaits `raw_rand`; a one-second interval timer migrates | index exact, no stale delegation, the migration ends and misses nothing | `OpenIdIndex` |
| OpenID providers (`openid.rs`, `openid/generic.rs`) | heap: providers with issuer, client id, keys; persistent: the domains of the discoverable ones | add a domain, discovery in two hops, fetch keys; verify a token | HTTP outcalls and timers with back-off | one provider per domain, nothing mixed from two runs or versions, keys are renewed; one credential, one provider | `OpenIdMatching`, `OpenIdProviders` |
| Accounts per dapp (`account_management.rs`, `storage.rs`, `storage/account.rs`) | stable: accounts, reference lists, default per anchor and dapp, four counters | create, name (update), choose the default, list, read | delegations derive the principal from the account's seed | principals distinct and kept, counters exact, limit kept | `Accounts` |
| Attributes, delegations, aliases (`attributes.rs`, `delegation.rs`, `vc_mvp.rs`, `types/attributes.rs`) | heap: signature map, certified root | prepare and get: attributes (legacy and ICRC-3), account and OpenID delegations, id aliases; list the attributes | credentials, providers, salt, accounts | what was prepared can be fetched; only facts are certified; what is listed is what can be certified | `AttributeKeys`, `Attributes` |
| Event statistics (`stats/event_stats.rs`) | stable: events, aggregations | add an event with pruning of two windows | delegations | totals equal the events in each window, old events leave, every total is reported | `EventStats` |
| Activity statistics (`stats/activity_stats`) | persistent: a day, sliding months, completed periods, for three counters | counted with each activity | anchors' last activity | periods fit together, each active anchor is counted once in each | `ActivityStats` |
| Persistent state, installation, upgrades (`main.rs`, `state.rs`, `storable_persistent_state.rs`, `assets.rs`, `http.rs`) | persistent state, header, both in stable memory at an upgrade; assets, providers | `init`, `post_upgrade` with every part of the argument, `config`, `http_request` | everything | upgrades forget nothing and put in force what they set | `Canister` |
| Certified assets (`asset_util`) | two certification trees, headers, contents | collect files, certify, replace, serve with a witness | the backend's assets, dapps | served is certified, and what was served before a change is not | `AssetFiles`, `CertifiedAssets`, `AssetCanister` |
| Frontend canister (`internet_identity_frontend`) | the release, its arguments, the router | install, upgrade, serve | browsers, with policies and caches | scripts run under the policy, caches hold what is served | `Frontend` |
| Metrics (`http/metrics.rs`) | none | | all | | none: formatting |
| Web frontend, demos, verifier libraries, tests | | | clients of the backend | | none: the environment |

`PROJECT.json` lists the same components, with what each run, mutant and theorem
belongs to, the source lines of every definition, and the hazards: the places
where a test would hardly find what could go wrong.

## 2. The modules and how they correspond to the code

Every module declares its parameters as CONSTANTS, its assumptions about them by
name, and bounds on counters that the code leaves open (`MaxOps`, `MaxTime`,
`MaxStarts`, `MaxNumber`, ...); bounds appear in guards only. Times are small
integers; a duration of the code (fifteen minutes, a day) is a constant. A call
that only returns an error and changes nothing is not an action; one that
returns an error but has changed something before (pruned a queue, taken a token,
rebuilt a counter) is. A trap undoes the message, so it is the absence of a step.
Operators whose comment begins with *Mutant* are slightly wrong versions of the
definition that follows: a property is worth its run only if TLC finds it
violated when the wrong version takes the place of the right one.

### The archive

**`ArchiveLog`** is the abstract specification: a history of committed
operations and how many of them, from the front, are archived. `Commit` adds an
operation, `Archive` takes over any number of further ones, and archiving goes
on as long as something is missing.

**`ArchivePipeline`** has both canisters. `ArchiveOperation` is an anchor
operation with the write of the anchor (`written`) and `archive_operation`, which
traps if the buffer is full. A polling execution `p` goes `idle` → `fetching`
→ `fetched` → `acking` → `acked` → `idle`; `FetchEntries` and
`AcknowledgeEntries` execute in II, `ProcessBatch`, `AckSucceeded` and the like
in the archive, after the reply. Executions overlap freely: nothing in the code
prevents the interval timer from starting one while others wait. `RejectCall`
rejects either call; `UpgradeArchive` loses the continuations (`alive`) and the
heap but not the stable memory; `DropReply` is a reply to a lost continuation,
or one whose continuation traps because the log cannot grow. An entry is its
sequence number and anchor; the encoding of its content is left out.
`History`, with `Len(log)`, is the refinement mapping to `ArchiveLog`.

**`ArchiveQueries`** has the log growing at its end with times that do not go back,
and clients that read it, or one anchor's history, page by page with any limit:
from the beginning, from a time, or from an entry. The cursor of a page is the
key of the entry behind it in the anchor index.

**`ArchiveDeployment`** has calls of `deploy_archive` that wait at `create`,
`canister_status`, `status` or `install`; `Execute` is the other canister's
step, `AfterCreate`, `AfterStatus`, `AfterInstall` the continuations, each with
what the call read at its start. `archive` is the persistent state including the
lock, `cache` the status that is valid for an hour. `DayPasses` makes the lock
old enough to be broken, whether or not `create_canister` has been answered. Two
history variables tell what becomes of the calls it was held for: `late` are those
that go on waiting when another call breaks the lock, and `overrun` is set when one
of them continues (`AfterCreate`, which like the code does not ask whether the lock
is still its own).

### Registration and devices

**`TempKeys`** is the map and the queue of `state/temp_keys.rs`; its actions are
the canister methods by their effect on keys. `check_authorization` asks for a
temporary key, and thereby prunes, only if the caller is not one of the devices
compared before, so each method prunes or does not (`pruned`).

**`RegistrationFlow`** splits `identity_registration_start` and `check_captcha` at
the `await` of `raw_rand`: `StartWithCaptcha`, `FailCaptcha` up to it,
`CaptchaCreated`, `CaptchaReplaced` after it, `CaptchaFailed` for a trap. What
the call knew before is in `pending`, in particular the flow's creation time.
`TK == INSTANCE TempKeys` supplies the temporary keys of finished registrations.
Whether a captcha is required is open here and decided in `LegacyRegistration`.
The anonymous caller is in `StartRefused`, because it costs a token.

**`LegacyRegistration`** is `create_challenge` and `register`, with the table of
challenges (pruned by both calls, taken by every attempt), and with the
two heaps of `registration_rates.rs` from which `CaptchaRequired` is computed.
Rates are compared as fractions. The configuration changes with an upgrade, which
keeps the heaps and drops the challenges. Its `TK == INSTANCE TempKeys` has the
keys of `register`, of the registration mode and of all device operations.

**`TentativeRegistration`** splits `add_tentative_device` and
`add_tentative_session` at the same `await` (`RequestCode`, `CodeCreated`,
`CodeFailed`). Pruning comes first in every operation (`Modes`, `Lookup` are the
maps after it). A submitted code is right (`ConfirmDevice`, `ConfirmSession`) or
wrong (`WrongCode`); devices are passkeys and known by their public keys.
`window` records, for the properties, what happened since the owner last
entered the mode.

**`AnchorStorage`** is `Storage::write` with the three synchronizations, which
are not alike: the public key index takes what has been *added* by the write,
the other two take *all* that is there (`SyncedAdded`, `SyncedAll`). `Register`
is the legacy path without a check of the public key, `FinishRegistration` the
new one. `SetRange` is the range given at an upgrade.

**`DeviceRecords`** has one anchor as it is stored: passkeys and recovery keys,
with a `special_device_migration` for every device that is neither an ordinary
passkey nor an ordinary phrase. `Devices` is what is read; an action reads,
changes and writes all. `given` records what each device was last said to be,
`archived` what a reader of the archive has put together from its entries.

### Identities, dapps and OpenID

**`OpenIdIndex`** keeps legacy entries (by person) apart from the new ones (by
person and audience), because lookups do not find them although they are in the
same map. `MigrateBatch` takes any batch of the right size. `Await`, `SetSalt`
and `Trap` are the salt's `await` in `openid_prepare_delegation` and elsewhere.
`Init` allows the states that were reachable before the index changed: one
credential per person in one anchor. `contested` records credentials that two
anchors had at once.

**`OpenIdMatching`** has no state: which of several providers a token belongs to
(by audience and issuer, literal or with placeholders), the order in which a
token is verified, and which provider a stored credential is attributed to later.
Claims are values; a signature is by a key or not.

**`OpenIdProviders`** extends it with what changes: discovery tasks (`tasks`, with
`persisted`, the part that survives upgrades), runs of discovery that wait in
their first or second hop (`runs`), chains of timers that fetch keys (`chains`),
and documents that change at any time (`Publish`). `ReceiveHop1` and `ReceiveHop2`
are the continuations; a failed outcall is one that does not arrive, or returns
an unreadable or invalid document. A chain is never stopped, as in the code.

**`Accounts`** has a set of account numbers for each anchor and origin, with 0 for
the default account that has no number. `Seed` is what `calculate_seed` hashes.
`Count` is `allocate_account_number` with `update_counters`, `Checked` the
rebuild of the counter at the limit.

**`AttributeKeys`** extends `OpenIdMatching`. It parses, prints and validates the keys and requests of attribute
sharing. A text is the sequence of its segments between colons, which is all that
the parser looks at.

**`Attributes`** has the signature map and the certified root: every `Prepare...`
action adds signatures, prunes old ones and certifies; every get is an operator
on the state. The credentials, the providers and the salt change in between;
calls that wait for the salt keep the credentials they read (`calls`). One
identity is enough because seeds contain the identity.

### Statistics

**`EventStats`** has the events by key (time and counter), the window of the day as
a key into them, and the aggregations. `UpdateEventsInternal` is the chain of
insertion, pruning of the day and pruning of the month, each limited.
`AllAggregationsTopN` reads the aggregations by ranges of their keys.

**`ActivityStats`** has three counters with their day, months and completed
periods, and the keys of the anchors with their last use, from which it is read
whether a use counts. Bucket counters wrap around at `Modulus`.

### The canisters

**`Canister`** is installation and upgrade with an argument of any one part of the
configuration, alone or with a range: saved state, conversion (`Storable`,
`Loaded`), the argument on top, then assets and providers. An upgrade that traps
is undone. The four statistics of the persistent state are fields of their own, each
counted as one number. `HttpRequest` serves from the same trees as `CertifiedAssets`.

**`AssetFiles`** maps the files of a build to URL paths and types; **`CertifiedAssets`**
is the library's certification as a value with operators, and the verification
by a gateway (external); **`AssetCanister`** is the test application that uses
every operation of it. Names are sequences of the parts between their dots, and
`ImmutableParts` are the parts that contain the word "immutable", for which the code
searches the path (`asset_util/src/lib.rs:103`).

**`Frontend`** is the frontend canister, whose asset router is external. A page is a
text: a sequence of the lexemes that the canister searches for (`<script`, `>`,
`</script>`, `</head>`, `<body`), of those that a browser goes by besides (quotes, comments,
other start and end tags, the same tags in capitals or with a slash), and of words.
`FixupHtml` replaces lexemes wherever they are, also within scripts;
`ExtractInlineScripts` is the search of the code, from each `<script` to the first
lexeme that ends in `>` and from there to the first `</script>`, whatever is around
them; an installation where one of the code's `unwrap`s panics is none
(`Extractable`). What a browser makes of the same text is `Tokenize` (external): the
states of the HTML tokenizer that matter here, among them attribute values in quotes,
comments, and comments within scripts with scripts in them. It leaves out the elements whose
content is not markup (`style`, `title`, `textarea`), the attributes that hold scripts,
values in quotes of the other kind, and spaces.

`CacheControl` is the test of the path as a string: `ImmutableStems` are the parts of
names that begin with "immutable", so that `/_app/immutable.json` and
`/_app/immutable-x/...` are kept as well as what is in `/_app/immutable/`. `kept` is
what browsers have been told to keep by this release and those before it. That the
bundler names the files in that directory by their content is an assumption
(`NamesAreHashed`); it says nothing of names that only begin like it.

### Union modules

`MCRegistration` (`RegistrationFlow`, `TentativeRegistration`), `MCStorage`
(`AnchorStorage`, `DeviceRecords`, `Accounts`, `OpenIdIndex` twice), `MCStatistics`
(`EventStats`, `ActivityStats`) and `MCCanisters` (`AssetCanister`, `Frontend`,
`Canister`, `ArchiveDeployment`, `ArchiveQueries`) run several modules that share
no state, one at a time: the variable `part` says which, the others stay as they
are. That is a disjoint union of their state graphs, and no interleavings are
lost, since independent parts would only multiply. `MCStorage` extends `Accounts`,
so that it checks the very definitions of which the theorems speak; the other
parts are instances, and properties of a union begin with `part = ...`.

## 3. What TLC checks

Every property of a passing run has a mutant in `PROJECT.json`. The properties of
one run that concern one question are conjunctions of named parts, which are
stated, each with its comment, in the modules of the components.

| Run | Module, configuration | Properties | Distinct states |
|---|---|---|---|
| `archive` | `MCArchivePipeline` | `GapFreeLog`, `AcknowledgedIsArchived`, `IndexMatchesLog`, `ArchivesExactlyOnceInOrder` (`ArchiveLog!Spec`), `BufferDrains` | 32,268 |
| `registration` | `MCRegistration` | `FlowsArePaid`, `EveryFinishIsCleared`, `LookupIsSound`, `NoSubstitution` | 535,757 |
| `legacy_registration` | `MCLegacyRegistration` | `AttemptsArePaid`, `RatesAreComplete`, `KeysLeave` | 687,493 |
| `storage` | `MCStorage` | `IndicesAreSound`, `EntriesAreKept`, `DevicesAreKept`, `SeedsAreUnique`, `CountersAreExact`, `PrincipalsAreKept`, `IndexIsExact`, `AnswersAreCurrent`, `LegacyIsMigrated` | 132,708 |
| `openid_providers` | `MCOpenIdProviders` | `ProvidersAreWhole`, `KeysAreRenewed` | 58,464 |
| `attributes` | `MCAttributes` | `PreparedIsReturned`, `CertifiedIsTrue`, `CertifiableIsListed`, `ScopeAgrees` | 148,760 |
| `statistics` | `MCStatistics` | `TotalsAreExact`, `EveryTotalIsReported`, `OutdatedEventsLeave`, `PeriodsFitTogether`, `EveryoneIsCountedOnce` | 252,169 |
| `canisters` | `MCCanisters` | `OldResponsesAreRejected`, `ScriptsAreAllowed`, `CachesAreCurrent`, `NothingIsForgotten`, `ConfigIsInForce`, `OneCreates`, `SuccessIsTrue`, `PagesAreComplete` | 1,024,806 |
| `tentative_unique` | `MCRegistration`, `TentativeUnique.cfg` | `PasskeysAreUnique`, violated (section 5) | |
| `openid_contested` | `MCStorage`, `OpenIdContested.cfg` | `ExistsInOneAnchor`, violated (section 5) | |
| `activity_totals` | `MCStatistics`, `ActivityTotals.cfg` | `TotalRemainsTheSame`, violated (section 5) | |
| `archive_forgotten` | `ArchiveDeployment`, `ArchiveForgotten.cfg` | `ArchiveIsKept`, violated (section 5) | |

`attributes`, `statistics`, `activity_totals`, `canisters` and `archive_forgotten` have `CHECK_DEADLOCK FALSE`: time, changes, calls and upgrades are bounded there, and a
behaviour that has used up all of them ends; a release of the frontend that has
been replaced often enough has nothing more to do. In the other runs something
is always possible (a refused call, a clock that stands, a timer), and TLC
confirms that nothing ever comes to a stop.

### What the runs show, and why their bounds are enough

*archive.* Two polls that overlap, two operations of one anchor, two
configurations between which II changes freely, one upgrade of the archive, one
place in the error list. The buffer fills (limits 2 and 1), a batch is smaller
than the buffer (limit 1), and the next one contains old and new entries. Two
polls suffice for every pairwise race: a batch that the other has archived in
full, in part, or not at all; an acknowledgement that arrives after the buffer
has moved on. `GapFreeLog` says that nothing is archived twice, skipped or out of
order; `AcknowledgedIsArchived` that the log has each entry an acknowledgement under
way was sent for and each entry it would now prune from the buffer, with the same
number and anchor, also after an upgrade; `IndexMatchesLog` that the anchor index can be relied
on; `ArchivesExactlyOnceInOrder` is the refinement of `ArchiveLog` including its
fairness: everything is archived. `BufferDrains` says that every buffered entry is
pruned, so that a full buffer does not block anchor operations for ever. That
several anchors, larger buffers and more polls change nothing about the safety
properties is what section 4 proves.

The other runs are small for the same reason: where section 4 proves a property
for all instances, the run need only show that the property is not void, that
every action of the model fires, and that each property's mutant is caught.

*registration.* For the flow: two principals, two suspended calls (of one or of
both), three starts, two cleared captchas each, flows that last 3 of 7
time units, a bucket of one token and one token per 3 units. Two suspended calls of
one principal are the interesting case of all `await`s here; three starts let a
principal finish, start again and be met by what is left of the first flow. For
tentative devices: two anchors, which fill the room for modes, so that to enter
again is refused, and one registration id that they share, one device and one session that compete for the one place in a
mode, one suspended call that can outlive the mode in which it was made and meet
the next one, two attempts, modes that last one of two time units.

*legacy_registration.* Three configurations (a captcha always; dynamic with a short
and with a long current interval), two challenges, three registrations of which
one is pruned per call, so that pruning is late; one upgrade that changes the
intervals; two devices whose keys last 2 of 3 time units, so that a key can
expire, be removed and added again within the life time of its old queue entry.

*storage.* For the devices: up to three numbers of which two are in use, two
public keys, one credential id that all passkeys share, at most two devices per
anchor, and all combinations of recovery phrase and protection. Two anchors with a
common key are enough for the indices, each entry of which has one owner. For the
records: two devices with every combination of fields that `check_device_invariants`
admits. For the accounts: two anchors, two origins, at most two accounts per anchor
and three numbers: the limit is reached, counters are rebuilt, default accounts
are named before and after additional ones are created. For the credentials:
two anchors, two persons, two audiences, two credentials per anchor, two calls
that await the salt; and again, without calls, with two legacy entries that are
migrated in batches of one, so that full batches, the last full batch and an
upgrade in the middle all occur, while credentials come and go. What
`IndexIsExact` says of the end of the migration excepts contested credentials
(section 5). The symmetry is between keys, credential ids and the
keys of records, none of which occurs in the part that has the liveness property,
where therefore no two states are identified.

*openid_providers.* A static provider with a templated issuer; one domain whose
provider moves to other keys, and once to a document of another host, which must
not count; one run of discovery, up to three chains of timers,
one upgrade. A run and a task added meanwhile, a change of a document between two
hops, a chain that fetches old keys for a provider that has moved on all occur.
Overlapping runs are beyond this run but not beyond the proof (section 4), which is
for any number of them.

*attributes.* Three providers, one with a fixed issuer, one with a templated issuer,
and a discoverable one with the issuer of the first; five credentials of which two
at a time are held; a legacy request and an ICRC-3 request with a value to be
omitted and one that is left open; two prepared answers, one call that waits for the salt, one change of
credentials or providers, one upgrade, and signatures that last one time unit.
`CertifiedIsTrue` is the property a verifier relies on: whatever is
signed was a fact of the identity when the call that signed it read or wrote it.
`ScopeAgrees` says that a credential that was verified by a provider is later
attributed to that provider's scope.

*statistics.* For the events: events of three kinds, up to four of which are kept
at a time, a day of 2 and a month of 3 time units, two events pruned per call, a
counter that overflows at 2, upgrades: a call can find three old events in either
window and must leave one for the next call, and a pause is followed by a day whose
key leads to an event that is gone. For the activity: months of two
days, eight time units, three uses of three keys, one removal or change of a key,
and counters modulo 8: pauses shorter and longer than a month, windows that are
opened, closed and made up. `EveryoneIsCountedOnce` is claimed for periods in which
no key was removed or moved (section 5).

*canisters.* Two builds of a dapp with a page under each kind of path and
three changes of the file that it replaces. For the frontend: releases of two versions
with one of twelve pages, every argument, and two upgrades. Seven of the pages are as bundlers write them: with
attributes, loaded scripts, several scripts, scripts in comments and in attributes,
text that is injected within a script. In the others, each in its own way, a browser
and the search of the canister do not read the same (a `>` in an attribute, tags in
capitals or with a slash, a script in a comment within a script), and one has a script without an end,
which no release can be installed with; `ScriptsAreAllowed` is
about the plain scripts (`IsPlain`) that a browser finds on any of them. The files of a release
are a page that does not change, a file that is named by its content and one that is
the same in every release, and, with names that do not change, one in the application's
directory, one whose name begins with "immutable" and one in a directory whose name
does. `CachesAreCurrent` says of all that browsers have been told to keep, release
after release, that it is what is served today or has one of the last two kinds of name.
For the canister: two upgrades with each
part of the argument, alone or together with a range that is accepted, too small or
shifted (`PairedRanges`), and one call between them. For the archive: three overlapping deployments,
two modules, two arguments, two upgrades (the first one configures), two canisters, and
one lock that becomes a day old: a call whose lock was broken waits beside the
one that broke it, is answered before or after it, and continues before or after an
upgrade. Two deployments suffice for the races at the lock, the third one fills the
cache between them. `SuccessIsTrue` says that the archive is kept and that Success is
true until such a call has continued (section 5 says what happens then);
`CanistersAreNotWasted` holds for ever. For the queries: a log of five entries of two anchors at up to three times, pages of at
most two entries, and one reader with limits 0, 1 and 3.

### Fairness

Three runs check liveness.

`ArchivePipeline!Spec`: weak fairness of `StartPoll`, because an interval timer
starts `fetch_entries` (`archive/src/main.rs:519`) for ever; weak fairness of the
continuations, because the system delivers a reply or a reject to every call;
strong fairness of `FetchEntries`, `AcknowledgeEntries` and `ProcessBatch`, which
says that II does not reject *every* call and that the archive does not trap on
*every* batch. Without these last ones nothing can be promised and nothing is. The
operations, the changes of the configuration and the upgrades are not fair.

`MCStorage!FairStorageSpec` (`OpenIdIndex!FairSpec` for the one part that needs it): weak
fairness of `RunMigrationBatch`, because the interval timer (`main.rs:159`) fires
until it is cleared, and clearing it is what `done` says. Upgrades set it again
and happen as often as they like.

`Fairness` of `OpenIdProviders`: weak fairness of `RequestCerts` and `StartRun`, because
timers fire (`openid/generic.rs`, `schedule_fetch_certs` and `init_discovery_timers`), and
strong fairness of the replies that arrive: an outcall that is made again and
again succeeds once in a while. Documents may change between, and a document that
stays unreadable is excepted by `UpToDate`.

## 4. What is proved

All theorems are for all values of the constants that satisfy the module's named
assumption (that limits and times are natural numbers, not zero where the code
would make no sense otherwise, and that special values are not ordinary ones).

| Module | Theorem | States |
|---|---|---|
| `ArchivePipelineProofs` | `TypeCorrect` | `Safety => []TypeOK` |
| | `LogIsGapFree` | `Safety => []GapFreeLog` |
| | `AcknowledgementsAreSafe` | `Safety => []AcknowledgedIsArchived` |
| | `NothingIsLost` | `Safety => []WritesAreAccounted`: nothing is pruned that is not archived, nothing written without an entry |
| | `IndexIsExact` | `Safety => []IndexMatchesLog` |
| | `LogOnlyGrows` | `Safety => LogAppendOnly`: no step changes or removes an archived entry |
| | `ImplementsArchiveLog` | `Safety => AL!Safety`: every step is a `Commit`, an `Archive` or a stuttering step of `ArchiveLog` |
| `LegacyRegistrationProofs` | `ChallengesBuyOneAttempt` | `Spec => []AttemptsArePaid` |
| | `NoRegistrationIsMissed` | `Spec => []RatesAreComplete` |
| | `KeysAreTemporary` | `Spec => []KeysLeave` |
| `RegistrationProofs` | `FlowsAreAlwaysPaid` | `Spec => []FlowsArePaid` |
| | `FinishesAreAlwaysCleared` | `Spec => []EveryFinishIsCleared` |
| | `IdsLeadToTheirAnchors` | `Spec => []LookupIsSound` |
| | `NothingIsSubstituted` | `Spec => NoSubstitution` |
| `StorageProofs` | `IndicesLeadToOwners` | `StorageSpec => []IndicesAreSound` |
| | `NobodyLosesAnEntry` | `StorageSpec => EntriesAreKept` |
| | `NothingIsLostInRecords` | `StorageSpec => []DevicesAreKept` |
| | `MigrationLosesNothing` | `StorageSpec => []IndexIsExact` |
| | `NoStaleDelegation` | `StorageSpec => []AnswersAreCurrent` |
| | `AccountsAreDistinct` | `Spec => []SeedsAreUnique` |
| | `PrincipalsArePermanent` | `Spec => PrincipalsAreKept` |
| | `CountersAgree` | `Spec => []CountersAreExact` |
| `OpenIdProofs` | `NoMixedDiscovery` | `ProvidersSpec => []ProvidersAreWhole` |
| | `PreparedStaysReturned` | `Spec => []PreparedIsReturned` (of `Attributes`, with `RootIsCertified`) |
| | `CertifiedStaysTrue` | `Spec => []CertifiedIsTrue` |
| | `CertifiableStaysListed` | `Spec => []CertifiableIsListed` |
| | `ScopeStaysAgreed` | `Spec => []ScopeAgrees` |
| `StatisticsProofs` | `EventTotalsAreExact` | `Spec => []TotalsAreExact` |
| | `EventsLeaveInTime` | `Spec => OutdatedEventsLeave` |
| | `PeriodsAlwaysFitTogether` | `Spec => []PeriodsFitTogether` |
| | `EveryoneIsAlwaysCountedOnce` | `Spec => []EveryoneIsCountedOnce` |
| `CanistersProofs` | `OneCallCreatesTheArchive` | `Spec => []OneCreates` |
| | `DeploymentTellsTheTruth` | `Spec => SuccessIsTrue` |
| | `UpgradesForgetNothing` | `Spec => NothingIsForgotten` |
| | `ReportedConfigCanBeGiven` | `Spec => [](part = "canister" => Identity!ReportedConfigIsKept)` |
| | `ConfigStaysInForce` | `Spec => []ConfigIsInForce` |
| | `OldResponsesStayRejected` | `Spec => []OldResponsesAreRejected` |
| | `PagesMayRunTheirScripts` | `Spec => []ScriptsAreAllowed` |

`IntegerLemmas` has what several of them need about the least and the greatest
member of a set of numbers, and the induction that follows from it: over the members of a
set, which takes no operator as a parameter. `OpenIdProofs` is about two modules that share `OpenIdMatching`, with an
invariant for each. `RegistrationProofs`, `StorageProofs`, `StatisticsProofs` and
`CanistersProofs` are about the union modules, whose properties are those that the runs check: each part has
an inductive invariant of its own, and one lemma (`PartsStep`, `StepOfAPart`) says that a step of
the union is a step of its part. The accounts, which the union extends, are proved about
under `Spec`, the specification of `Accounts`, which `StorageSpec` implies
(`AccountsInStorage`). What the parts choose their inputs from (devices, origins,
releases, arguments, ranges) are constants of the unions, so the theorems hold for every
choice; the sets of section 3 are those of the runs.

Some of the named assumptions are about more than types, and each is what the code makes
true. `OpenIdIndexAssumption`: there are finitely many legacy persons. (`Init` says
further that identities were registered within the limit of credentials.)
`DeploymentAssumption`: a canister, a module and an argument are neither of the two special
answers, no answer and a reject. `CanisterAssumption`: a range may have at least one number, and
ranges are of natural numbers. `AssetCanisterAssumption`: each build is `Servable`: `Sensible`,
as the library's own comment requires, without a file at the one path that the test application
certifies for good after them (`demos/test-app/lib.rs:12`), and without a segment `<$>`, which
ends a path in the tree of the second version; and the value for no certificate version is no
number. `AttributesAssumption`: the value for absence
is no claim and no scope; an email or a name is no value that is too long to be asked for again
(they have at most 256 and 128 bytes, `openid/generic.rs:62` and `:66`, a value 50,000,
`types/attributes.rs:13`); what a credential has besides its email and name are claims that its
issuer was made of; and no token has a template itself as its issuer. The last is what
`openid/generic.rs` does not enforce of a discoverable provider: one that published a template,
and signed tokens with it literally, would have credentials without a scope.
`EventStatsAssumption`: the event counter can tell two
events of the same time apart. `ActivityStatsAssumption`: there are fewer keys than a 64-bit
counter can count, and every key is of one of the methods. `FrontendAssumption`: each build is `Sensible` and has none of
the files that the canister adds, and the names of hashed files are those of their contents.

*The archive.* None of the properties is inductive: they do not say how the buffer
and the batches in flight relate to the log. The inductive invariant `IInv` adds

- `HighestIsLast`: the archive's highest sequence number is that of its last entry;
- `BufferContinuesLog`: the buffer is a final segment of all sequence numbers, it
  contains all that the log does not, and where they overlap they agree;
- `BatchContinuesLog(p)`: a fetched batch is an interval that starts no later than
  the log ends, and agrees with the log and, beyond it, with the buffer;
- `AckCoversLog(p)`: what is being acknowledged is in the log.

The third is the heart: however old a batch is when it is processed, the log has
since grown past its start, so that what is left of it continues the log without
a gap; and it is still buffered, because only what is in the log is ever pruned.
There is one lemma for each action or group of actions, and `NextPreservesIInv`
puts them together. `NothingIsLost`, `LogOnlyGrows` and `ImplementsArchiveLog` use
the invariant and one fact about each kind of step.

*Registrations.* That a challenge buys one attempt is inductive with the types. That
no registration is missed is not, as the property speaks of the interval that ends
now, and time goes on while a heap waits to be pruned: `Complete` says it of every
interval that begins no earlier. Pruning takes a prefix of a heap that is in the
order of time, which is why the least of the time stamps that stay is known.

*Temporary keys.* Every key has an entry of its own in the queue with its own time:
pruning removes a key only with an entry that has expired, and if the key was
renewed meanwhile it goes too, but never the entry without the key's. That a key
belongs to a device of its identity needs `Numbered` (identities are numbered from 1
without a gap), for a new identity must not take over the keys of an old one.

*Registration flows.* The difficulty is the rate limit. `RateInv` says, of every time `t`,
that the flows created since `t`, those that a suspended call could still restore, and the
starts that have yet to create theirs are together no more than the tokens that the
bucket had then, or has got since, less those it has left (`WithinRate`). It is inductive,
where the property, which is about the flows of one life time that ends now, is not. `QueueInv` gives every
flow an entry in the queue that is not later than the flow's end; `PaidInv` counts,
for every principal, identities, flows and suspended starts against what was
admitted, and identities and flows that may finish against cleared captchas.

*Registration modes.* `GoodModes` says of the two maps what `LookupIsSound` does, and which
states a mode can be in; `WindowsAgree` that the history of a window tells what its
mode holds: when it ends, how many codes were wrong, and that nothing has been
added. All operations begin with the same pruning, which is proved to keep
`GoodModes` once, and then do one of four things to the maps: leave them, change one mode, end
one, or open one.

*Indices.* `AnchorsInv` is `IndicesAreSound` with `Numbered` and what the checks of devices
admit. The lemma about one index
(`IndexFact`) is about a write that takes out only what its anchor owned and gave up,
and puts in some part of what it has and nobody had; the three indices are
instances, although they are not synchronized alike.

*Records.* `DevicesAreKept` is not inductive, since an operation starts from what is
read, not from what was given. The record, however, is always that of what was
given, because a device that is read and written again has the same record as
before (`RereadKeepsFields`, `SameRecordIfKept`): the composition of the two conversions
is the identity on records, though it is not on devices.

*OpenID credentials.* Both versions of the index are instances of `OpenIdIndex`, so the
steps are described once (`Moves`): how the credentials of one anchor, the index, the
legacy entries and the calls that wait change together. `Exact` of the new version is
inductive with the types. For the old one `Migrating` says that a credential is found, or
contested, or that its person's legacy entry is still there, leads to its anchor, and will
find it (it is the first one of the person there); so that when no legacy entry is
left, none is missing. `Current` follows from `Exact`, because a delegation looks its
credential up again after the wait for the salt.

*Accounts.* `IInv` says that every number is in one list (`OneList`), that lists refer to
stored accounts, that a list has exactly one account with the anchor's seed, the
unnumbered one or the one stored in its place (`OneDefault`), and that the chosen
default is in the list. The principals of a user are then those of these kinds
(`SeedsByKind`), which every action preserves. For the counters `CInv` adds that they
are cardinalities of the references (`Exact`) and that these are finitely many; the
rebuilt counter is the same as the one it replaces.

*Events.* The running totals are sums over sets of keys. That a sum changes by the weight of
what enters and leaves the set is proved from the library's facts about cardinality
(a set with the fewest members for which it failed could be made smaller), so no
induction theorem is instantiated. `SumsInv` is `TotalsAreExact` for every key that an
aggregation can have. `KeysInv` says that the stored keys are of the past and the start of the
day is not after the present moment, and that as long as no start is known all events
are within a day of each other: the start that is then computed from the last of them is
before them all, so none is left counted in the day without being in it. What the month
deletes has left the day in the same call at the latest, as a day is shorter than the
retention and both windows give up their oldest keys first.

*Activity.* All periods start on one grid of days (`OnGrid`). Two lemmas say what the
maintenance does to statistics whose periods fit (`Fitting`): nothing while the day lasts
(`NothingIsOver`), and otherwise a new day at the place on the grid where now is, with
what is completed right before it (`DayIsOver`). Who was counted is not in the state, so
`EveryoneIsCountedOnce` needs what the keys tell about the past. `KeysTellUses` says that
a key was last used when it tells, and that a use since the last removal or move is of a
key that is still there, of the same origin, and used no earlier. With it, whether an
anchor is counted is whether it has a use in the period (`ActiveSince`, `AnchorsCounted`,
`DomainsCounted`, `MethodsCounted`). `Counted` says of the three statistics that open
periods count the uses since they began, and completed ones those until the present day
began; and that the day of every use either is a month ago or has begun one of the open
months. The last part is why a completed month that is made up has nothing on its
first day, which is what the property claims of it. TLC checks this invariant
(`CountedInv`) on the instance of the run before it is proved.

*Providers.* A run keeps what its hops have returned across awaits in which tasks are
added, documents change and other runs finish: `RunInv` says that both documents were
published, the second where the first one points, and `TaskInv` that a task has only
what such a pair says, all of it at once, under the allowlist of the time.
`TasksArePersisted` is what makes the domains of an upgrade's replay distinct.

*Attributes.* The provider of a credential is found twice: when its token is verified, and
from what is stored of it whenever its attributes are asked for. That both find the
same scope (`ScopeStaysAgreed`) is shown for the credentials that a token gives,
whatever the configured providers and the discovered one are. `AttributesInv` has three
parts. The map that is certified is the map of signatures, and every answer has its
signatures there for as long as they are kept: later calls prune only what has expired, and
replace a signature only by the same one with a later end. Every answer is one that its get
call admits and reads back as it was given, as printing a key that was validated and
parsing it again changes nothing. And every signature is of facts of credentials in `held`,
which include those that a waiting call has read. `CertifiableStaysListed` relates the three operators
that look for a credential under a scope, for any sequence of credentials.

*Deployment.* A call that waits has read the configuration and the archive before. `Fits`
says that they are still those of today: only an upgrade changes the configuration, and it
takes the calls with it; only a call that creates changes the archive. It
also says that what the call has been told of the archive is true, *unless* the
configured module has been installed since (`Seen`), in which case success is true all
the same. Without that disjunct the invariant is false, since two calls may install at
the same time. The calls whose lock was broken need not fit, as another call has changed the
archive meanwhile, and of the others one at most creates (`CallsFit`). They are harmless as
long as they wait; when one of them continues, nothing is left of what the others
know, which is why `DeploymentInv` is `overrun \/ LinkedInv` beside the types and the
count, and why an upgrade, which loses all calls, makes it good again. `CountInv` holds in either case: canisters that exist,
calls that may yet create one, and whether another may begin are together no more than
one and the days that have passed.

*Upgrades.* `NothingIsForgotten` needs that stable memory has the header of the heap,
which every operation flushes, and that the anchors are in their range. What is written
before an upgrade is read after it (`StateSurvives`), so what an upgrade
changes is what the argument says (`ArgFact`). That the reported configuration can be given
back needs `ReportInv`: the size of the range was checked when it was set, and the SSO
domains are kept in canonical form, where to canonicalize them again changes nothing.

*What is served.* `ServedInv` says that the providers, the assets and the root hash are made
of the present configuration and signatures: what the assets show changes only with an
upgrade, which makes them anew, and each call that signs certifies again. The rest is about
`CertifiedAssets`. Certifying assets is a fold; by induction there is such a
function, and it takes the assets one after the other (`InOrder`). Of paths that have no
terminator as a segment, adding one deletes no other from the tree, so that each path has one
entry, of its own response with the shared headers (`CertifyFact`). What is answered has
those headers in another order and the two of the certificate besides. That it is still what
was hashed needs that no two of them have the same name: then a list of headers is the map of
their names to their values, whatever the order (`SameMap`, `AnsweredFact`, `ServedFact`).

*The dapp.* `DappInv` says that under each path exactly one response is certified, that of the
asset (`OneEach`), that each file of the build is under each of its paths (`FilesIn`), and that the
root hash is the one of these assets. That there is one response is what keeps an old one out of
the certificate; it is kept because the code deletes what is under a path before it adds
(`ChangedFact`). The assets of a build are a sequence of sequences made one, each of a set of paths
in an order that is anybody's; by induction over the files, its members are the assets of the
files, and since no two files have a path in common, the one that is left under a path is of its
file (`ListedPaths`). The mode for uncertified content replaces the certificate and nothing else
(`ReplacedFact`), so that the hash of today's answer without its certificate is the one in the
tree (`AnswerIsCertified`).

*Policies.* `PagesMayRunTheirScripts` is about two readings of one text: the search of the
canister and the tokenizer of a browser. `ReadingExists` and `TokenizeFact` (by induction
over the places of a text) give the states of the tokenizer, `MovesFact` what its state before a lexeme tells of the
state after it. Between the place where a script begins and the place where it ends the
tokenizer has been in the states of scripts only, so no end tag came before the last place unless in a
script within a comment, which plain scripts do not have; and no lexeme of the start tag ends in
`>` but the last. So the first `>` and the first `</script>` that the search finds (`FindFact`) are
the browser's (`PlainIsExtracted`). This holds of any text, also of one into which
arguments have been put, which only has to be a text still (`FixedIsText`). The rest
(`ScriptsAreHashed`) is that the hashes of all pages of a release are in the policy
of each.

Only model-checked are

- liveness (`BufferDrains`, the fairness part of `ArchivesExactlyOnceInOrder`,
  `LegacyIsMigrated`, `KeysAreRenewed`), which is out of the prover's reach;
- `PagesAreComplete` of `MCCanisters`, about pages that are folded from sequences of any
  length and sorted, and `CachesAreCurrent`, about what releases before the present one have
  left in browsers;
- `EveryTotalIsReported` of `EventStats`: it sorts the totals, and the definition of the sort
  in the community modules says nothing of totals that are equal.

## 5. Disagreements between the code and its documentation

Four are shown by runs of their own.

- `tentative_unique`: a device that is tentatively added to two identities before
  either confirms it ends up in both. Its public key is checked when it is added
  tentatively (`tentative_device_registration.rs:104`), not when it is confirmed up
  to fifteen minutes later, though the integration test
  `device_management.rs:287` speaks of global uniqueness "via the tentative-device
  flow".
- `openid_contested`: as long as a legacy entry has not been migrated, its
  credential can be registered with a second identity, though
  `anchor_management.rs:213` promises an error.
- `activity_totals`: when a used key is removed, or moved to another origin, the next
  use takes its anchor from a domain's bucket that it is not in; the unsigned
  counter wraps around, though `domain_active_anchor_counter.rs:85` says that the
  total remains the same.
- `archive_forgotten`: if `create_canister` is answered only after the lock was broken,
  as that of a creation that "has likely failed" (`archive.rs:138`), the late
  continuation writes its own canister, or after a reject the state before creation, over the archive that
  another call has recorded (`archive.rs:186`, `:199`), though "save archive info permanently"
  is said there (`archive.rs:185`). The sequence number of the archive's entries
  starts again with it. `OneCallCreatesTheArchive` and `DeploymentTellsTheTruth` say
  what holds until then.

The following were met while the modules were written. They are part of what the
modules do (the properties above hold in spite of them) or of what they abstract
from, but have no run.

- *Temporary keys.* A removed key's queue entry stays. If the device is added again
  within ten minutes, that entry removes the new key before its time
  (`state/temp_keys.rs:58`). Keys are added not only "during registration" (line 26),
  but also when a confirmed session leaves the registration mode.
- *Registration flow.* A finished flow's queue entry stays and removes the
  principal's next flow before its time (`state/flow_states.rs:93`), which is none of
  the three conditions of line 15. The queue is not sorted (line 109): a flow's
  creation time is taken before the `await` and queued after it. A failed update in
  `check_captcha` does not mean that the flow expired
  (`registration_flow_v2.rs:131`): an overlapping call may have finished it.
- *Registration rates.* After a change to a longer interval the heap lacks what was
  pruned before, but the captcha is not always triggered as the comment says
  (`registration_rates.rs:34`): whether the data suffice is judged by the age of the last
  time stamp that was pruned, which is more than the old interval if registrations
  were rare or pruning was late. `RatesAreComplete` therefore speaks of the
  registrations since the change.
- *Archived differences.* An update that removes the credential id of a device is
  archived as a change of nothing (`archive.rs:387`), though by `archive/types.rs:85` of
  the interface what is absent from a difference has not changed. `DevicesAreKept` says
  that the archive's entries tell every other field as it is.
- *Inline scripts.* "Extract all inline scripts" (`internet_identity_frontend/src/main.rs:434`)
  takes the first `>` for the end of a start tag, also within the value of an attribute,
  and hashes another text than the browser runs; it misses tags in upper case or with
  a space in the end tag. The pages of `canisters` have such scripts;
  `ScriptsAreAllowed` says for which scripts the search is right (`IsPlain`).
- *Immutable files.* Whatever path begins with `/_app/immutable`, as a string, is kept by
  browsers for a year (`internet_identity_frontend/src/main.rs:104`), also
  `/_app/immutable.json`, whose name is not that of its content and which the releases of
  `canisters` have. "Since the filenames are hashed, they will be reloaded only if the
  files change" (`asset_util/src/lib.rs:102`) says the library of its own, even wider
  test, which the frontend narrows to the prefix. `CachesAreCurrent` excepts just these
  (`OnlyBeginsLikeIt`).
- *Tentative devices.* Entering the mode again at the limit is an error and not "the
  expiration timestamp again" (`tentative_device_registration.rs:22`). Two
  identities that use the same registration id share one entry of the lookup
  table, and the end of either's mode removes it (line 50). The mode ends with
  the third wrong code, not the fifth (`docs/ii-spec.mdx:462`).
- *Anchors.* `check_passkey_pubkey_is_not_used` asks the index. After a key was
  registered twice by the legacy `register`, and its first owner removed it, the
  key is found unused although the second identity has it
  (`anchor_management.rs:269`).
- *Records.* Metadata of identities and devices are accepted by
  `identity_metadata_replace` and `authn_metadata_replace` but not stored; the alias of a
  recovery key reads "Recovery Key" (`storage/anchor.rs:504`), and a platform passkey
  reads back as a cross-platform one (`SameType` in `DevicesAreKept`).
- *Accounts.* The discrepancy counter (`storage.rs:1419`) counts every attempt at
  the limit, also when the counters are exact: that they are is
  `CountersAgree`. `prepare_delegation` and `get_delegation` are refused for
  a dapp once the default account there has been named, since they ask for the
  account that has no number (`main.rs:430`), while attributes and `get_principal`
  go on with it.
- *OpenID providers.* "Start or restart cert fetching when jwks_uri changes"
  (`openid/generic.rs:557`): the chain for the old location is not stopped, and both
  write the same keys; `KeysAreRenewed` is therefore about keys that come again and
  again, not for good. A domain removed from the allowlist does have a task
  (line 805), also after an upgrade, which replays all domains that were persisted. The SSO domains are not
  shipped in `/.config.did.bin` (`main.rs:790`, compare `assets.rs:27`).
- *Attributes.* The list mirrors the preparation "so the listing matches what's actually
  certifiable" (`attributes.rs:534`): of several credentials under one scope it lists
  what any has, while only the first is asked at the preparation; `CertifiableIsListed`
  is the direction that holds. That an anchor has one credential of an issuer
  (`attributes.rs:177`) is not enforced (`storage/anchor.rs:788`). Attributes are
  prepared from an anchor that was read before the salt was awaited (`main.rs:1417`),
  so a credential that was unlinked meanwhile still counts.
- *Activity statistics.* After a pause of a day or more the completed month is replaced by
  an empty one (`maintenance.rs:59`), also when the window that ended later had
  activity. "Only absent or before ... once" (`active_anchor_counter.rs:28`) does not
  hold when the key that was used last is removed.
- *Deployment.* A status asked for before an installation and answered after it is cached
  after the cache was invalidated (`archive.rs:303`).
- *Canisters.* An upgrade cannot unset an optional part of the configuration, since
  absent means unchanged. `backend_origin` is not taken from the argument, and
  `backend_canister_id` is not kept. A gzipped HTML file cannot be certified, because its
  content is read as text (`asset_util/src/lib.rs:433`,
  `internet_identity_frontend/src/main.rs:354`); no build has one, nor do
  the trees of `MCCanisters`.
- *Archive queries.* `anchor + 1` (`archive/src/main.rs:450`) and `start_idx + limit` (line 391)
  are not guarded at the greatest number of 64 bits, which no anchor and no log has;
  numbers are unbounded in the model.

## 6. What is not modelled

- Cryptography, the arithmetic of JWT and WebAuthn signatures, the drawing of
  captchas, and the bytes of stable memory (candid, CBOR, memory manager): conversions
  without interleaving. Codes, solutions and signatures are right or wrong. What a
  conversion keeps of a value is modelled where it forgets something: `DeviceRecords`,
  `Canister`.
- The contents of verifiable credentials (`vc_mvp.rs`): the pair of id alias signatures is
  in `Attributes`, what they say is opaque.
- Names, metadata and times of last use of accounts, which nothing modelled depends on.
- Libraries outside of this repository: the signature map, the certification by the
  system, the asset router and HTTP gateways are modelled as far as the code uses
  them (external in `PROJECT.json`).
- `write_entry` of the archive as a call: only II may make it, and none of its code does
  any more. What it does to the log is `WriteEntry` of `ArchiveQueries`.
- Metrics (`http/metrics.rs`): formatting of state kept elsewhere.
- The web frontend, demos, client libraries and tests. The modules allow any client to
  call any method at any time, so a client restricts them at most.

## 7. Plan

The modules were written in this order, the most important first: the archive
pipeline with its abstract specification and its proof; temporary keys and the
registration flow; tentative devices; the storage of anchors; OpenID credentials;
accounts; the deployment of the archive; then statistics, the legacy registration,
records, providers, attributes, the canisters and the archive's queries; then the
proofs beyond the archive's.

What would come next:

1. An abstract specification of a one-time capability (granted, used once or
   expired), implemented by the registration flow, the registration mode and the legacy
   challenges alike; and of a public key registry, with the assumptions under which
   `AnchorStorage` implements it.
2. Compose `OpenIdProviders` with `Attributes`, which has a provider's discovery in one
   step, and `LegacyRegistration` with `RegistrationFlow`, whose open choice of a captcha
   it decides.

The set of runs is kept small, one per question: a new module joins the union of
its kind.
