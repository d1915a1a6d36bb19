---------------------------- MODULE CanistersProofs ----------------------------
(***************************************************************************)
(* Proofs about the canisters and their installation, for all modules,     *)
(* arguments, releases, configurations and numbers of calls: about how the *)
(* archive is deployed (ArchiveDeployment), what upgrades keep and what is *)
(* served then (Canister, CertifiedAssets), what a dapp serves of its      *)
(* builds (AssetFiles, AssetCanister), and the policy of the frontend      *)
(* (Frontend), each as one of the parts of MCCanisters.                    *)
(***************************************************************************)
EXTENDS MCCanisters, IntegerLemmas, FiniteSetTheorems, SequenceTheorems, TLAPS

-----------------------------------------------------------------------------
(***************************************************************************)
(* The deployment of the archive.                                          *)
(*                                                                         *)
(* None of the properties is inductive.  What calls hold is always of its  *)
(* type and of canisters that exist, also after a call has continued whose *)
(* lock was broken; until then, the calls under way that are not late have *)
(* the configuration and the archive of today, only one of them creates,   *)
(* and they have seen what runs there or what has been installed since.    *)
(* That no canister is wasted needs a count of those that may yet be       *)
(* created: by the calls that wait, and by one more if the lock is open.   *)
(***************************************************************************)

Nowhere == Archive!Configs \cup {Archive!Nothing}
Outcome == {None, Archive!Rejected}

\* A state of deploy_archive, and what it may have been answered there.
CallRecord ==
    [at : {"idle", "create", "canister_status", "status", "install", "success"},
     config : Nowhere, canister : Canisters \cup {None}, wasm : Modules \cup {None},
     module : Modules \cup {None},
     answer : SUBSET (Canisters \cup Modules \cup Inits \cup Outcome \cup {Archive!Done})]

InArchive(r) == r.at \in {"canister_status", "status", "install"}

\* What a call that waits has and is answered, when cs are the canisters.
Sane(cs, r) ==
    /\ r \in CallRecord
    /\ r.at = "create" \/ InArchive(r) => r.config \in Archive!Configs
    /\ r.at = "create" => r.answer \subseteq DOMAIN cs \cup {Archive!Rejected}
    /\ InArchive(r) => r.canister \in DOMAIN cs
    /\ r.at = "canister_status" => r.answer \subseteq Modules \cup Outcome
    /\ r.at = "status" => r.answer \subseteq Inits \cup Outcome

\* Answer x is what a call sees, unless the configuration of archive a has been
\* installed since on canisters cs.
Seen(a, cs, x, seen) == seen = x \/ cs[a.canister] = a.config

\* A call that waits has the configuration of today, and the archive, if it is
\* not the one that creates it; and it has seen the truth.
Fits(a, cs, r) ==
    /\ r.at = "create" \/ InArchive(r) => r.config = a.config
    /\ r.at = "create" => a.state = "CreationInProgress"
    /\ InArchive(r) => a.state = "Created" /\ r.canister = a.canister
    /\ r.at = "canister_status" =>
          \A x \in r.answer \ {Archive!Rejected} : Seen(a, cs, cs[a.canister].module, x)
    /\ r.at = "status" =>
          /\ Seen(a, cs, cs[a.canister].module, r.module)
          /\ \A x \in r.answer \ {Archive!Rejected} : Seen(a, cs, cs[a.canister].init, x)
    /\ r.at = "install" =>
          \A x \in r.answer \ {Archive!Rejected} : cs[a.canister] = a.config

ArchiveTyped ==
    /\ archive \in [state : {"NotConfigured", "Configured", "CreationInProgress", "Created"},
                    config : Nowhere, canister : Canisters \cup {None}, old : BOOLEAN]
    /\ archive.state = "NotConfigured" <=> archive.config = Archive!Nothing
    /\ archive.state = "Created" <=> archive.canister # None
    /\ archive.old => archive.state = "CreationInProgress"
    /\ archive.state = "Created" => archive.canister \in DOMAIN canisters

CanistersTyped ==
    /\ DOMAIN canisters \subseteq Canisters /\ IsFiniteSet(DOMAIN canisters)
    /\ \A c \in DOMAIN canisters : canisters[c] \in Nowhere

CallsTyped ==
    /\ call = [d \in Calls |-> call[d]]
    /\ \A d \in Calls : Sane(canisters, call[d])
    /\ late \subseteq Archive!Creating
    /\ overrun \in BOOLEAN

CacheTyped == cache \in Archive!Status \cup {None}

TypedInv == ArchiveTyped /\ CanistersTyped /\ CallsTyped /\ CacheTyped

CallsFit ==
    /\ \A d \in Calls \ late : Fits(archive, canisters, call[d])
    /\ \A d, e \in Calls \ late : call[d].at = "create" /\ call[e].at = "create" => d = e

CacheIsTrue ==
    cache # None =>
        /\ archive.state = "Created"
        /\ cache = archive.config => canisters[archive.canister] = archive.config

LinkedInv == CallsFit /\ CacheIsTrue

\* The calls that may yet create a canister, and whether one more can begin to.
Pending == {d \in Calls : call[d].at = "create" /\ call[d].answer \subseteq {Archive!Rejected}}
Open == archive.state \in {"NotConfigured", "Configured"} \/ archive.old

CountInv ==
    /\ upgrades \in 0..MaxArchiveUpgrades /\ days \in 0..MaxDays
    /\ IsFiniteSet(Pending)
    /\ Cardinality(DOMAIN canisters) + Cardinality(Pending) + (IF Open THEN 1 ELSE 0) <= 1 + days

DeploymentInv == TypedInv /\ CountInv /\ (overrun \/ LinkedInv)

DeploymentGood ==
    DeploymentInv' /\ Archive!ArchiveIsKeptStep /\ Archive!SuccessIsTrueStep

\* What a step is shown to do.
LEMMA GoodStep ==
    ASSUME TypedInv', CountInv', overrun' \in BOOLEAN,
           ~overrun' => LinkedInv' /\ Archive!ArchiveIsKeptStep /\ Archive!SuccessIsTrueStep
    PROVE  DeploymentGood
<1>1. CASE overrun'
  BY <1>1 DEF DeploymentGood, DeploymentInv, Archive!ArchiveIsKeptStep, Archive!SuccessIsTrueStep
<1>2. CASE ~overrun'
  BY <1>2 DEF DeploymentGood, DeploymentInv
<1> QED
  BY <1>1, <1>2

-----------------------------------------------------------------------------
(***************************************************************************)
(* How calls go on.                                                        *)
(***************************************************************************)

LEMMA IdleFact ==
    ASSUME NEW c \in Canisters \cup {None}, NEW a, NEW cs
    PROVE  /\ Archive!Idle.at = "idle" /\ Sane(cs, Archive!Idle) /\ Fits(a, cs, Archive!Idle)
           /\ Archive!Success(c).at = "success" /\ Archive!Success(c).canister = c
           /\ Sane(cs, Archive!Success(c)) /\ Fits(a, cs, Archive!Success(c))
<1> DEFINE i == Archive!Idle
           s == Archive!Success(c)
<1>1. /\ i \in CallRecord /\ i.at = "idle"
      /\ s \in CallRecord /\ s.at = "success" /\ s.canister = c
  BY DEF Archive!Idle, Archive!Success, Archive!Wait, CallRecord, Nowhere
<1> HIDE DEF i, s
<1>2. Sane(cs, i) /\ Fits(a, cs, i) /\ Sane(cs, s) /\ Fits(a, cs, s)
  BY <1>1 DEF Sane, Fits, InArchive
<1> QED
  BY <1>1, <1>2 DEF i, s

\* A call that has been answered is where it was.
LEMMA AnswerFact ==
    ASSUME NEW r \in CallRecord, NEW x
    PROVE  LET s == [r EXCEPT !.answer = {x}]
           IN  /\ s.at = r.at /\ s.config = r.config /\ s.canister = r.canister
               /\ s.module = r.module /\ s.answer = {x}
               /\ x \in Canisters \cup Modules \cup Inits \cup Outcome \cup {Archive!Done}
                      => s \in CallRecord
BY DEF CallRecord

\* One call goes on with r.
LEMMA CallsFact ==
    ASSUME CallsTyped, NEW d \in Calls, NEW r, call' = [call EXCEPT ![d] = r],
           DOMAIN canisters \subseteq DOMAIN canisters', Sane(canisters', r),
           late' \subseteq Archive!Creating, d \in late' => r.at = "create",
           overrun' \in BOOLEAN
    PROVE  CallsTyped' /\ call'[d] = r /\ \A e \in Calls : e # d => call'[e] = call[e]
<1>1. call'[d] = r /\ \A e \in Calls : e # d => call'[e] = call[e]
  BY DEF CallsTyped
<1>2. call' = [e \in Calls |-> call'[e]]
  BY DEF CallsTyped
<1>3. \A e \in Calls : Sane(canisters', call[e])
  BY DEF CallsTyped, Sane
<1>4. \A e \in Calls : Sane(canisters', call'[e])
  BY <1>1, <1>3
<1>5. late' \subseteq Archive!Creating'
  BY <1>1 DEF Archive!Creating
<1> QED
  BY <1>1, <1>2, <1>4, <1>5 DEF CallsTyped

\* What calls have seen stays true when nothing but the configuration is
\* installed.
LEMMA OthersFit ==
    ASSUME NEW r, Fits(archive, canisters, r), ArchiveTyped, archive' = archive,
           DOMAIN canisters \subseteq DOMAIN canisters',
           \A c \in DOMAIN canisters : canisters'[c] \in {canisters[c], archive.config}
    PROVE  Fits(archive', canisters', r)
<1>1. InArchive(r) => canisters'[archive.canister] \in {canisters[archive.canister], archive.config}
  BY DEF Fits, ArchiveTyped
<1>2. CASE ~InArchive(r)
  BY <1>2 DEF Fits, InArchive
<1>3. CASE InArchive(r) /\ canisters'[archive.canister] = canisters[archive.canister]
  BY <1>3 DEF Fits, InArchive, Seen
<1>4. CASE InArchive(r) /\ canisters'[archive.canister] = archive.config
  BY <1>4 DEF Fits, InArchive, Seen
<1> QED
  BY <1>1, <1>2, <1>3, <1>4

\* When the archive is created or locked, or its lock is opened, no call is in
\* it, and none that is not late creates but one.
LEMMA BystandersFit ==
    ASSUME NEW r, Fits(archive, canisters, r), archive.state # "Created",
           r.at # "create", UNCHANGED canisters
    PROVE  Fits(archive', canisters', r)
BY DEF Fits, InArchive

LEMMA DecidedSane ==
    ASSUME NEW wasm \in Modules \cup {None}, NEW status \in Archive!Status,
           NEW config \in Archive!Configs, NEW c \in DOMAIN canisters, CanistersTyped
    PROVE  LET r == Archive!Decided(wasm, config, c, status)
           IN  Sane(canisters, r) /\ r.at # "create"
<1> DEFINE r == Archive!Decided(wasm, config, c, status)
           i == Archive!Wait("install", config, c, wasm, status.module)
<1>1. c \in Canisters \cup {None} /\ config \in Nowhere /\ status.module \in Modules \cup {None}
  BY DEF CanistersTyped, Nowhere, Archive!Status
<1>2. r \in {Archive!Success(c), Archive!Idle, i}
  BY DEF Archive!Decided
<1>3. /\ i \in CallRecord /\ i.at = "install" /\ i.config = config /\ i.canister = c
  BY <1>1 DEF Archive!Wait, CallRecord
<1> HIDE DEF r, i
<1>4. Sane(canisters, i) /\ i.at # "create"
  BY <1>3 DEF Sane, InArchive
<1>5. Sane(canisters, r) /\ r.at # "create"
  BY <1>1, <1>2, <1>4, IdleFact
<1> QED
  BY <1>5 DEF r

LEMMA DecidedFits ==
    ASSUME ArchiveTyped, archive.state = "Created",
           NEW wasm \in Modules \cup {None}, NEW status \in Archive!Status,
           status = archive.config => canisters[archive.canister] = archive.config
    PROVE  LET r == Archive!Decided(wasm, archive.config, archive.canister, status)
           IN  /\ Fits(archive, canisters, r)
               /\ r.at = "success" =>
                     /\ r.canister = archive.canister
                     /\ canisters[archive.canister] = archive.config
<1> DEFINE r == Archive!Decided(wasm, archive.config, archive.canister, status)
<1>1. archive.canister \in Canisters \cup {None}
  BY DEF ArchiveTyped
<1>2. CASE status = archive.config
  <2>1. r = Archive!Success(archive.canister)
    BY <1>2 DEF Archive!Decided, Archive!ChangeRequired
  <2> HIDE DEF r
  <2> QED
    BY <1>1, <1>2, <2>1, IdleFact DEF r
<1>3. CASE status # archive.config /\ wasm # archive.config.module
  <2>1. r = Archive!Idle
    BY <1>3 DEF Archive!Decided, Archive!ChangeRequired
  <2> HIDE DEF r
  <2> QED
    BY <2>1, IdleFact DEF r
<1>4. CASE status # archive.config /\ wasm = archive.config.module
  <2>1. r = Archive!Wait("install", archive.config, archive.canister, wasm, status.module)
    BY <1>4 DEF Archive!Decided, Archive!ChangeRequired
  <2>2. /\ r.at = "install" /\ r.answer = {}
        /\ r.config = archive.config /\ r.canister = archive.canister
    BY <2>1 DEF Archive!Wait
  <2> HIDE DEF r
  <2>3. Fits(archive, canisters, r)
    BY <2>2 DEF Fits, InArchive
  <2> QED
    BY <2>2, <2>3 DEF r
<1> QED
  BY <1>2, <1>3, <1>4

-----------------------------------------------------------------------------
(***************************************************************************)
(* How many canisters there can be.                                        *)
(***************************************************************************)

LEMMA SameCardinalityOfCanisters ==
    ASSUME NEW S
    PROVE  Archive!Cardinality(S) = Cardinality(S)
BY DEF Archive!Cardinality, Cardinality

\* A step creates a canister in the place of a pending call, begins to create
\* when that was open, opens again when a call is refused or the lock becomes
\* old, or leaves the count as it is.
LEMMA CountStep ==
    ASSUME CountInv, CanistersTyped, CanistersTyped', NEW d,
           upgrades' \in 0..MaxArchiveUpgrades, days' \in 0..MaxDays,
           DOMAIN canisters' = DOMAIN canisters
               \/ Cardinality(DOMAIN canisters') <= Cardinality(DOMAIN canisters) + 1,
           \/ /\ DOMAIN canisters' = DOMAIN canisters /\ days' = days
              /\ \/ Pending' \subseteq Pending /\ (Open' => Open)
                 \/ Pending' \subseteq Pending \cup {d} /\ Open /\ ~Open'
                 \/ d \in Pending /\ Pending' \subseteq Pending \ {d}
           \/ /\ DOMAIN canisters' = DOMAIN canisters /\ days' = days + 1
              /\ Pending' \subseteq Pending
           \/ /\ d \in Pending /\ Pending' \subseteq Pending \ {d}
              /\ (Open' => Open) /\ days' = days
    PROVE  CountInv'
<1> DEFINE n == Cardinality(DOMAIN canisters)
           m == Cardinality(DOMAIN canisters')
           p == Cardinality(Pending)
           q == Cardinality(Pending')
<1>1. n \in Nat /\ m \in Nat /\ p \in Nat /\ days \in Nat /\ IsFiniteSet(Pending)
  BY FS_CardinalityType DEF CountInv, CanistersTyped
<1>2. m = n \/ m <= n + 1
  OBVIOUS
<1>3. n + p + (IF Open THEN 1 ELSE 0) <= 1 + days
  BY DEF CountInv
<1>4. ASSUME Pending' \subseteq Pending
      PROVE  IsFiniteSet(Pending') /\ q <= p /\ q \in Nat
  BY <1>1, <1>4, FS_Subset, FS_CardinalityType
<1>5. ASSUME Pending' \subseteq Pending \cup {d}
      PROVE  IsFiniteSet(Pending') /\ q <= p + 1 /\ q \in Nat
  <2>1. IsFiniteSet(Pending \cup {d}) /\ Cardinality(Pending \cup {d}) <= p + 1
    <3>1. CASE d \in Pending
      <4>1. Pending \cup {d} = Pending
        BY <3>1
      <4> QED
        BY <1>1, <4>1
    <3>2. CASE d \notin Pending
      BY <1>1, <3>2, FS_AddElement
    <3> QED
      BY <3>1, <3>2
  <2>2. Cardinality(Pending \cup {d}) \in Nat
    BY <2>1, FS_CardinalityType
  <2>3. IsFiniteSet(Pending') /\ q <= Cardinality(Pending \cup {d}) /\ q \in Nat
    BY <1>5, <2>1, FS_Subset, FS_CardinalityType
  <2> HIDE DEF p, q
  <2> QED
    BY <1>1, <2>1, <2>2, <2>3 DEF p
<1>6. ASSUME d \in Pending, Pending' \subseteq Pending \ {d}
      PROVE  IsFiniteSet(Pending') /\ q <= p - 1 /\ q \in Nat
  <2>1. IsFiniteSet(Pending \ {d}) /\ Cardinality(Pending \ {d}) = p - 1
    BY <1>1, <1>6, FS_RemoveElement
  <2>2. IsFiniteSet(Pending') /\ q <= Cardinality(Pending \ {d}) /\ q \in Nat
    BY <1>6, <2>1, FS_Subset, FS_CardinalityType
  <2> QED
    BY <2>1, <2>2
<1>7. IsFiniteSet(Pending') /\ m + q + (IF Open' THEN 1 ELSE 0) <= 1 + days'
  <2> HIDE DEF n, m, p, q
  <2>1. DOMAIN canisters' = DOMAIN canisters => m = n
    BY DEF m, n
  <2>2. CASE /\ DOMAIN canisters' = DOMAIN canisters /\ days' = days
             /\ Pending' \subseteq Pending /\ (Open' => Open)
    BY <1>1, <1>3, <1>4, <2>1, <2>2
  <2>3. CASE /\ DOMAIN canisters' = DOMAIN canisters /\ days' = days
             /\ Pending' \subseteq Pending \cup {d} /\ Open /\ ~Open'
    BY <1>1, <1>3, <1>5, <2>1, <2>3
  <2>4. CASE /\ DOMAIN canisters' = DOMAIN canisters /\ days' = days
             /\ d \in Pending /\ Pending' \subseteq Pending \ {d}
    BY <1>1, <1>3, <1>6, <2>1, <2>4
  <2>5. CASE /\ DOMAIN canisters' = DOMAIN canisters /\ days' = days + 1
             /\ Pending' \subseteq Pending
    BY <1>1, <1>3, <1>4, <2>1, <2>5
  <2>6. CASE /\ d \in Pending /\ Pending' \subseteq Pending \ {d}
             /\ (Open' => Open) /\ days' = days
    BY <1>1, <1>2, <1>3, <1>6, <2>6
  <2> QED
    BY <2>2, <2>3, <2>4, <2>5, <2>6
<1> QED
  BY <1>7 DEF CountInv

\* The calls that are pending, when one call goes on.
LEMMA PendingFact ==
    ASSUME NEW d \in Calls, \A e \in Calls : e # d => call'[e] = call[e]
    PROVE  /\ Pending' \subseteq Pending \cup {d}
           /\ call'[d].at # "create" => Pending' \subseteq Pending \ {d}
           /\ ~(call'[d].answer \subseteq {Archive!Rejected}) => Pending' \subseteq Pending \ {d}
           /\ d \in Pending => Pending' \subseteq Pending
BY DEF Pending

-----------------------------------------------------------------------------
(***************************************************************************)
(* The other canisters.                                                    *)
(***************************************************************************)

\* A call is answered.
LEMMA AnsweredStep ==
    ASSUME DeploymentInv, NEW d \in Calls, NEW x,
           call[d].answer = {},
           call' = [call EXCEPT ![d].answer = {x}],
           UNCHANGED <<archive, cache, upgrades, days, late, overrun>>,
           Sane(canisters', [call[d] EXCEPT !.answer = {x}]),
           ~overrun /\ d \notin late => Fits(archive', canisters', [call[d] EXCEPT !.answer = {x}]),
           CanistersTyped',
           DOMAIN canisters \subseteq DOMAIN canisters',
           ~overrun => \A c \in DOMAIN canisters : canisters'[c] \in {canisters[c], archive.config},
           \/ DOMAIN canisters' = DOMAIN canisters
           \/ /\ call[d].at = "create" /\ x # Archive!Rejected
              /\ Cardinality(DOMAIN canisters') <= Cardinality(DOMAIN canisters) + 1
    PROVE  DeploymentGood
<1> DEFINE r == [call[d] EXCEPT !.answer = {x}]
<1>1. /\ call[d] \in CallRecord /\ call = [e \in Calls |-> call[e]]
      /\ TypedInv /\ CountInv /\ CallsTyped /\ ArchiveTyped /\ CanistersTyped
      /\ (d \in late => call[d].at = "create")
  BY DEF DeploymentInv, TypedInv, CallsTyped, Sane, Archive!Creating
<1>2. r.at = call[d].at /\ r.answer = {x} /\ call' = [call EXCEPT ![d] = r]
  BY <1>1, AnswerFact
<1>3. Sane(canisters', r) /\ (~overrun /\ d \notin late => Fits(archive', canisters', r))
  OBVIOUS
<1> HIDE DEF r
<1>4. CallsTyped' /\ call'[d] = r /\ \A e \in Calls : e # d => call'[e] = call[e]
  BY <1>1, <1>2, <1>3, CallsFact DEF CallsTyped
<1>5. TypedInv'
  BY <1>1, <1>4 DEF TypedInv, ArchiveTyped, CacheTyped
<1>6. \A e \in Calls : call'[e].at = call[e].at
  BY <1>2, <1>4
<1>7. CountInv'
  <2>1. upgrades' \in 0..MaxArchiveUpgrades /\ days' \in 0..MaxDays /\ (Open' => Open)
    BY <1>1 DEF CountInv, Open
  <2>2. d \in Pending <=> call[d].at = "create"
    BY DEF Pending
  <2>3. call[d].at # "create" => Pending' \subseteq Pending
    BY <1>4, <1>6, <2>2, PendingFact
  <2>4. call[d].at = "create" /\ x # Archive!Rejected => Pending' \subseteq Pending \ {d}
    BY <1>2, <1>4, PendingFact
  <2>5. CASE DOMAIN canisters' = DOMAIN canisters
    <3>1. Pending' \subseteq Pending
      BY <1>4, <2>2, <2>3, PendingFact
    <3> QED
      BY <1>1, <2>1, <2>5, <3>1, CountStep
  <2>6. CASE /\ call[d].at = "create" /\ x # Archive!Rejected
             /\ Cardinality(DOMAIN canisters') <= Cardinality(DOMAIN canisters) + 1
    BY <1>1, <2>1, <2>2, <2>4, <2>6, CountStep
  <2> QED
    BY <2>5, <2>6
<1>8. ASSUME ~overrun'
      PROVE  LinkedInv' /\ Archive!ArchiveIsKeptStep /\ Archive!SuccessIsTrueStep
  <2>1. LinkedInv /\ ~overrun
    BY <1>8 DEF DeploymentInv
  <2>2. \A e \in Calls \ late' : Fits(archive', canisters', call'[e])
    <3>1. \A e \in Calls \ late : Fits(archive', canisters', call[e])
      BY <1>1, <2>1, OthersFit DEF LinkedInv, CallsFit
    <3> QED
      BY <1>3, <1>4, <2>1, <3>1
  <2>3. CallsFit'
    BY <1>6, <2>1, <2>2 DEF LinkedInv, CallsFit
  <2>4. CacheIsTrue'
    <3>1. archive.state = "Created" => archive.canister \in DOMAIN canisters
      BY <1>1 DEF ArchiveTyped
    <3> QED
      BY <2>1, <3>1 DEF LinkedInv, CacheIsTrue
  <2>5. Archive!ArchiveIsKeptStep /\ Archive!SuccessIsTrueStep
    BY <1>6 DEF Archive!ArchiveIsKeptStep, Archive!SuccessIsTrueStep
  <2> QED
    BY <2>3, <2>4, <2>5 DEF LinkedInv
<1>9. overrun' \in BOOLEAN
  BY <1>1 DEF CallsTyped
<1> QED
  BY <1>5, <1>7, <1>8, <1>9, GoodStep

LEMMA ExecuteStep ==
    ASSUME Archive!DeploymentAssumption, DeploymentInv, NEW d \in Calls, Archive!Execute(d)
    PROVE  DeploymentGood
<1> DEFINE r(x) == [call[d] EXCEPT !.answer = {x}]
           Linked == ~overrun /\ d \notin late
<1>1. /\ call[d] \in CallRecord /\ Sane(canisters, call[d])
      /\ (Linked => Fits(archive, canisters, call[d]))
      /\ CanistersTyped /\ ArchiveTyped /\ (d \in late => call[d].at = "create")
      /\ call[d].answer = {} /\ UNCHANGED <<archive, cache, upgrades, days, late, overrun>>
  BY DEF DeploymentInv, TypedInv, LinkedInv, CallsTyped, CallsFit, Sane, Archive!Execute,
         Archive!historyVars, Archive!Creating
<1>2. ASSUME Archive!Create(d)
      PROVE  DeploymentGood
  <2>1. PICK c \in Canisters \ DOMAIN canisters :
           /\ canisters' = [x \in DOMAIN canisters \cup {c} |->
                               IF x = c THEN Archive!Nothing ELSE canisters[x]]
           /\ call' = [call EXCEPT ![d].answer = {c}]
           /\ call[d].at = "create"
    BY <1>2 DEF Archive!Create, Archive!Answer
  <2>2. /\ DOMAIN canisters' = DOMAIN canisters \cup {c}
        /\ \A x \in DOMAIN canisters : canisters'[x] = canisters[x]
        /\ canisters'[c] = Archive!Nothing
    BY <2>1
  <2>3. /\ IsFiniteSet(DOMAIN canisters')
        /\ Cardinality(DOMAIN canisters') <= Cardinality(DOMAIN canisters) + 1
    <3>1. IsFiniteSet(DOMAIN canisters)
      BY <1>1 DEF CanistersTyped
    <3>2. Cardinality(DOMAIN canisters) \in Nat
      BY <3>1, FS_CardinalityType
    <3>3. /\ IsFiniteSet(DOMAIN canisters \cup {c})
          /\ Cardinality(DOMAIN canisters \cup {c}) = Cardinality(DOMAIN canisters) + 1
      BY <2>1, <3>1, FS_AddElement
    <3> QED
      BY <2>2, <3>2, <3>3
  <2>4. CanistersTyped'
    BY <1>1, <2>1, <2>2, <2>3 DEF CanistersTyped, Nowhere
  <2>5. c # Archive!Rejected
    BY <2>1 DEF Archive!DeploymentAssumption
  <2>6. Sane(canisters', r(c)) /\ (Linked => Fits(archive', canisters', r(c)))
    <3>1. /\ r(c) \in CallRecord /\ r(c).at = "create" /\ r(c).config = call[d].config
          /\ r(c).answer = {c}
      BY <1>1, <2>1, AnswerFact
    <3> HIDE DEF r
    <3> QED
      BY <1>1, <2>1, <2>2, <3>1 DEF Sane, Fits, InArchive
  <2>7. \A x \in DOMAIN canisters : canisters'[x] \in {canisters[x], archive.config}
    BY <2>2
  <2> QED
    BY <1>1, <2>1, <2>2, <2>3, <2>4, <2>5, <2>6, <2>7, AnsweredStep
<1>3. ASSUME Archive!ReportStatus(d)
      PROVE  DeploymentGood
  <2> DEFINE x == canisters[call[d].canister].module
  <2>1. /\ call[d].at = "canister_status" /\ call' = [call EXCEPT ![d].answer = {x}]
        /\ canisters' = canisters
    BY <1>3 DEF Archive!ReportStatus, Archive!Answer
  <2>2. call[d].canister \in DOMAIN canisters /\ (Linked => call[d].canister = archive.canister)
    BY <1>1, <2>1 DEF Sane, Fits, InArchive
  <2>3. x \in Modules \cup {None}
    BY <1>1, <2>2 DEF CanistersTyped, Nowhere, Archive!Configs, Archive!Nothing
  <2>4. Sane(canisters', r(x)) /\ (Linked => Fits(archive', canisters', r(x)))
    <3>1. /\ r(x) \in CallRecord /\ r(x).at = "canister_status"
          /\ r(x).config = call[d].config /\ r(x).canister = call[d].canister
          /\ r(x).answer = {x}
      BY <1>1, <2>1, <2>3, AnswerFact DEF Outcome
    <3>2. Linked => x = canisters[archive.canister].module
      BY <2>2
    <3> HIDE DEF r, x
    <3>3. Sane(canisters', r(x))
      BY <1>1, <2>1, <2>3, <3>1 DEF Sane, InArchive, Outcome
    <3>4. Linked => Fits(archive', canisters', r(x))
      BY <1>1, <2>1, <2>3, <3>1, <3>2 DEF Fits, InArchive, Seen
    <3> QED
      BY <3>3, <3>4
  <2>5. CanistersTyped'
    BY <1>1, <2>1 DEF CanistersTyped
  <2> HIDE DEF x
  <2> QED
    BY <1>1, <2>1, <2>4, <2>5, AnsweredStep
<1>4. ASSUME Archive!ReportInit(d)
      PROVE  DeploymentGood
  <2> DEFINE x == canisters[call[d].canister].init
  <2>1. /\ call[d].at = "status" /\ call' = [call EXCEPT ![d].answer = {x}]
        /\ canisters' = canisters
    BY <1>4 DEF Archive!ReportInit, Archive!Answer
  <2>2. call[d].canister \in DOMAIN canisters /\ (Linked => call[d].canister = archive.canister)
    BY <1>1, <2>1 DEF Sane, Fits, InArchive
  <2>3. x \in Inits \cup {None}
    BY <1>1, <2>2 DEF CanistersTyped, Nowhere, Archive!Configs, Archive!Nothing
  <2>4. Sane(canisters', r(x)) /\ (Linked => Fits(archive', canisters', r(x)))
    <3>1. /\ r(x) \in CallRecord /\ r(x).at = "status"
          /\ r(x).config = call[d].config /\ r(x).canister = call[d].canister
          /\ r(x).module = call[d].module /\ r(x).answer = {x}
      BY <1>1, <2>1, <2>3, AnswerFact DEF Outcome
    <3>2. Linked => x = canisters[archive.canister].init
      BY <2>2
    <3> HIDE DEF r, x
    <3>3. Sane(canisters', r(x))
      BY <1>1, <2>1, <2>3, <3>1 DEF Sane, InArchive, Outcome
    <3>4. Linked => Fits(archive', canisters', r(x))
      BY <1>1, <2>1, <2>3, <3>1, <3>2 DEF Fits, InArchive, Seen
    <3> QED
      BY <3>3, <3>4
  <2>5. CanistersTyped'
    BY <1>1, <2>1 DEF CanistersTyped
  <2> HIDE DEF x
  <2> QED
    BY <1>1, <2>1, <2>4, <2>5, AnsweredStep
<1>5. ASSUME Archive!Install(d)
      PROVE  DeploymentGood
  <2> DEFINE x == Archive!Done
             c == call[d].canister
  <2>1. /\ call[d].at = "install" /\ call' = [call EXCEPT ![d].answer = {x}]
        /\ canisters' = [canisters EXCEPT ![c] = call[d].config]
    BY <1>5 DEF Archive!Install, Archive!Answer
  <2>2. /\ c \in DOMAIN canisters /\ call[d].config \in Nowhere
        /\ Linked => c = archive.canister /\ call[d].config = archive.config
    BY <1>1, <2>1 DEF Sane, Fits, InArchive, Nowhere
  <2>3. /\ DOMAIN canisters' = DOMAIN canisters
        /\ canisters'[c] = call[d].config
        /\ \A b \in DOMAIN canisters : b # c => canisters'[b] = canisters[b]
    BY <2>1, <2>2
  <2> HIDE DEF c
  <2>4. Sane(canisters', r(x)) /\ (Linked => Fits(archive', canisters', r(x)))
    <3>1. /\ r(x) \in CallRecord /\ r(x).at = "install"
          /\ r(x).config = call[d].config /\ r(x).canister = call[d].canister
          /\ r(x).answer = {x}
      BY <1>1, <2>1, AnswerFact
    <3> HIDE DEF r, x
    <3>2. Sane(canisters', r(x))
      BY <1>1, <2>1, <2>3, <3>1 DEF Sane, InArchive
    <3>3. Linked => Fits(archive', canisters', r(x))
      BY <1>1, <2>1, <2>2, <2>3, <3>1 DEF Fits, InArchive
    <3> QED
      BY <3>2, <3>3
  <2>5. CanistersTyped'
    BY <1>1, <2>2, <2>3 DEF CanistersTyped
  <2>6. ~overrun => \A b \in DOMAIN canisters : canisters'[b] \in {canisters[b], archive.config}
    <3>1. d \notin late
      BY <1>1, <2>1
    <3> QED
      BY <2>2, <2>3, <3>1
  <2> HIDE DEF x
  <2> QED
    BY <1>1, <2>1, <2>3, <2>4, <2>5, <2>6, AnsweredStep
<1>6. ASSUME Archive!Reject(d)
      PROVE  DeploymentGood
  <2> DEFINE x == Archive!Rejected
  <2>1. call' = [call EXCEPT ![d].answer = {x}] /\ canisters' = canisters
    BY <1>6 DEF Archive!Reject, Archive!Answer
  <2>2. Sane(canisters', r(x)) /\ (Linked => Fits(archive', canisters', r(x)))
    <3>1. /\ r(x) \in CallRecord /\ r(x).at = call[d].at
          /\ r(x).config = call[d].config /\ r(x).canister = call[d].canister
          /\ r(x).module = call[d].module /\ r(x).answer = {Archive!Rejected}
      BY <1>1, AnswerFact DEF Outcome
    <3> HIDE DEF r, x
    <3>2. Sane(canisters', r(x))
      BY <1>1, <2>1, <3>1 DEF Sane, InArchive, Outcome
    <3>3. Linked => Fits(archive', canisters', r(x))
      BY <1>1, <2>1, <3>1 DEF Fits, InArchive, Seen
    <3> QED
      BY <3>2, <3>3
  <2>3. CanistersTyped'
    BY <1>1, <2>1 DEF CanistersTyped
  <2> HIDE DEF x
  <2> QED
    BY <1>1, <2>1, <2>2, <2>3, AnsweredStep
<1> QED
  BY <1>2, <1>3, <1>4, <1>5, <1>6 DEF Archive!Execute

-----------------------------------------------------------------------------
(***************************************************************************)
(* Time, upgrades, and the steps of deploy_archive.                        *)
(***************************************************************************)

LEMMA TimeStep ==
    ASSUME Archive!DeploymentAssumption, DeploymentInv, Archive!HourPasses \/ Archive!DayPasses
    PROVE  DeploymentGood
<1>1. UNCHANGED <<call, canisters, upgrades, late, overrun>> /\ cache' = None
  BY DEF Archive!HourPasses, Archive!DayPasses, Archive!historyVars
<1>2. \/ archive' = archive /\ days' = days
      \/ /\ archive.state = "CreationInProgress"
         /\ archive' = [archive EXCEPT !.old = TRUE]
         /\ days < MaxDays /\ days' = days + 1
  BY DEF Archive!HourPasses, Archive!DayPasses, Archive!historyVars
<1>3. TypedInv /\ ArchiveTyped /\ CanistersTyped /\ CallsTyped /\ CountInv /\ overrun \in BOOLEAN
  BY DEF DeploymentInv, TypedInv, CallsTyped
<1>4. /\ archive'.state = archive.state /\ archive'.config = archive.config
      /\ archive'.canister = archive.canister /\ ArchiveTyped'
  BY <1>1, <1>2, <1>3 DEF ArchiveTyped
<1>5. TypedInv'
  BY <1>1, <1>3, <1>4 DEF TypedInv, CanistersTyped, CallsTyped, CacheTyped, Archive!Creating
<1>6. CountInv'
  <2>1. Pending' = Pending
    BY <1>1 DEF Pending
  <2>2. MaxDays \in Nat /\ days \in 0..MaxDays /\ upgrades' \in 0..MaxArchiveUpgrades
    BY <1>1, <1>3 DEF CountInv, Archive!DeploymentAssumption
  <2>3. CASE archive' = archive /\ days' = days
    BY <1>1, <1>3, <1>5, <2>1, <2>2, <2>3, CountStep DEF TypedInv, Open
  <2>4. CASE days < MaxDays /\ days' = days + 1
    <3>1. days' \in 0..MaxDays
      BY <2>2, <2>4
    <3> QED
      BY <1>1, <1>3, <1>5, <2>1, <2>2, <2>4, <3>1, CountStep DEF TypedInv
  <2> QED
    BY <1>2, <2>3, <2>4
<1>7. ASSUME LinkedInv
      PROVE  LinkedInv'
  <2>1. \A d \in Calls \ late : Fits(archive', canisters', call[d])
    BY <1>1, <1>4, <1>7 DEF LinkedInv, CallsFit, Fits, Seen
  <2> QED
    BY <1>1, <1>7, <2>1 DEF LinkedInv, CallsFit, CacheIsTrue
<1>8. Archive!ArchiveIsKeptStep /\ Archive!SuccessIsTrueStep
  BY <1>1, <1>4 DEF Archive!ArchiveIsKeptStep, Archive!SuccessIsTrueStep
<1> QED
  BY <1>1, <1>3, <1>5, <1>6, <1>7, <1>8, GoodStep DEF DeploymentInv

LEMMA ConfigIsSomething ==
    ASSUME Archive!DeploymentAssumption, NEW config \in Archive!Configs
    PROVE  /\ config \in Nowhere /\ config # Archive!Nothing
           /\ config.module # None /\ config.init # None
BY DEF Archive!DeploymentAssumption, Archive!Configs, Archive!Nothing, Nowhere

LEMMA UpgradeStep ==
    ASSUME Archive!DeploymentAssumption, DeploymentInv, Archive!Upgrade
    PROVE  DeploymentGood
<1>1. /\ canisters' = canisters /\ cache' = None /\ call' = [d \in Calls |-> Archive!Idle]
      /\ upgrades < MaxArchiveUpgrades /\ upgrades' = upgrades + 1 /\ days' = days
      /\ late' = {} /\ overrun' = FALSE
  BY DEF Archive!Upgrade
<1>2. ArchiveTyped /\ CanistersTyped /\ CountInv
  BY DEF DeploymentInv, TypedInv
<1>3. /\ archive'.canister = archive.canister /\ archive'.old = archive.old
      /\ archive.state = "Created" => archive'.state = "Created"
      /\ archive'.state \in {"NotConfigured", "Configured"}
             => archive.state \in {"NotConfigured", "Configured"}
      /\ ArchiveTyped'
  <2>1. CASE archive' = archive
    BY <1>1, <1>2, <2>1 DEF ArchiveTyped
  <2>2. ASSUME NEW config \in Archive!Configs,
               archive' = [archive EXCEPT !.config = config,
                              !.state = IF @ = "NotConfigured" THEN "Configured" ELSE @]
        PROVE  /\ archive'.canister = archive.canister /\ archive'.old = archive.old
               /\ archive.state = "Created" => archive'.state = "Created"
               /\ archive'.state \in {"NotConfigured", "Configured"}
                      => archive.state \in {"NotConfigured", "Configured"}
               /\ ArchiveTyped'
    <3>1. config \in Nowhere /\ config # Archive!Nothing
      BY ConfigIsSomething
    <3>2. CASE archive.state = "NotConfigured"
      BY <1>1, <1>2, <2>2, <3>1, <3>2 DEF ArchiveTyped
    <3>3. CASE archive.state # "NotConfigured"
      BY <1>1, <1>2, <2>2, <3>1, <3>3 DEF ArchiveTyped
    <3> QED
      BY <3>2, <3>3
  <2> QED
    BY <2>1, <2>2 DEF Archive!Upgrade
<1>4. /\ Archive!Idle.at = "idle" /\ Sane(canisters', Archive!Idle)
      /\ Fits(archive', canisters', Archive!Idle)
  BY IdleFact
<1>5. TypedInv'
  BY <1>1, <1>2, <1>3, <1>4 DEF TypedInv, CanistersTyped, CallsTyped, CacheTyped
<1>6. LinkedInv'
  BY <1>1, <1>4 DEF LinkedInv, CallsFit, CacheIsTrue
<1>7. CountInv'
  <2>1. Pending' \subseteq Pending
    BY <1>1, <1>4 DEF Pending
  <2>2. (Open' => Open) /\ upgrades' \in 0..MaxArchiveUpgrades /\ days' \in 0..MaxDays
    BY <1>1, <1>2, <1>3 DEF Open, CountInv, Archive!DeploymentAssumption
  <2> QED
    BY <1>1, <1>2, <1>5, <2>1, <2>2, CountStep DEF TypedInv
<1>8. Archive!ArchiveIsKeptStep /\ Archive!SuccessIsTrueStep
  BY <1>1, <1>3, <1>4 DEF Archive!ArchiveIsKeptStep, Archive!SuccessIsTrueStep
<1> QED
  BY <1>1, <1>5, <1>6, <1>7, <1>8, GoodStep

\* deploy_archive without an archive: the lock is opened if it is old.
LEMMA UnlockedFact ==
    ASSUME ArchiveTyped
    PROVE  LET a == Archive!Unlocked(archive)
           IN  /\ a = archive
                  \/ (archive.old /\ a = [archive EXCEPT !.state = "Configured", !.old = FALSE])
               /\ a.config = archive.config /\ a.canister = archive.canister
               /\ a.state = "Created" <=> archive.state = "Created"
               /\ a.state = "Configured" =>
                     archive.state \in {"Configured", "CreationInProgress"}
               /\ a.state = "Configured" => archive.state = "Configured" \/ archive.old
               /\ a.state = "CreationInProgress" => a = archive
BY DEF ArchiveTyped, Archive!Unlocked

\* Whose lock is broken is late: nobody else creates.
LEMMA NobodyCreates ==
    ASSUME ArchiveTyped, LinkedInv, archive.state = "Configured" \/ archive.old,
           late' = IF archive.old THEN Archive!Creating ELSE late
    PROVE  \A d \in Calls \ late' : call[d].at # "create"
BY DEF LinkedInv, CallsFit, Fits, ArchiveTyped, Archive!Creating

\* The rest of what a step of deploy_archive leaves alone.
Beginning ==
    /\ late' = IF archive.old THEN Archive!Creating ELSE late
    /\ UNCHANGED <<cache, canisters, upgrades, days, overrun>>

LEMMA RefuseStep ==
    ASSUME DeploymentInv, NEW d \in Calls, NEW wasm \in Modules, Archive!Free(d),
           Archive!DeployRefused(d, wasm), Beginning
    PROVE  DeploymentGood
<1> DEFINE a == Archive!Unlocked(archive)
<1>1. /\ archive' = a /\ call' = [call EXCEPT ![d] = Archive!Idle]
      /\ a.state \in {"NotConfigured", "CreationInProgress", "Configured"}
      /\ TypedInv /\ ArchiveTyped /\ CanistersTyped /\ CallsTyped /\ CountInv
      /\ UNCHANGED <<cache, canisters, upgrades, days, overrun>>
  BY DEF Archive!DeployRefused, DeploymentInv, TypedInv, Beginning
<1>2. /\ a = archive
         \/ (archive.old /\ a = [archive EXCEPT !.state = "Configured", !.old = FALSE])
      /\ a.config = archive.config /\ a.canister = archive.canister
      /\ a.state = "Created" <=> archive.state = "Created"
  BY <1>1, UnlockedFact
<1> HIDE DEF a
<1>3. archive.state # "Created" /\ ArchiveTyped'
  BY <1>1, <1>2 DEF ArchiveTyped
<1>4. /\ Archive!Idle.at = "idle" /\ Sane(canisters', Archive!Idle)
      /\ Fits(archive', canisters', Archive!Idle)
  BY IdleFact
<1>5. call[d].at # "create" /\ late' \subseteq Archive!Creating /\ d \notin late'
  BY <1>1 DEF Archive!Free, CallsTyped, Beginning, Archive!Creating
<1>6. CallsTyped' /\ call'[d] = Archive!Idle /\ \A e \in Calls : e # d => call'[e] = call[e]
  <2>1. overrun' \in BOOLEAN
    BY <1>1 DEF CallsTyped
  <2> QED
    BY <1>1, <1>4, <1>5, <2>1, CallsFact
<1>7. TypedInv'
  BY <1>1, <1>3, <1>6 DEF TypedInv, CanistersTyped, CacheTyped
<1>8. CountInv'
  <2>1. Pending' \subseteq Pending
    BY <1>4, <1>6, PendingFact
  <2>2. (Open' => Open) /\ upgrades' \in 0..MaxArchiveUpgrades /\ days' \in 0..MaxDays
    BY <1>1, <1>2 DEF Open, CountInv
  <2> QED
    BY <1>1, <1>7, <2>1, <2>2, CountStep DEF TypedInv
<1>9. ASSUME LinkedInv
      PROVE  LinkedInv'
  <2>1. \A e \in Calls \ late' : e # d => Fits(archive', canisters', call[e])
    <3>1. CASE a = archive /\ ~archive.old
      BY <1>1, <1>9, <3>1 DEF LinkedInv, CallsFit, Beginning
    <3>2. CASE archive.old
      <4>1. \A e \in Calls \ late' : call[e].at # "create"
        BY <1>1, <1>9, <3>2, NobodyCreates DEF Beginning
      <4>2. \A e \in Calls \ late' : e \notin late
        BY <3>2, <1>1 DEF CallsTyped, Beginning
      <4>3. \A e \in Calls \ late' : Fits(archive, canisters, call[e])
        BY <1>9, <4>2 DEF LinkedInv, CallsFit
      <4> QED
        BY <1>1, <1>3, <4>1, <4>3, BystandersFit
    <3> QED
      BY <1>2, <3>1, <3>2
  <2>2. \A e \in Calls \ late' : Fits(archive', canisters', call'[e])
    BY <1>4, <1>6, <2>1
  <2>3. \A b, e \in Calls \ late' :
           call'[b].at = "create" /\ call'[e].at = "create" => b = e
    <3>1. late \subseteq late'
      BY <1>1 DEF CallsTyped, Beginning
    <3> QED
      BY <1>4, <1>6, <1>9, <3>1 DEF LinkedInv, CallsFit
  <2> QED
    BY <1>1, <1>3, <1>9, <2>2, <2>3 DEF LinkedInv, CallsFit, CacheIsTrue
<1>10. Archive!ArchiveIsKeptStep /\ Archive!SuccessIsTrueStep
  BY <1>3, <1>4, <1>6 DEF Archive!ArchiveIsKeptStep, Archive!SuccessIsTrueStep
<1> QED
  BY <1>1, <1>6, <1>7, <1>8, <1>9, <1>10, GoodStep DEF DeploymentInv, CallsTyped

LEMMA LockStep ==
    ASSUME Archive!DeploymentAssumption, DeploymentInv, NEW d \in Calls, NEW wasm \in Modules,
           Archive!Free(d), Archive!DeployFirst(d, wasm), Beginning
    PROVE  DeploymentGood
<1> DEFINE a == Archive!Unlocked(archive)
           r == Archive!Wait("create", a.config, None, wasm, None)
<1>1. /\ a.state = "Configured"
      /\ archive' = [a EXCEPT !.state = "CreationInProgress", !.old = FALSE]
      /\ call' = [call EXCEPT ![d] = r]
      /\ TypedInv /\ ArchiveTyped /\ CanistersTyped /\ CallsTyped /\ CountInv
      /\ UNCHANGED <<cache, canisters, upgrades, days, overrun>>
  BY DEF Archive!DeployFirst, DeploymentInv, TypedInv, Beginning
<1>2. /\ a = archive
         \/ (archive.old /\ a = [archive EXCEPT !.state = "Configured", !.old = FALSE])
      /\ a.config = archive.config /\ a.canister = archive.canister
      /\ archive.state \in {"Configured", "CreationInProgress"}
      /\ archive.state = "Configured" \/ archive.old
  BY <1>1, UnlockedFact
<1>3. archive.config \in Archive!Configs
  BY <1>1, <1>2 DEF ArchiveTyped, Nowhere
<1>4. /\ r \in CallRecord /\ r.at = "create" /\ r.config = archive.config /\ r.answer = {}
  BY <1>2, <1>3 DEF Archive!Wait, CallRecord, Nowhere
<1> HIDE DEF a, r
<1>5. /\ archive'.state = "CreationInProgress" /\ ~archive'.old
      /\ archive'.config = archive.config /\ ArchiveTyped'
  BY <1>1, <1>2 DEF ArchiveTyped
<1>6. Fits(archive', canisters', r) /\ Sane(canisters', r)
  BY <1>3, <1>4, <1>5 DEF Fits, Sane, InArchive
<1>7. call[d].at # "create" /\ late' \subseteq Archive!Creating /\ d \notin late'
  BY <1>1 DEF Archive!Free, CallsTyped, Beginning, Archive!Creating
<1>8. CallsTyped' /\ call'[d] = r /\ \A e \in Calls : e # d => call'[e] = call[e]
  <2>1. overrun' \in BOOLEAN
    BY <1>1 DEF CallsTyped
  <2> QED
    BY <1>1, <1>6, <1>7, <2>1, CallsFact
<1>9. TypedInv'
  BY <1>1, <1>5, <1>8 DEF TypedInv, CanistersTyped, CacheTyped
<1>10. CountInv'
  <2>1. Pending' \subseteq Pending \cup {d}
    BY <1>8, PendingFact
  <2>2. Open /\ ~Open' /\ upgrades' \in 0..MaxArchiveUpgrades /\ days' \in 0..MaxDays
    BY <1>1, <1>2, <1>5 DEF Open, CountInv
  <2> QED
    BY <1>1, <1>9, <2>1, <2>2, CountStep DEF TypedInv
<1>11. ASSUME LinkedInv
       PROVE  LinkedInv'
  <2>1. \A e \in Calls \ late' : call[e].at # "create"
    BY <1>1, <1>2, <1>11, NobodyCreates DEF Beginning
  <2>2. \A e \in Calls \ late' : e \notin late
    BY <1>1 DEF CallsTyped, Beginning
  <2>3. \A e \in Calls \ late' : Fits(archive, canisters, call[e])
    BY <1>11, <2>2 DEF LinkedInv, CallsFit
  <2>4. \A e \in Calls \ late' : Fits(archive', canisters', call[e])
    BY <1>1, <1>2, <2>1, <2>3, BystandersFit
  <2>5. \A e \in Calls \ late' : Fits(archive', canisters', call'[e])
    BY <1>6, <1>8, <2>4
  <2>6. \A b, e \in Calls \ late' :
           call'[b].at = "create" /\ call'[e].at = "create" => b = e
    BY <1>8, <2>1
  <2>7. CacheIsTrue'
    BY <1>1, <1>2, <1>11 DEF LinkedInv, CacheIsTrue
  <2> QED
    BY <2>5, <2>6, <2>7 DEF LinkedInv, CallsFit
<1>12. Archive!ArchiveIsKeptStep /\ Archive!SuccessIsTrueStep
  BY <1>2, <1>4, <1>8 DEF Archive!ArchiveIsKeptStep, Archive!SuccessIsTrueStep
<1> QED
  BY <1>1, <1>8, <1>9, <1>10, <1>11, <1>12, GoodStep DEF DeploymentInv, CallsTyped

\* A call that does not create goes on while nothing else changes but the cache.
LEMMA InsideStep ==
    ASSUME DeploymentInv, NEW d \in Calls, NEW r, call' = [call EXCEPT ![d] = r],
           UNCHANGED <<archive, canisters, upgrades, days, late, overrun>>,
           CacheTyped', Sane(canisters, r), call[d].at # "create", r.at # "create",
           ~overrun =>
               /\ CacheIsTrue' /\ Fits(archive, canisters, r)
               /\ r.at = "success" =>
                     /\ r.canister = archive.canister
                     /\ canisters[archive.canister] = archive.config
    PROVE  DeploymentGood
<1>1. /\ TypedInv /\ ArchiveTyped /\ CanistersTyped /\ CallsTyped /\ CountInv
      /\ overrun' \in BOOLEAN /\ (overrun \/ LinkedInv)
  BY DEF DeploymentInv, TypedInv, CallsTyped
<1>2. late' \subseteq Archive!Creating /\ d \notin late' /\ Sane(canisters', r)
  BY <1>1 DEF CallsTyped, Archive!Creating
<1>3. CallsTyped' /\ call'[d] = r /\ \A e \in Calls : e # d => call'[e] = call[e]
  BY <1>1, <1>2, CallsFact
<1>4. TypedInv'
  BY <1>1, <1>3 DEF TypedInv, ArchiveTyped, CanistersTyped
<1>5. CountInv'
  <2>1. Pending' \subseteq Pending
    BY <1>3, PendingFact
  <2>2. (Open' => Open) /\ upgrades' \in 0..MaxArchiveUpgrades /\ days' \in 0..MaxDays
    BY <1>1 DEF Open, CountInv
  <2> QED
    BY <1>1, <1>4, <2>1, <2>2, CountStep DEF TypedInv
<1>6. ASSUME ~overrun'
      PROVE  LinkedInv' /\ Archive!ArchiveIsKeptStep /\ Archive!SuccessIsTrueStep
  <2>1. ~overrun /\ LinkedInv
    BY <1>1, <1>6
  <2>2. \A e \in Calls \ late' : Fits(archive', canisters', call'[e])
    BY <1>3, <2>1 DEF LinkedInv, CallsFit
  <2>3. \A b, e \in Calls \ late' :
           call'[b].at = "create" /\ call'[e].at = "create" => b = e
    BY <1>3, <2>1 DEF LinkedInv, CallsFit
  <2>4. LinkedInv'
    BY <2>1, <2>2, <2>3 DEF LinkedInv, CallsFit
  <2>5. Archive!ArchiveIsKeptStep
    BY DEF Archive!ArchiveIsKeptStep
  <2>6. Archive!SuccessIsTrueStep
    BY <1>3, <2>1 DEF Archive!SuccessIsTrueStep
  <2> QED
    BY <2>4, <2>5, <2>6
<1> QED
  BY <1>1, <1>4, <1>5, <1>6, GoodStep

LEMMA AgainStep ==
    ASSUME Archive!DeploymentAssumption, DeploymentInv, NEW d \in Calls, NEW wasm \in Modules,
           Archive!Free(d), Archive!DeployAgain(d, wasm), Beginning
    PROVE  DeploymentGood
<1>1. /\ TypedInv /\ ArchiveTyped /\ CanistersTyped /\ CallsTyped /\ CacheTyped
      /\ (overrun \/ LinkedInv)
  BY DEF DeploymentInv, TypedInv
<1>2. /\ archive.state = "Created" /\ archive' = archive /\ ~archive.old
  BY <1>1, UnlockedFact DEF Archive!DeployAgain, ArchiveTyped
<1>3. UNCHANGED <<archive, cache, canisters, upgrades, days, late, overrun>>
  BY <1>2 DEF Beginning
<1>4. CacheTyped' /\ (~overrun => CacheIsTrue') /\ call[d].at # "create"
  BY <1>1, <1>3 DEF CacheTyped, CacheIsTrue, LinkedInv, Archive!Free
<1>5. /\ archive.config \in Archive!Configs /\ archive.config \in Nowhere
      /\ archive.canister \in DOMAIN canisters /\ archive.canister \in Canisters \cup {None}
  BY <1>1, <1>2 DEF ArchiveTyped, Nowhere
<1>6. CASE cache # None
  <2> DEFINE r == Archive!Decided(wasm, archive.config, archive.canister, cache)
  <2>1. call' = [call EXCEPT ![d] = r]
    BY <1>6 DEF Archive!DeployAgain
  <2>2. cache \in Archive!Status
    BY <1>1, <1>6 DEF CacheTyped
  <2>3. Sane(canisters, r) /\ r.at # "create"
    BY <1>1, <1>5, <2>2, DecidedSane
  <2>4. ASSUME ~overrun
        PROVE  /\ Fits(archive, canisters, r)
               /\ r.at = "success" =>
                     /\ r.canister = archive.canister
                     /\ canisters[archive.canister] = archive.config
    <3>1. cache = archive.config => canisters[archive.canister] = archive.config
      BY <1>1, <1>6, <2>4 DEF LinkedInv, CacheIsTrue
    <3> QED
      BY <1>1, <1>2, <2>2, <3>1, DecidedFits
  <2> HIDE DEF r
  <2> QED
    BY <1>3, <1>4, <2>1, <2>3, <2>4, InsideStep
<1>7. CASE cache = None
  <2> DEFINE r == Archive!Wait("canister_status", archive.config, archive.canister, wasm, None)
  <2>1. call' = [call EXCEPT ![d] = r]
    BY <1>7 DEF Archive!DeployAgain
  <2>2. /\ r \in CallRecord /\ r.at = "canister_status" /\ r.answer = {}
        /\ r.config = archive.config /\ r.canister = archive.canister
    BY <1>5 DEF Archive!Wait, CallRecord
  <2> HIDE DEF r
  <2>3. Sane(canisters, r) /\ Fits(archive, canisters, r)
    BY <1>2, <1>5, <2>2 DEF Sane, Fits, InArchive
  <2> QED
    BY <1>3, <1>4, <2>1, <2>2, <2>3, InsideStep
<1> QED
  BY <1>6, <1>7

LEMMA CreatedStep ==
    ASSUME Archive!DeploymentAssumption, DeploymentInv, NEW d \in Calls, Archive!AfterCreate(d)
    PROVE  DeploymentGood
<1>1. /\ call[d].at = "create" /\ d \in Calls
      /\ TypedInv /\ ArchiveTyped /\ CanistersTyped /\ CallsTyped /\ CacheTyped /\ CountInv
      /\ overrun' = (overrun \/ d \in late) /\ late' = late \ {d}
      /\ UNCHANGED <<cache, canisters, upgrades, days>>
  BY DEF Archive!AfterCreate, Archive!Answered, Archive!Refused, DeploymentInv, TypedInv
<1>2. /\ call[d].config \in Archive!Configs /\ call[d].config \in Nowhere
      /\ call[d].config # Archive!Nothing
      /\ call[d].answer \subseteq DOMAIN canisters \cup {Archive!Rejected}
      /\ call[d].wasm \in Modules \cup {None}
  <2>1. Sane(canisters, call[d])
    BY <1>1 DEF CallsTyped
  <2> QED
    BY <1>1, <2>1, ConfigIsSomething DEF Sane, CallRecord
<1>3. late' \subseteq Archive!Creating /\ d \notin late' /\ overrun' \in BOOLEAN
  BY <1>1 DEF CallsTyped
<1>4. upgrades' \in 0..MaxArchiveUpgrades /\ days' \in 0..MaxDays
  BY <1>1 DEF CountInv
\* As long as no late call has continued, this one has the lock.
<1>5. ASSUME ~overrun'
      PROVE  /\ archive.state = "CreationInProgress" /\ cache = None /\ LinkedInv
             /\ call[d].config = archive.config
             /\ \A e \in Calls \ late' : e # d => /\ call[e].at # "create"
                                                  /\ Fits(archive', canisters', call[e])
             /\ CacheIsTrue' /\ Archive!ArchiveIsKeptStep
  <2>1. LinkedInv /\ d \notin late
    BY <1>1, <1>5 DEF DeploymentInv
  <2>2. Fits(archive, canisters, call[d])
    BY <2>1 DEF LinkedInv, CallsFit
  <2>3. archive.state = "CreationInProgress" /\ call[d].config = archive.config
    BY <1>1, <2>2 DEF Fits
  <2>4. cache = None
    BY <2>1, <2>3 DEF LinkedInv, CacheIsTrue
  <2>5. \A e \in Calls \ late' : e # d => call[e].at # "create" /\ Fits(archive, canisters, call[e])
    BY <1>1, <2>1 DEF LinkedInv, CallsFit
  <2>6. \A e \in Calls \ late' : e # d => Fits(archive', canisters', call[e])
    BY <1>1, <2>3, <2>5, BystandersFit
  <2> QED
    BY <1>1, <2>1, <2>3, <2>4, <2>5, <2>6 DEF CacheIsTrue, Archive!ArchiveIsKeptStep
<1>6. ASSUME NEW c \in call[d].answer, Archive!Answered(d, "create", c),
             archive' = Archive!Created(call[d].config, c),
             Archive!Goto(d, Archive!Wait("install", call[d].config, c, call[d].wasm, None))
      PROVE  DeploymentGood
  <2> DEFINE r == Archive!Wait("install", call[d].config, c, call[d].wasm, None)
  <2>1. call' = [call EXCEPT ![d] = r]
    BY <1>6 DEF Archive!Goto
  <2>2. c \in DOMAIN canisters /\ c \in Canisters /\ c # None
    BY <1>1, <1>2, <1>6 DEF Archive!Answered, CanistersTyped, Archive!DeploymentAssumption
  <2>3. /\ r \in CallRecord /\ r.at = "install" /\ r.answer = {}
        /\ r.config = call[d].config /\ r.canister = c
    BY <1>2, <2>2 DEF Archive!Wait, CallRecord
  <2>4. archive' = [state |-> "Created", config |-> call[d].config, canister |-> c, old |-> FALSE]
    BY <1>6 DEF Archive!Created
  <2> HIDE DEF r
  <2>5. Sane(canisters', r) /\ Fits(archive', canisters', r)
    BY <1>1, <1>2, <2>2, <2>3, <2>4 DEF Sane, Fits, InArchive
  <2>6. CallsTyped' /\ call'[d] = r /\ \A e \in Calls : e # d => call'[e] = call[e]
    BY <1>1, <1>3, <2>1, <2>5, CallsFact
  <2>7. ArchiveTyped'
    BY <1>1, <1>2, <2>2, <2>4 DEF ArchiveTyped
  <2>8. TypedInv'
    BY <1>1, <2>6, <2>7 DEF TypedInv, CanistersTyped, CacheTyped
  <2>9. CountInv'
    <3>1. Pending' \subseteq Pending
      BY <2>3, <2>6, PendingFact
    <3>2. ~Open'
      BY <2>4 DEF Open
    <3> QED
      BY <1>1, <1>4, <2>8, <3>1, <3>2, CountStep DEF TypedInv
  <2>10. ASSUME ~overrun'
         PROVE  LinkedInv' /\ Archive!ArchiveIsKeptStep /\ Archive!SuccessIsTrueStep
    <3>1. CallsFit'
      BY <1>5, <2>3, <2>5, <2>6, <2>10 DEF CallsFit
    <3>2. Archive!SuccessIsTrueStep
      BY <2>3, <2>6 DEF Archive!SuccessIsTrueStep
    <3> QED
      BY <1>5, <2>10, <3>1, <3>2 DEF LinkedInv
  <2> QED
    BY <1>3, <2>8, <2>9, <2>10, GoodStep
<1>7. ASSUME Archive!Refused(d, "create"),
             archive' = [state |-> "Configured", config |-> call[d].config,
                         canister |-> None, old |-> FALSE],
             Archive!Goto(d, Archive!Idle)
      PROVE  DeploymentGood
  <2>1. call' = [call EXCEPT ![d] = Archive!Idle] /\ call[d].answer = {Archive!Rejected}
    BY <1>7 DEF Archive!Goto, Archive!Refused
  <2>2. /\ Archive!Idle.at = "idle" /\ Sane(canisters', Archive!Idle)
        /\ Fits(archive', canisters', Archive!Idle)
    BY IdleFact
  <2>3. /\ CallsTyped' /\ call'[d] = Archive!Idle
        /\ \A e \in Calls : e # d => call'[e] = call[e]
    BY <1>1, <1>3, <2>1, <2>2, CallsFact
  <2>4. ArchiveTyped'
    BY <1>1, <1>2, <1>7 DEF ArchiveTyped
  <2>5. TypedInv'
    BY <1>1, <2>3, <2>4 DEF TypedInv, CanistersTyped, CacheTyped
  <2>6. CountInv'
    <3>1. d \in Pending /\ Pending' \subseteq Pending \ {d}
      BY <1>1, <2>1, <2>2, <2>3, PendingFact DEF Pending
    <3> QED
      BY <1>1, <1>4, <2>5, <3>1, CountStep DEF TypedInv
  <2>7. ASSUME ~overrun'
        PROVE  LinkedInv' /\ Archive!ArchiveIsKeptStep /\ Archive!SuccessIsTrueStep
    <3>1. CallsFit'
      BY <1>5, <2>2, <2>3, <2>7 DEF CallsFit
    <3>2. Archive!SuccessIsTrueStep
      BY <2>2, <2>3 DEF Archive!SuccessIsTrueStep
    <3> QED
      BY <1>5, <2>7, <3>1, <3>2 DEF LinkedInv
  <2> QED
    BY <1>3, <2>5, <2>6, <2>7, GoodStep
<1> QED
  BY <1>6, <1>7 DEF Archive!AfterCreate

LEMMA StatusStep ==
    ASSUME Archive!DeploymentAssumption, DeploymentInv, NEW d \in Calls, Archive!AfterStatus(d)
    PROVE  DeploymentGood
<1> DEFINE config == call[d].config
           c == call[d].canister
<1>1. /\ call[d].at \in {"canister_status", "status"}
      /\ UNCHANGED <<archive, canisters, upgrades, days, late, overrun>>
      /\ Sane(canisters, call[d]) /\ ArchiveTyped /\ CanistersTyped /\ CacheTyped
      /\ call[d].at # "create"
      /\ (d \in late => call[d].at = "create") /\ (overrun \/ LinkedInv)
  BY DEF Archive!AfterStatus, Archive!Answered, Archive!Refused, Archive!historyVars,
         DeploymentInv, TypedInv, CallsTyped, Archive!Creating
<1>2. /\ config \in Archive!Configs /\ c \in DOMAIN canisters
      /\ config \in Nowhere /\ c \in Canisters
      /\ config.module # None /\ config.init # None
      /\ call[d].wasm \in Modules \cup {None} /\ call[d].module \in Modules \cup {None}
      /\ canisters[c] \in Nowhere
  <2>1. config \in Archive!Configs /\ c \in DOMAIN canisters
    BY <1>1 DEF Sane, InArchive
  <2>2. call[d].wasm \in Modules \cup {None} /\ call[d].module \in Modules \cup {None}
    BY <1>1 DEF Sane, CallRecord
  <2> QED
    BY <1>1, <2>1, <2>2, ConfigIsSomething DEF CanistersTyped
<1>3. ASSUME ~overrun
      PROVE  /\ Fits(archive, canisters, call[d]) /\ CacheIsTrue
             /\ archive.state = "Created" /\ config = archive.config /\ c = archive.canister
  <2>1. Fits(archive, canisters, call[d]) /\ CacheIsTrue
    BY <1>1, <1>3 DEF LinkedInv, CallsFit
  <2> QED
    BY <1>1, <2>1 DEF Fits, InArchive
<1> HIDE DEF config, c
\* The status is known: the call decides.
<1>4. ASSUME NEW status \in Archive!Status, Archive!Known(d, status),
             ~overrun /\ status = archive.config => canisters[archive.canister] = archive.config
      PROVE  DeploymentGood
  <2> DEFINE r == Archive!Decided(call[d].wasm, config, c, status)
  <2>1. cache' = status /\ call' = [call EXCEPT ![d] = r]
    BY <1>4 DEF Archive!Known, Archive!Goto, config, c
  <2>2. Sane(canisters, r) /\ r.at # "create"
    BY <1>1, <1>2, DecidedSane
  <2>3. ASSUME ~overrun
        PROVE  /\ CacheIsTrue' /\ Fits(archive, canisters, r)
               /\ r.at = "success" =>
                     /\ r.canister = archive.canister
                     /\ canisters[archive.canister] = archive.config
    <3>1. CacheIsTrue'
      BY <1>1, <1>3, <1>4, <2>1, <2>3 DEF CacheIsTrue
    <3> QED
      BY <1>1, <1>2, <1>3, <1>4, <2>3, <3>1, DecidedFits
  <2>4. CacheTyped'
    BY <2>1 DEF CacheTyped
  <2> HIDE DEF r
  <2> QED
    BY <1>1, <2>1, <2>2, <2>3, <2>4, InsideStep
\* Or it does not decide yet.
<1>5. ASSUME NEW r, Archive!Goto(d, r), cache' = cache, Sane(canisters, r),
             ~overrun => Fits(archive, canisters, r), r.at \in {"idle", "status"}
      PROVE  DeploymentGood
  <2>1. CacheTyped' /\ (~overrun => CacheIsTrue')
    BY <1>1, <1>3, <1>5 DEF CacheTyped, CacheIsTrue
  <2> QED
    BY <1>1, <1>5, <2>1, InsideStep DEF Archive!Goto
<1>6. ASSUME call[d].at = "canister_status", call[d].answer = {None},
             Archive!Known(d, Archive!Nothing)
      PROVE  DeploymentGood
  <2>1. Archive!Nothing \in Archive!Status /\ Archive!Nothing.module = None
    BY DEF Archive!Nothing, Archive!Status
  <2>2. ~overrun => Archive!Nothing # archive.config
    BY <1>2, <1>3, <2>1
  <2> QED
    BY <1>4, <1>6, <2>1, <2>2
<1>7. ASSUME NEW x \in call[d].answer \ {None}, Archive!Answered(d, "canister_status", x),
             Archive!Goto(d, Archive!Wait("status", call[d].config, call[d].canister,
                                          call[d].wasm, x)),
             cache' = cache
      PROVE  DeploymentGood
  <2> DEFINE r == Archive!Wait("status", config, c, call[d].wasm, x)
  <2>1. /\ x \in Modules
        /\ ~overrun => Seen(archive, canisters, canisters[archive.canister].module, x)
    BY <1>1, <1>3, <1>7 DEF Archive!Answered, Sane, Fits, Outcome
  <2>2. /\ r \in CallRecord /\ r.at = "status" /\ r.answer = {} /\ r.module = x
        /\ r.config = config /\ r.canister = c
    BY <1>2, <2>1 DEF Archive!Wait, CallRecord
  <2>3. Archive!Goto(d, r)
    BY <1>7 DEF config, c
  <2> HIDE DEF r
  <2>4. Sane(canisters, r)
    BY <1>2, <2>2 DEF Sane, InArchive
  <2>5. ~overrun => Fits(archive, canisters, r)
    BY <1>3, <2>1, <2>2 DEF Fits, InArchive
  <2> QED
    BY <1>5, <1>7, <2>2, <2>3, <2>4, <2>5
<1>8. ASSUME Archive!Goto(d, Archive!Idle), cache' = cache
      PROVE  DeploymentGood
  <2>1. /\ Archive!Idle.at = "idle" /\ Sane(canisters, Archive!Idle)
        /\ Fits(archive, canisters, Archive!Idle)
    BY IdleFact
  <2> QED
    BY <1>5, <1>8, <2>1
<1>9. ASSUME NEW x \in call[d].answer, Archive!Answered(d, "status", x),
              Archive!Known(d, [module |-> call[d].module, init |-> x])
       PROVE  DeploymentGood
  <2> DEFINE status == [module |-> call[d].module, init |-> x]
  <2>1. x \in Inits \cup {None}
    BY <1>1, <1>9 DEF Archive!Answered, Sane, Outcome
  <2>2. status \in Archive!Status
    BY <1>2, <2>1 DEF Archive!Status
  <2>3. ASSUME ~overrun, status = archive.config
        PROVE  canisters[archive.canister] = archive.config
    <3>1. /\ Seen(archive, canisters, canisters[archive.canister].init, x)
          /\ Seen(archive, canisters, canisters[archive.canister].module, call[d].module)
      BY <1>3, <1>9, <2>3 DEF Archive!Answered, Fits
    <3>2. canisters[archive.canister] = [module |-> canisters[archive.canister].module,
                                         init |-> canisters[archive.canister].init]
      BY <1>2, <1>3, <2>3 DEF Nowhere, Archive!Configs, Archive!Nothing
    <3> QED
      BY <2>3, <3>1, <3>2 DEF Seen
  <2> HIDE DEF status
  <2> QED
    BY <1>4, <1>9, <2>2, <2>3 DEF status
<1>10. ASSUME Archive!Refused(d, "status"),
              Archive!Known(d, [module |-> call[d].module, init |-> None])
       PROVE  DeploymentGood
  <2> DEFINE status == [module |-> call[d].module, init |-> None]
  <2>1. status \in Archive!Status /\ status.init = None
    BY <1>2 DEF Archive!Status
  <2> HIDE DEF status
  <2>2. ~overrun => status # archive.config
    BY <1>2, <1>3, <2>1
  <2> QED
    BY <1>4, <1>10, <2>1, <2>2 DEF status
<1> QED
  BY <1>6, <1>7, <1>8, <1>9, <1>10 DEF Archive!AfterStatus

LEMMA InstalledStep ==
    ASSUME DeploymentInv, NEW d \in Calls, Archive!AfterInstall(d)
    PROVE  DeploymentGood
<1>1. /\ call[d].at = "install" /\ call[d].at # "create"
      /\ UNCHANGED <<archive, canisters, upgrades, days, late, overrun>>
      /\ Sane(canisters, call[d]) /\ CanistersTyped /\ CacheTyped
      /\ (d \in late => call[d].at = "create") /\ (overrun \/ LinkedInv)
  BY DEF Archive!AfterInstall, Archive!Answered, Archive!Refused, Archive!historyVars,
         DeploymentInv, TypedInv, CallsTyped, Archive!Creating
<1>2. ASSUME ~overrun
      PROVE  /\ Fits(archive, canisters, call[d]) /\ CacheIsTrue
             /\ call[d].canister = archive.canister
  <2>1. Fits(archive, canisters, call[d]) /\ CacheIsTrue
    BY <1>1, <1>2 DEF LinkedInv, CallsFit
  <2> QED
    BY <1>1, <2>1 DEF Fits, InArchive
<1>3. ASSUME Archive!Answered(d, "install", Archive!Done), cache' = None,
             Archive!Goto(d, Archive!Success(call[d].canister))
      PROVE  DeploymentGood
  <2> DEFINE r == Archive!Success(call[d].canister)
  <2>1. call' = [call EXCEPT ![d] = r]
    BY <1>3 DEF Archive!Goto
  <2>2. ~overrun => canisters[archive.canister] = archive.config
    BY <1>2, <1>3 DEF Archive!Answered, Fits
  <2>3. call[d].canister \in Canisters \cup {None}
    BY <1>1 DEF Sane, InArchive, CanistersTyped
  <2>4. /\ r.at = "success" /\ r.canister = call[d].canister
        /\ Sane(canisters, r) /\ Fits(archive, canisters, r)
    BY <2>3, IdleFact
  <2>5. CacheTyped' /\ CacheIsTrue'
    BY <1>3 DEF CacheTyped, CacheIsTrue
  <2> HIDE DEF r
  <2> QED
    BY <1>1, <1>2, <2>1, <2>2, <2>4, <2>5, InsideStep
<1>4. ASSUME Archive!Goto(d, Archive!Idle), cache' = cache
      PROVE  DeploymentGood
  <2>1. /\ Archive!Idle.at = "idle" /\ Sane(canisters, Archive!Idle)
        /\ Fits(archive, canisters, Archive!Idle)
    BY IdleFact
  <2>2. CacheTyped' /\ (~overrun => CacheIsTrue')
    BY <1>1, <1>2, <1>4 DEF CacheTyped, CacheIsTrue
  <2> QED
    BY <1>1, <1>4, <2>1, <2>2, InsideStep DEF Archive!Goto
<1> QED
  BY <1>3, <1>4 DEF Archive!AfterInstall

LEMMA DeploymentStep ==
    ASSUME Archive!DeploymentAssumption, DeploymentInv, [Archive!Next]_(Archive!vars)
    PROVE  DeploymentGood
<1>1. ASSUME NEW d \in Calls, Archive!Deploy(d)
      PROVE  DeploymentGood
  <2>1. PICK wasm \in Modules : \/ Archive!DeployRefused(d, wasm)
                                \/ Archive!DeployFirst(d, wasm)
                                \/ Archive!DeployAgain(d, wasm)
    BY <1>1 DEF Archive!Deploy
  <2>2. Archive!Free(d) /\ Beginning
    BY <1>1 DEF Archive!Deploy, Beginning
  <2> QED
    BY <2>1, <2>2, RefuseStep, LockStep, AgainStep
<1>2. CASE UNCHANGED Archive!vars
  <2>1. UNCHANGED <<archive, cache, call, canisters, upgrades, days, late, overrun>>
    BY <1>2 DEF Archive!vars, Archive!historyVars
  <2>2. TypedInv'
    BY <2>1 DEF DeploymentInv, TypedInv, ArchiveTyped, CanistersTyped, CallsTyped, CacheTyped,
                Archive!Creating
  <2>3. CountInv'
    BY <2>1 DEF DeploymentInv, CountInv, Pending, Open
  <2>4. (overrun \/ LinkedInv)'
    BY <2>1 DEF DeploymentInv, LinkedInv, CallsFit, CacheIsTrue
  <2> QED
    BY <2>1, <2>2, <2>3, <2>4
       DEF DeploymentGood, DeploymentInv, Archive!ArchiveIsKeptStep, Archive!SuccessIsTrueStep
<1> QED
  BY <1>1, <1>2, ExecuteStep, CreatedStep, StatusStep, InstalledStep, TimeStep, UpgradeStep
     DEF Archive!Next

LEMMA DeploymentInitially ==
    ASSUME Archive!DeploymentAssumption, Archive!Init
    PROVE  DeploymentInv
<1>1. /\ archive = [state |-> "NotConfigured", config |-> Archive!Nothing,
                    canister |-> None, old |-> FALSE]
      /\ cache = None /\ call = [d \in Calls |-> Archive!Idle]
      /\ DOMAIN canisters = {} /\ upgrades = 0 /\ days = 0 /\ late = {} /\ overrun = FALSE
  BY DEF Archive!Init
<1>2. /\ Archive!Idle.at = "idle" /\ Sane(canisters, Archive!Idle)
      /\ Fits(archive, canisters, Archive!Idle)
  BY IdleFact
<1>3. CallsTyped /\ CallsFit
  BY <1>1, <1>2 DEF CallsTyped, CallsFit
<1>4. ArchiveTyped /\ CacheTyped /\ CacheIsTrue
  BY <1>1 DEF ArchiveTyped, CacheTyped, CacheIsTrue, Nowhere
<1>5. CanistersTyped
  BY <1>1, FS_EmptySet DEF CanistersTyped
<1>6. CountInv
  <2>1. Pending = {} /\ Cardinality(Pending) = 0 /\ IsFiniteSet(Pending)
    BY <1>1, <1>2, FS_EmptySet DEF Pending
  <2>2. Cardinality(DOMAIN canisters) = 0
    BY <1>1, FS_EmptySet
  <2> QED
    BY <1>1, <2>1, <2>2 DEF CountInv, Archive!DeploymentAssumption
<1> QED
  BY <1>3, <1>4, <1>5, <1>6 DEF DeploymentInv, TypedInv, LinkedInv

LEMMA DeploymentIsSafe ==
    ASSUME Archive!DeploymentAssumption, DeploymentInv
    PROVE  Archive!TypeOK /\ Archive!OneCreates /\ Archive!CanistersAreNotWasted
<1>1. /\ ArchiveTyped /\ CanistersTyped /\ CallsTyped /\ CacheTyped /\ CountInv
      /\ (overrun \/ LinkedInv)
  BY DEF DeploymentInv, TypedInv
<1>2. ASSUME NEW d \in Calls
      PROVE  /\ call[d].at \in {"idle", "create", "canister_status", "status", "install", "success"}
             /\ ~Archive!Free(d) => call[d].config \in Archive!Configs
             /\ InArchive(call[d]) => call[d].canister \in DOMAIN canisters
  <2>1. Sane(canisters, call[d]) /\ call[d] \in CallRecord
    BY <1>1 DEF CallsTyped, Sane
  <2> QED
    BY <2>1 DEF CallRecord, Sane, InArchive, Archive!Free
<1>3. Archive!TypeOK
  BY <1>1, <1>2 DEF Archive!TypeOK, ArchiveTyped, CanistersTyped, CallsTyped, CacheTyped, CountInv,
                    Nowhere, InArchive, Archive!Creating
<1>4. Archive!OneCreates
  <2>1. ASSUME LinkedInv, NEW d \in Archive!Creating \ late
        PROVE  archive.state = "CreationInProgress" /\ Archive!Creating \ late = {d}
    BY <2>1 DEF LinkedInv, CallsFit, Fits, Archive!Creating
  <2> QED
    BY <1>1, <2>1 DEF Archive!OneCreates
<1>5. Archive!CanistersAreNotWasted
  <2>1. Cardinality(DOMAIN canisters) \in Nat /\ Cardinality(Pending) \in Nat /\ days \in Nat
    BY <1>1, FS_CardinalityType DEF CanistersTyped, CountInv
  <2>2. Cardinality(DOMAIN canisters) <= 1 + days
    BY <1>1, <2>1 DEF CountInv
  <2> QED
    BY <2>2, SameCardinalityOfCanisters DEF Archive!CanistersAreNotWasted
<1> QED
  BY <1>3, <1>4, <1>5

-----------------------------------------------------------------------------
(***************************************************************************)
(* What upgrades keep.                                                     *)
(*                                                                         *)
(* That an upgrade forgets nothing needs that stable memory has the header *)
(* of the heap (every operation flushes it) and that the anchors are in    *)
(* their range.                                                            *)
(***************************************************************************)

HeaderOf(n, salt, lo, hi) == [num_anchors |-> n, salt |-> salt, range |-> <<lo, hi>>]

IdentityInv ==
    /\ DOMAIN persistent = Identity!Fields /\ persistent = [f \in Identity!Fields |-> persistent[f]]
    /\ stable = [header |-> header, state |-> stable.state]
    /\ \E n, lo, hi \in Nat, salt \in {0, 1} :
          header = HeaderOf(n, salt, lo, hi) /\ (n > 0 => lo + n <= hi)

LEMMA SameCardinalityOfFields ==
    ASSUME NEW S
    PROVE  Identity!Cardinality(S) = Cardinality(S)
BY DEF Identity!Cardinality, Cardinality

LEMMA OneFieldChanges ==
    ASSUME NEW S, NEW x, S \subseteq {x}
    PROVE  Identity!Cardinality(S) <= 1
<1>1. IsFiniteSet({x}) /\ Cardinality({x}) = 1
  BY FS_Singleton
<1>2. Cardinality(S) <= Cardinality({x})
  BY <1>1, FS_Subset
<1> QED
  BY <1>1, <1>2, SameCardinalityOfFields

\* What is written before an upgrade is read after it.
LEMMA StateSurvives ==
    ASSUME DOMAIN persistent = Identity!Fields
    PROVE  LET loaded == Identity!Loaded(Identity!SavePersistentState)
           IN  \A f \in Identity!Fields : loaded[f] = persistent[f]
BY DEF Identity!Loaded, Identity!SavePersistentState, Identity!Storable, Identity!Restrict

\* The fields that the argument of an upgrade may change.
LEMMA FieldNames ==
    /\ "archive_state" \in Identity!Fields \ Identity!Statistics
    /\ Identity!Statistics \subseteq Identity!Fields
    /\ "oidc_configs" \in Identity!Fields
    /\ "assigned_user_number_range" \notin Identity!Fields
    /\ "archive_config" \notin Identity!Fields
BY DEF Identity!Fields, Identity!DefaultState, Identity!Statistics

LEMMA ArgFact ==
    ASSUME NEW p, NEW arg, NEW part1 \in Identity!Parts,
           DOMAIN arg \subseteq {part1, "assigned_user_number_range"}
    PROVE  LET q == Identity!ApplyInstallArg(p, arg)
               x == IF part1 = "archive_config" THEN "archive_state" ELSE part1
           IN  /\ \A f \in Identity!Fields : f # x => q[f] = p[f]
               /\ x \notin Identity!Statistics \cup {"oidc_configs"}
               /\ DOMAIN q = Identity!Fields /\ q = [f \in Identity!Fields |-> q[f]]
               /\ p["archive_state"].state = "Created" => q["archive_state"].state = "Created"
<1> DEFINE q == Identity!ApplyInstallArg(p, arg)
           x == IF part1 = "archive_config" THEN "archive_state" ELSE part1
<1>1. DOMAIN q = Identity!Fields /\ q = [f \in Identity!Fields |-> q[f]]
  BY DEF Identity!ApplyInstallArg
<1>2. x \notin Identity!Statistics \cup {"oidc_configs"}
  BY FieldNames DEF Identity!Parts
<1>3. part1 # "archive_state"
  BY FieldNames DEF Identity!Parts
<1>4. ASSUME NEW f \in Identity!Fields, f # x
      PROVE  q[f] = p[f]
  <2>1. f \notin DOMAIN arg
    BY <1>3, <1>4, FieldNames
  <2>2. ~(f = "archive_state" /\ "archive_config" \in DOMAIN arg)
    BY <1>4
  <2> QED
    BY <2>1, <2>2 DEF Identity!ApplyInstallArg
<1>5. p["archive_state"].state = "Created" => q["archive_state"].state = "Created"
  <2>1. CASE "archive_config" \in DOMAIN arg
    <3>1. q["archive_state"] = Identity!UpdatedArchive(p["archive_state"], arg["archive_config"])
      BY <2>1, FieldNames DEF Identity!ApplyInstallArg
    <3> QED
      BY <3>1 DEF Identity!UpdatedArchive, Identity!Archive
  <2>2. CASE "archive_config" \notin DOMAIN arg
    <3>1. "archive_state" \notin DOMAIN arg
      BY <1>3
    <3> QED
      BY <2>2, <3>1, FieldNames DEF Identity!ApplyInstallArg
  <2> QED
    BY <2>1, <2>2
<1> QED
  BY <1>1, <1>2, <1>4, <1>5

IdentityGood == IdentityInv' /\ Identity!NothingIsForgottenStep

\* An upgrade with a part of the configuration, or with a range besides.
LEMMA AcceptedUpgrade ==
    ASSUME Identity!CanisterAssumption, IdentityInv, NEW arg, NEW part1 \in Identity!Parts,
           DOMAIN arg \subseteq {part1, "assigned_user_number_range"},
           "assigned_user_number_range" \in DOMAIN arg =>
               arg["assigned_user_number_range"] \in Nat \X Nat,
           Identity!Upgrade(arg)
    PROVE  IdentityGood
<1> DEFINE loaded == Identity!Loaded(Identity!SavePersistentState)
           x == IF part1 = "archive_config" THEN "archive_state" ELSE part1
           h == Identity!HeaderWith(header, arg)
<1>1. /\ DOMAIN persistent = Identity!Fields
      /\ persistent = [f \in Identity!Fields |-> persistent[f]]
      /\ stable = [header |-> header, state |-> stable.state]
  BY DEF IdentityInv
<1>2. PICK n \in Nat, lo \in Nat, hi \in Nat, salt1 \in {0, 1} :
         header = HeaderOf(n, salt1, lo, hi) /\ (n > 0 => lo + n <= hi)
  BY DEF IdentityInv
<1>3. stable.header = header
  BY <1>1
<1>4. CASE ~Identity!ArgIsAccepted(header, arg)
  <2>1. UNCHANGED <<header, persistent, stable>>
    BY <1>3, <1>4 DEF Identity!Upgrade
  <2>2. IdentityInv'
    BY <2>1 DEF IdentityInv
  <2>3. {f \in Identity!Fields : persistent'[f] # persistent[f]} = {}
    BY <2>1
  <2>4. Identity!Cardinality({}) <= 1
    BY OneFieldChanges
  <2>5. header.num_anchors > 0 =>
           /\ header'.range[1] = header.range[1]
           /\ header.range[1] + header.num_anchors <= header'.range[2]
    BY <1>2, <2>1 DEF HeaderOf
  <2> QED
    BY <2>1, <2>2, <2>3, <2>4, <2>5 DEF IdentityGood, Identity!NothingIsForgottenStep
<1>5. CASE Identity!ArgIsAccepted(header, arg)
  <2>1. /\ header' = h /\ persistent' = Identity!ApplyInstallArg(loaded, arg)
        /\ stable' = [header |-> h, state |-> Identity!SavePersistentState]
    BY <1>3, <1>5 DEF Identity!Upgrade, Identity!Initialized
  <2>2. \A f \in Identity!Fields : loaded[f] = persistent[f]
    BY <1>1, StateSurvives
  <2> HIDE DEF loaded
  <2>3. /\ \A f \in Identity!Fields : f # x => persistent'[f] = loaded[f]
        /\ x \notin Identity!Statistics \cup {"oidc_configs"}
        /\ DOMAIN persistent' = Identity!Fields
        /\ persistent' = [f \in Identity!Fields |-> persistent'[f]]
        /\ loaded["archive_state"].state = "Created"
               => persistent'["archive_state"].state = "Created"
    BY <2>1, ArgFact
  <2>4. {f \in Identity!Fields : persistent'[f] # persistent[f]} \subseteq {x}
    BY <2>2, <2>3
  <2>5. persistent.archive_state.state = "Created" => persistent'.archive_state.state = "Created"
    BY <2>2, <2>3, FieldNames
  <2>6. \/ header' = header
        \/ \E lo2, hi2 \in Nat : /\ header' = HeaderOf(n, salt1, lo2, hi2)
                                 /\ n > 0 => lo2 = lo /\ hi2 - lo2 >= n
    <3>1. CASE "assigned_user_number_range" \in DOMAIN arg
      <4>1. PICK lo2 \in Nat, hi2 \in Nat : arg["assigned_user_number_range"] = <<lo2, hi2>>
        BY <3>1
      <4>2. header' = HeaderOf(n, salt1, lo2, hi2)
        BY <1>2, <2>1, <3>1, <4>1 DEF Identity!HeaderWith, HeaderOf
      <4>3. n > 0 => lo2 = lo /\ hi2 - lo2 >= n
        BY <1>2, <1>5, <3>1, <4>1 DEF Identity!ArgIsAccepted, Identity!RangeIsProper, HeaderOf
      <4> QED
        BY <4>2, <4>3
    <3>2. CASE "assigned_user_number_range" \notin DOMAIN arg
      BY <2>1, <3>2 DEF Identity!HeaderWith
    <3> QED
      BY <3>1, <3>2
  <2>7. \E lo2, hi2 \in Nat : /\ header' = HeaderOf(n, salt1, lo2, hi2)
                              /\ n > 0 => lo2 = lo /\ lo2 + n <= hi2
    BY <1>2, <2>6
  <2>8. PICK lo2 \in Nat, hi2 \in Nat : /\ header' = HeaderOf(n, salt1, lo2, hi2)
                                        /\ n > 0 => lo2 = lo /\ lo2 + n <= hi2
    BY <2>7
  <2>9. IdentityInv'
    BY <2>1, <2>3, <2>8 DEF IdentityInv
  <2>10. /\ header'.salt = header.salt /\ header'.num_anchors = header.num_anchors
         /\ header.num_anchors > 0 =>
               /\ header'.range[1] = header.range[1]
               /\ header.range[1] + header.num_anchors <= header'.range[2]
    BY <1>2, <2>8 DEF HeaderOf
  <2> HIDE DEF x
  <2>11. Identity!Cardinality({f \in Identity!Fields : persistent'[f] # persistent[f]}) <= 1
    BY <2>4, OneFieldChanges
  <2>12. {f \in Identity!Fields : persistent'[f] # persistent[f]}
             \cap (Identity!Statistics \cup {"oidc_configs"}) = {}
    BY <2>3, <2>4
  <2> QED
    BY <2>5, <2>9, <2>10, <2>11, <2>12 DEF IdentityGood, Identity!NothingIsForgottenStep
<1> QED
  BY <1>4, <1>5

\* Counting changes one of the statistics, and no other part.
LEMMA StatisticsStep ==
    ASSUME IdentityInv, Identity!Count
    PROVE  /\ persistent' = [f \in Identity!Fields |-> persistent'[f]]
           /\ DOMAIN persistent' = Identity!Fields
           /\ persistent'.archive_state = persistent.archive_state
           /\ persistent'.related_origins = persistent.related_origins
           /\ persistent'.openid_configs = persistent.openid_configs
           /\ persistent'.sso_discoverable_domains = persistent.sso_discoverable_domains
           /\ persistent'.oidc_configs = persistent.oidc_configs
<1>1. PICK f \in Identity!Statistics : persistent' = [persistent EXCEPT ![f] = uses + 1]
  BY DEF Identity!Count
<1>2. DOMAIN persistent = Identity!Fields /\ persistent = [g \in Identity!Fields |-> persistent[g]]
  BY DEF IdentityInv
<1>3. /\ {"archive_state", "related_origins", "openid_configs",
          "sso_discoverable_domains", "oidc_configs"} \subseteq Identity!Fields
      /\ f \notin {"archive_state", "related_origins", "openid_configs",
                   "sso_discoverable_domains", "oidc_configs"}
  BY DEF Identity!Fields, Identity!DefaultState, Identity!Statistics
<1> HIDE DEF Identity!Fields
<1> QED
  BY <1>1, <1>2, <1>3

\* The calls that change the configuration or the header.
LEMMA UseStep ==
    ASSUME IdentityInv,
           \/ Identity!AllocateAnchor \/ Identity!UpdateSalt \/ Identity!Sign
           \/ Identity!AddOidcConfig \/ Identity!Count \/ Identity!DeployArchive
    PROVE  IdentityGood
<1>1. upgrades' = upgrades
  BY DEF Identity!AllocateAnchor, Identity!UpdateSalt, Identity!Sign, Identity!AddOidcConfig,
         Identity!Count, Identity!DeployArchive, Identity!Use
<1>2. /\ DOMAIN persistent' = Identity!Fields
      /\ persistent' = [f \in Identity!Fields |-> persistent'[f]]
  BY StatisticsStep DEF IdentityInv, Identity!AllocateAnchor, Identity!UpdateSalt, Identity!Sign,
                   Identity!AddOidcConfig, Identity!DeployArchive
<1>3. PICK n \in Nat, lo \in Nat, hi \in Nat, salt1 \in {0, 1} :
         header = HeaderOf(n, salt1, lo, hi) /\ (n > 0 => lo + n <= hi)
  BY DEF IdentityInv
<1>4. CASE Identity!AllocateAnchor
  <2>1. /\ header' = HeaderOf(n + 1, salt1, lo, hi) /\ lo + (n + 1) <= hi
    BY <1>3, <1>4 DEF Identity!AllocateAnchor, HeaderOf
  <2>2. stable' = [header |-> header', state |-> stable'.state]
    BY <1>4 DEF IdentityInv, Identity!AllocateAnchor
  <2>3. \E m, lo2, hi2 \in Nat, salt2 \in {0, 1} :
            header' = HeaderOf(m, salt2, lo2, hi2) /\ (m > 0 => lo2 + m <= hi2)
    <3>1. n + 1 \in Nat
      OBVIOUS
    <3> QED
      BY <2>1, <3>1
  <2>4. IdentityInv'
    BY <1>2, <2>2, <2>3 DEF IdentityInv
  <2> QED
    BY <1>1, <2>4 DEF IdentityGood, Identity!NothingIsForgottenStep
<1>5. CASE Identity!UpdateSalt
  <2>1. header' = HeaderOf(n, 1, lo, hi)
    BY <1>3, <1>5 DEF Identity!UpdateSalt, HeaderOf
  <2>2. stable' = [header |-> header', state |-> stable'.state]
    BY <1>5 DEF IdentityInv, Identity!UpdateSalt
  <2> QED
    BY <1>1, <1>2, <1>3, <2>1, <2>2 DEF IdentityGood, IdentityInv, Identity!NothingIsForgottenStep
<1>6. CASE UNCHANGED <<header, stable>>
  BY <1>1, <1>2, <1>3, <1>6 DEF IdentityGood, IdentityInv, Identity!NothingIsForgottenStep
<1> QED
  BY <1>4, <1>5, <1>6 DEF Identity!Sign, Identity!AddOidcConfig, Identity!Count,
                          Identity!DeployArchive

LEMMA IdentityStep ==
    ASSUME Identity!CanisterAssumption, IdentityInv, [Identity!Next]_(Identity!vars)
    PROVE  IdentityGood
<1>1. CASE UNCHANGED Identity!vars
  BY <1>1 DEF Identity!vars, IdentityGood, IdentityInv, Identity!NothingIsForgottenStep
<1>2. CASE Identity!Upgrade(<<>>)
  <2>1. DOMAIN <<>> = {} /\ "captcha_config" \in Identity!Parts
    BY DEF Identity!Parts, Identity!Statistics, Identity!Fields, Identity!DefaultState
  <2> QED
    BY <1>2, <2>1, AcceptedUpgrade
<1>3. ASSUME NEW part1 \in Identity!Parts, NEW x \in Identity!Given(part1),
             \/ Identity!Upgrade([p \in {part1} |-> x])
             \/ \E r \in PairedRanges :
                   /\ part1 # "assigned_user_number_range"
                   /\ Identity!Upgrade([p \in {part1, "assigned_user_number_range"} |->
                                            IF p = part1 THEN x ELSE r])
      PROVE  IdentityGood
  <2>1. part1 = "assigned_user_number_range" => x \in Nat \X Nat
    BY <1>3 DEF Identity!Given, Identity!CanisterAssumption
  <2>2. CASE Identity!Upgrade([p \in {part1} |-> x])
    <3> DEFINE arg == [p \in {part1} |-> x]
    <3>1. /\ DOMAIN arg \subseteq {part1, "assigned_user_number_range"}
          /\ "assigned_user_number_range" \in DOMAIN arg =>
                arg["assigned_user_number_range"] \in Nat \X Nat
      BY <2>1
    <3> HIDE DEF arg
    <3>2. Identity!Upgrade(arg)
      BY <2>2 DEF arg
    <3> QED
      BY <3>1, <3>2, AcceptedUpgrade
  <2>3. ASSUME NEW r \in PairedRanges, part1 # "assigned_user_number_range",
               Identity!Upgrade([p \in {part1, "assigned_user_number_range"} |->
                                     IF p = part1 THEN x ELSE r])
        PROVE  IdentityGood
    <3> DEFINE arg == [p \in {part1, "assigned_user_number_range"} |->
                           IF p = part1 THEN x ELSE r]
    <3>0. r \in Nat \X Nat
      BY <2>3 DEF Identity!CanisterAssumption
    <3>1. /\ DOMAIN arg \subseteq {part1, "assigned_user_number_range"}
          /\ "assigned_user_number_range" \in DOMAIN arg =>
                arg["assigned_user_number_range"] \in Nat \X Nat
      BY <2>3, <3>0
    <3> HIDE DEF arg
    <3>2. Identity!Upgrade(arg)
      BY <2>3 DEF arg
    <3> QED
      BY <3>1, <3>2, AcceptedUpgrade
  <2> QED
    BY <1>3, <2>2, <2>3
<1> QED
  BY <1>1, <1>2, <1>3, UseStep DEF Identity!Next

LEMMA IdentityInitially ==
    ASSUME Identity!CanisterAssumption, Identity!Init
    PROVE  IdentityInv
<1>1. PICK n \in {0, 1} : \E s :
         LET old == [header |-> [Identity!NewHeader EXCEPT !.num_anchors = n], state |-> s]
             c == Identity!Initialized(old.header, Identity!Loaded(old.state), <<>>)
         IN  stable = old /\ header = c.header /\ persistent = c.persistent
  BY DEF Identity!Init, Identity!NewHeader
<1>2. PICK s :
         LET old == [header |-> [Identity!NewHeader EXCEPT !.num_anchors = n], state |-> s]
             c == Identity!Initialized(old.header, Identity!Loaded(old.state), <<>>)
         IN  stable = old /\ header = c.header /\ persistent = c.persistent
  BY <1>1
<1> DEFINE h == [Identity!NewHeader EXCEPT !.num_anchors = n]
<1>3. DOMAIN <<>> = {}
  OBVIOUS
<1>4. h = HeaderOf(n, 0, 1, 1 + MAX_ENTRIES)
  BY DEF Identity!NewHeader, Identity!EMPTY_SALT, Identity!FIRST_ANCHOR_NUMBER, HeaderOf
<1>5. header = h /\ stable = [header |-> h, state |-> s]
  BY <1>2, <1>3 DEF Identity!Initialized, Identity!HeaderWith
<1>6. /\ DOMAIN persistent = Identity!Fields
      /\ persistent = [f \in Identity!Fields |-> persistent[f]]
  BY <1>2 DEF Identity!Initialized, Identity!ApplyInstallArg
<1>7. MAX_ENTRIES \in Nat /\ 1 + MAX_ENTRIES \in Nat /\ (n > 0 => 1 + n <= 1 + MAX_ENTRIES)
  BY DEF Identity!CanisterAssumption
<1> HIDE DEF h
<1> QED
  BY <1>4, <1>5, <1>6, <1>7 DEF IdentityInv

-----------------------------------------------------------------------------
(***************************************************************************)
(* What the canister reports of its configuration.                         *)
(*                                                                         *)
(* The reported configuration has the range, whose size was checked when   *)
(* it was set, and the SSO domains as they are kept, in canonical form.    *)
(***************************************************************************)

ReportInv ==
    /\ header.range[1] <= header.range[2]
    /\ header.range[2] - header.range[1] <= MAX_ENTRIES
    /\ \E s, c : persistent.archive_state = Identity!Archive(s, c)
    /\ \/ persistent.sso_discoverable_domains = None
       \/ \E S : persistent.sso_discoverable_domains = {Identity!Canonical(d) : d \in S}

LEMMA CanonicalOnce ==
    ASSUME NEW S
    PROVE  LET names == {Identity!Canonical(d) : d \in S}
           IN  {Identity!Canonical(d) : d \in names} = names
<1>1. ASSUME NEW d
      PROVE  Identity!Canonical(Identity!Canonical(d)) = Identity!Canonical(d)
  BY DEF Identity!Canonical
<1> QED
  BY <1>1

LEMMA ReportIsKept ==
    ASSUME IdentityInv, ReportInv
    PROVE  Identity!ReportedConfigIsKept
<1> DEFINE arg == Identity!Config(header, persistent)
           q == Identity!ApplyInstallArg(persistent, arg)
           range1 == "assigned_user_number_range"
<1>1. PICK n \in Nat, lo \in Nat, hi \in Nat, salt1 \in {0, 1} :
         header = HeaderOf(n, salt1, lo, hi) /\ (n > 0 => lo + n <= hi)
  BY DEF IdentityInv
<1>2. /\ range1 \in DOMAIN arg /\ arg[range1] = header.range
      /\ \A p \in DOMAIN arg : p \in {range1, "archive_config"} \cup (Identity!Parts \cap Identity!Fields)
      /\ "archive_config" \in DOMAIN arg => arg["archive_config"] = persistent.archive_state.config
      /\ \A f \in DOMAIN arg : f \notin {range1, "archive_config"} => arg[f] = persistent[f]
      /\ persistent.sso_discoverable_domains = None => "sso_discoverable_domains" \notin DOMAIN arg
      /\ persistent.archive_state.state = "NotConfigured" => "archive_config" \notin DOMAIN arg
  BY FieldNames DEF Identity!Config
<1> HIDE DEF arg
<1>3. Identity!ArgIsAccepted(header, arg)
  BY <1>1, <1>2 DEF Identity!ArgIsAccepted, Identity!RangeIsProper, HeaderOf, ReportInv
<1>4. Identity!HeaderWith(header, arg) = header
  BY <1>1, <1>2 DEF Identity!HeaderWith, HeaderOf
<1>5. ASSUME NEW f \in Identity!Fields
      PROVE  q[f] = persistent[f]
  <2>1. CASE f = "archive_state" /\ "archive_config" \in DOMAIN arg
    <3>1. PICK s, c : persistent.archive_state = Identity!Archive(s, c)
      BY DEF ReportInv
    <3>2. q[f] = Identity!UpdatedArchive(persistent.archive_state, c)
      BY <1>2, <2>1, <3>1 DEF Identity!ApplyInstallArg, Identity!Archive
    <3>3. s # "NotConfigured"
      BY <1>2, <2>1, <3>1 DEF Identity!Archive
    <3> QED
      BY <2>1, <3>1, <3>2, <3>3 DEF Identity!UpdatedArchive, Identity!Archive
  <2>2. CASE f \notin DOMAIN arg /\ ~(f = "archive_state" /\ "archive_config" \in DOMAIN arg)
    BY <2>2 DEF Identity!ApplyInstallArg
  <2>3. CASE /\ f \in DOMAIN arg /\ f = "sso_discoverable_domains"
             /\ ~(f = "archive_state" /\ "archive_config" \in DOMAIN arg)
    <3>1. PICK S : persistent.sso_discoverable_domains = {Identity!Canonical(d) : d \in S}
      BY <1>2, <2>3 DEF ReportInv
    <3>2. arg[f] = {Identity!Canonical(d) : d \in S}
      BY <1>2, <2>3, <3>1, FieldNames
    <3>3. q[f] = {Identity!Canonical(d) : d \in arg[f]}
      BY <2>3 DEF Identity!ApplyInstallArg
    <3>4. q[f] = {Identity!Canonical(d) : d \in S}
      BY <3>2, <3>3, CanonicalOnce
    <3> QED
      BY <2>3, <3>1, <3>4
  <2>4. CASE /\ f \in DOMAIN arg /\ f # "sso_discoverable_domains"
             /\ ~(f = "archive_state" /\ "archive_config" \in DOMAIN arg)
    <3>1. q[f] = arg[f]
      BY <2>4 DEF Identity!ApplyInstallArg
    <3> QED
      BY <1>2, <2>4, <3>1, FieldNames
  <2> QED
    BY <2>1, <2>2, <2>3, <2>4
<1>6. q = persistent
  <2>1. q = [f \in Identity!Fields |-> q[f]]
    BY DEF Identity!ApplyInstallArg
  <2>2. persistent = [f \in Identity!Fields |-> persistent[f]]
    BY DEF IdentityInv
  <2> HIDE DEF q
  <2> QED
    BY <1>5, <2>1, <2>2
<1> QED
  BY <1>3, <1>4, <1>6 DEF Identity!ReportedConfigIsKept, arg

\* Arguments keep the forms of what is reported.
LEMMA ArgKeepsForms ==
    ASSUME NEW p, NEW arg, DOMAIN arg \subseteq Identity!Parts,
           \E s, c : p["archive_state"] = Identity!Archive(s, c),
           \/ p["sso_discoverable_domains"] = None
           \/ \E S : p["sso_discoverable_domains"] = {Identity!Canonical(d) : d \in S}
    PROVE  LET q == Identity!ApplyInstallArg(p, arg)
           IN  /\ \E s, c : q["archive_state"] = Identity!Archive(s, c)
               /\ \/ q["sso_discoverable_domains"] = None
                  \/ \E S : q["sso_discoverable_domains"] = {Identity!Canonical(d) : d \in S}
<1> DEFINE q == Identity!ApplyInstallArg(p, arg)
<1>1. "archive_state" \notin DOMAIN arg
  BY FieldNames DEF Identity!Parts
<1>2. "sso_discoverable_domains" \in Identity!Fields
  BY DEF Identity!Fields, Identity!DefaultState
<1>3. \E s, c : q["archive_state"] = Identity!Archive(s, c)
  BY <1>1, FieldNames DEF Identity!ApplyInstallArg, Identity!UpdatedArchive
<1>4. \/ q["sso_discoverable_domains"] = None
      \/ \E S : q["sso_discoverable_domains"] = {Identity!Canonical(d) : d \in S}
  <2>1. CASE "sso_discoverable_domains" \in DOMAIN arg
    BY <1>2, <2>1 DEF Identity!ApplyInstallArg
  <2>2. CASE "sso_discoverable_domains" \notin DOMAIN arg
    BY <1>2, <2>2 DEF Identity!ApplyInstallArg
  <2> QED
    BY <2>1, <2>2
<1> QED
  BY <1>3, <1>4

LEMMA UpgradeKeepsReport ==
    ASSUME IdentityInv, ReportInv, NEW arg, DOMAIN arg \subseteq Identity!Parts,
           Identity!Upgrade(arg)
    PROVE  ReportInv'
<1> DEFINE loaded == Identity!Loaded(Identity!SavePersistentState)
<1>1. CASE ~Identity!ArgIsAccepted(stable.header, arg)
  BY <1>1 DEF Identity!Upgrade, ReportInv
<1>2. CASE Identity!ArgIsAccepted(stable.header, arg)
  <2>1. /\ header' = Identity!HeaderWith(header, arg)
        /\ persistent' = Identity!ApplyInstallArg(loaded, arg)
        /\ Identity!ArgIsAccepted(header, arg)
    BY <1>2 DEF Identity!Upgrade, Identity!Initialized, IdentityInv
  <2>2. /\ "archive_state" \in Identity!Fields
        /\ "sso_discoverable_domains" \in Identity!Fields
    BY DEF Identity!Fields, Identity!DefaultState
  <2>3. \A f \in Identity!Fields : loaded[f] = persistent[f]
    BY StateSurvives DEF IdentityInv
  <2> HIDE DEF loaded
  <2>4. /\ \E s, c : loaded["archive_state"] = Identity!Archive(s, c)
        /\ \/ loaded["sso_discoverable_domains"] = None
           \/ \E S : loaded["sso_discoverable_domains"] = {Identity!Canonical(d) : d \in S}
    BY <2>2, <2>3 DEF ReportInv
  <2>5. /\ \E s, c : persistent'["archive_state"] = Identity!Archive(s, c)
        /\ \/ persistent'["sso_discoverable_domains"] = None
           \/ \E S : persistent'["sso_discoverable_domains"] = {Identity!Canonical(d) : d \in S}
    BY <2>1, <2>4, ArgKeepsForms
  <2>6. /\ header'.range[1] <= header'.range[2]
        /\ header'.range[2] - header'.range[1] <= MAX_ENTRIES
    <3>1. PICK n \in Nat, lo \in Nat, hi \in Nat, salt1 \in {0, 1} :
             header = HeaderOf(n, salt1, lo, hi)
      BY DEF IdentityInv
    <3>2. CASE "assigned_user_number_range" \in DOMAIN arg
      <4>1. header'.range = arg["assigned_user_number_range"]
        BY <2>1, <3>1, <3>2 DEF Identity!HeaderWith, HeaderOf
      <4> QED
        BY <2>1, <3>2, <4>1 DEF Identity!ArgIsAccepted, Identity!RangeIsProper
    <3>3. CASE "assigned_user_number_range" \notin DOMAIN arg
      BY <2>1, <3>3 DEF Identity!HeaderWith, ReportInv
    <3> QED
      BY <3>2, <3>3
  <2> QED
    BY <2>5, <2>6 DEF ReportInv
<1> QED
  BY <1>1, <1>2

LEMMA ReportStep ==
    ASSUME IdentityInv, ReportInv, [Identity!Next]_(Identity!vars)
    PROVE  ReportInv'
<1>1. CASE UNCHANGED Identity!vars
  BY <1>1 DEF Identity!vars, ReportInv
<1>2. CASE Identity!Upgrade(<<>>)
  <2>1. DOMAIN <<>> = {}
    OBVIOUS
  <2> QED
    BY <1>2, <2>1, UpgradeKeepsReport
<1>3. ASSUME NEW part1 \in Identity!Parts, NEW x, Identity!Upgrade([p \in {part1} |-> x])
      PROVE  ReportInv'
  <2>1. DOMAIN [p \in {part1} |-> x] \subseteq Identity!Parts
    OBVIOUS
  <2> QED
    BY <1>3, <2>1, UpgradeKeepsReport
<1>4. ASSUME NEW part1 \in Identity!Parts, NEW x, NEW r,
             Identity!Upgrade([p \in {part1, "assigned_user_number_range"} |->
                                   IF p = part1 THEN x ELSE r])
      PROVE  ReportInv'
  <2> DEFINE arg == [p \in {part1, "assigned_user_number_range"} |->
                         IF p = part1 THEN x ELSE r]
  <2>1. DOMAIN arg \subseteq Identity!Parts
    BY DEF Identity!Parts
  <2>2. Identity!Upgrade(arg)
    BY <1>4
  <2> HIDE DEF arg
  <2> QED
    BY <2>1, <2>2, UpgradeKeepsReport
<1>5. PICK n \in Nat, lo \in Nat, hi \in Nat, salt1 \in {0, 1} :
         header = HeaderOf(n, salt1, lo, hi)
  BY DEF IdentityInv
<1>6. CASE Identity!AllocateAnchor \/ Identity!UpdateSalt
  <2>1. header'.range = header.range /\ persistent' = persistent
    BY <1>5, <1>6 DEF Identity!AllocateAnchor, Identity!UpdateSalt, HeaderOf
  <2> QED
    BY <2>1 DEF ReportInv
<1>7. CASE Identity!Sign
  BY <1>7 DEF Identity!Sign, ReportInv
<1>8. CASE Identity!AddOidcConfig \/ Identity!Count \/ Identity!DeployArchive
  <2>1. /\ "archive_state" \in DOMAIN persistent /\ "sso_discoverable_domains" \in DOMAIN persistent
    BY DEF IdentityInv, Identity!Fields, Identity!DefaultState
  <2>2. /\ header' = header
        /\ persistent'.sso_discoverable_domains = persistent.sso_discoverable_domains
    BY <1>8, <2>1, StatisticsStep DEF Identity!AddOidcConfig, Identity!Count, Identity!DeployArchive
  <2>3. PICK s, c : persistent.archive_state = Identity!Archive(s, c)
    BY DEF ReportInv
  <2>4. \/ persistent'.archive_state = persistent.archive_state
        \/ persistent'.archive_state = Identity!Archive("Created", c)
    BY <1>8, <2>1, <2>3, StatisticsStep
       DEF Identity!AddOidcConfig, Identity!DeployArchive, Identity!Archive
  <2> QED
    BY <2>2, <2>3, <2>4 DEF ReportInv
<1> DEFINE Single(q, y) == Identity!Upgrade([p \in {q} |-> y])
           Paired(q, y, z) == Identity!Upgrade([p \in {q, "assigned_user_number_range"} |->
                                                    IF p = q THEN y ELSE z])
<1>9. \/ UNCHANGED Identity!vars
      \/ Identity!Upgrade(<<>>)
      \/ \E q \in Identity!Parts : \E y : Single(q, y)
      \/ \E q \in Identity!Parts : \E y, z : Paired(q, y, z)
      \/ Identity!AllocateAnchor \/ Identity!UpdateSalt \/ Identity!Sign
      \/ Identity!AddOidcConfig \/ Identity!Count \/ Identity!DeployArchive
  <2>1. ASSUME NEW q \in Identity!Parts, NEW y \in Identity!Given(q),
               \/ Single(q, y)
               \/ \E z \in PairedRanges : /\ q # "assigned_user_number_range"
                                          /\ Paired(q, y, z)
        PROVE  \/ \E q1 \in Identity!Parts : \E y1 : Single(q1, y1)
               \/ \E q1 \in Identity!Parts : \E y1, z1 : Paired(q1, y1, z1)
    <3> HIDE DEF Single, Paired
    <3> QED
      BY <2>1
  <2> QED
    BY <2>1, Zenon DEF Identity!Next
<1>10. ASSUME NEW q \in Identity!Parts, NEW y, Single(q, y)
       PROVE  ReportInv'
  BY <1>3, <1>10
<1>11. ASSUME NEW q \in Identity!Parts, NEW y, NEW z, Paired(q, y, z)
       PROVE  ReportInv'
  BY <1>4, <1>11
<1> HIDE DEF Single, Paired
<1> QED
  BY <1>1, <1>2, <1>6, <1>7, <1>8, <1>9, <1>10, <1>11

LEMMA ReportInitially ==
    ASSUME Identity!CanisterAssumption, Identity!Init
    PROVE  ReportInv
<1>1. PICK n \in {0, 1}, s \in {Identity!Storable(Identity!DefaultState)}
                                  \cup {Identity!OldState(v) : v \in Values} :
         /\ header = [Identity!NewHeader EXCEPT !.num_anchors = n]
         /\ persistent = Identity!ApplyInstallArg(Identity!Loaded(s), <<>>)
  BY DEF Identity!Init, Identity!NewHeader, Identity!Initialized, Identity!HeaderWith
<1>2. header.range = <<1, 1 + MAX_ENTRIES>>
  BY <1>1 DEF Identity!NewHeader, Identity!FIRST_ANCHOR_NUMBER
<1>3. header.range[1] <= header.range[2] /\ header.range[2] - header.range[1] <= MAX_ENTRIES
  BY <1>2 DEF Identity!CanisterAssumption
<1>4. /\ persistent = Identity!Loaded(s)
      /\ "archive_state" \in Identity!Fields /\ "sso_discoverable_domains" \in Identity!Fields
  <2>1. DOMAIN <<>> = {}
    OBVIOUS
  <2> QED
    BY <1>1, <2>1, FieldNames
       DEF Identity!ApplyInstallArg, Identity!Loaded, Identity!Fields, Identity!DefaultState
<1>5. CASE s = Identity!Storable(Identity!DefaultState)
  BY <1>3, <1>4, <1>5 DEF ReportInv, Identity!Loaded, Identity!Storable, Identity!Restrict,
     Identity!DefaultState, Identity!Fields, Identity!Archive
<1>6. ASSUME NEW v, s = Identity!OldState(v)
      PROVE  ReportInv
  <2>1. s.archive_state = Identity!Archive("Created", v) /\ "archive_state" \in DOMAIN s
        /\ "sso_discoverable_domains" \notin DOMAIN s
    BY <1>6 DEF Identity!OldState, Identity!OldFields, Identity!Statistics, Identity!Restrict,
       Identity!DefaultState, Identity!Archive
  <2>2. /\ persistent.archive_state = Identity!Archive("Created", v)
        /\ persistent.sso_discoverable_domains = None
    BY <1>4, <2>1 DEF Identity!Loaded, Identity!DefaultState
  <2> QED
    BY <1>3, <2>2 DEF ReportInv
<1> QED
  BY <1>1, <1>5, <1>6

-----------------------------------------------------------------------------
(***************************************************************************)
(* The library of certified assets, which the canister and the dapp use.   *)
(***************************************************************************)

Assets == INSTANCE CertifiedAssets

-----------------------------------------------------------------------------
(***************************************************************************)
(* Certifying assets is a fold, a recursive function on the subsets of     *)
(* their indices.                                                          *)
(***************************************************************************)

Folds(as, sh, g) ==
    g = [s \in SUBSET DOMAIN as |->
            IF s = {} THEN Assets!NoAssets(sh)
            ELSE Assets!CertifyAsset(g[s \ {Max(s)}], as[Max(s)], sh)]

LEMMA FoldExists ==
    ASSUME NEW as, NEW sh, NEW n \in Nat, DOMAIN as = 1..n
    PROVE  \E g : Folds(as, sh, g)
<1> DEFINE First(g, s) ==
               IF s = {} THEN Assets!NoAssets(sh)
               ELSE Assets!CertifyAsset(g[s \ {Max(s)}], as[Max(s)], sh)
           Right(g, s) == g[s] = First(g, s)
           B == {m \in Nat : \E g : \A s \in SUBSET (1..n) : Cardinality(s) <= m => Right(g, s)}
<1>0. IsFiniteSet(1..n) /\ Cardinality(1..n) = n
  BY FS_Interval
<1>1. \A s \in SUBSET (1..n) : IsFiniteSet(s) /\ Cardinality(s) \in Nat /\ Cardinality(s) <= n
  BY <1>0, FS_Subset, FS_CardinalityType
<1>2. \A s \in SUBSET (1..n) : s # {} => Max(s) \in s
  <2> SUFFICES ASSUME NEW s \in SUBSET (1..n), s # {} PROVE Max(s) \in s
    OBVIOUS
  <2>1. s \in SUBSET (0..n) /\ n \in Int
    OBVIOUS
  <2> QED
    BY <2>1, MaxNat
<1>3. 0 \in B
  <2>1. \A s \in SUBSET (1..n) : Cardinality(s) <= 0 => s = {}
    BY <1>1, FS_EmptySet
  <2> DEFINE h == [t \in SUBSET (1..n) |-> Assets!NoAssets(sh)]
  <2>2. \A s \in SUBSET (1..n) : Cardinality(s) <= 0 => Right(h, s)
    BY <2>1
  <2> HIDE DEF h
  <2> QED
    BY <2>2
<1>4. ASSUME NEW m \in Nat, m \in B PROVE m + 1 \in B
  <2>1. PICK g : \A s \in SUBSET (1..n) : Cardinality(s) <= m => Right(g, s)
    BY <1>4
  <2> DEFINE h == [s \in SUBSET (1..n) |-> First(g, s)]
  <2>2. ASSUME NEW s \in SUBSET (1..n), Cardinality(s) <= m + 1 PROVE Right(h, s)
    <3>1. CASE s = {}
      BY <3>1
    <3>2. CASE s # {}
      <4> DEFINE t == s \ {Max(s)}
      <4>1. t \in SUBSET (1..n) /\ Cardinality(t) <= m
        <5>1. Cardinality(t) = Cardinality(s) - 1
          BY <1>1, <1>2, <3>2, FS_RemoveElement
        <5>2. Cardinality(s) \in Nat
          BY <1>1
        <5>3. Cardinality(t) <= m
          BY <2>2, <5>1, <5>2
        <5> QED
          BY <5>3
      <4>2. Right(g, t)
        BY <2>1, <4>1
      <4>3. h[t] = First(g, t)
        BY <4>1
      <4>4. h[t] = g[t]
        BY <4>2, <4>3
      <4>5. h[s] = Assets!CertifyAsset(g[t], as[Max(s)], sh)
        BY <3>2
      <4> QED
        BY <3>2, <4>4, <4>5
    <3> QED
      BY <3>1, <3>2
  <2>3. \A s \in SUBSET (1..n) : Cardinality(s) <= m + 1 => Right(h, s)
    BY <2>2
  <2> HIDE DEF h, Right
  <2>4. m + 1 \in Nat
    OBVIOUS
  <2> QED
    BY <2>3, <2>4, Zenon
<1> HIDE DEF B
<1>5. n \in B
  <2>1. B \in SUBSET Nat
    BY DEF B
  <2> QED
    BY <1>3, <1>4, <2>1, NatInd
<1>6. PICK g : \A s \in SUBSET (1..n) : Cardinality(s) <= n => Right(g, s)
  BY <1>5 DEF B
<1>7. \A s \in SUBSET (1..n) : Right(g, s)
  BY <1>1, <1>6
<1> DEFINE h == [s \in SUBSET (1..n) |-> g[s]]
<1>8. \A s \in SUBSET (1..n) : s \ {Max(s)} \in SUBSET (1..n)
  OBVIOUS
<1>9. Folds(as, sh, h)
  BY <1>7, <1>8 DEF Folds
<1> QED
  BY <1>9

\* c[k] is the value after k of n assets.
Chain(c, as, sh, n) ==
    /\ c[0] = Assets!NoAssets(sh)
    /\ \A k \in 1..n : c[k] = Assets!CertifyAsset(c[k - 1], as[k], sh)

\* certify_assets certifies one asset after the other.
LEMMA InOrder ==
    ASSUME NEW as, NEW sh, NEW n \in Nat, DOMAIN as = 1..n
    PROVE  \E c : Chain(c, as, sh, n) /\ Assets!CertifyAssets(as, sh) = c[n]
<1> DEFINE g == CHOOSE i : Folds(as, sh, i)
<1>1. Folds(as, sh, g)
  BY FoldExists
<1>2. Assets!CertifyAssets(as, sh) = g[1..n]
  BY DEF Assets!CertifyAssets, Assets!FoldLeft, Assets!MapThenFoldSet, Folds, Max, Assets!Max
<1> HIDE DEF g
<1> DEFINE c == [k \in 0..n |-> g[1..k]]
<1>3. g[{}] = Assets!NoAssets(sh)
  BY <1>1 DEF Folds
<1>4. 1..0 = {}
  OBVIOUS
<1>5. ASSUME NEW k \in 1..n PROVE g[1..k] = Assets!CertifyAsset(g[1..(k - 1)], as[k], sh)
  <2>1. 1..k \in SUBSET DOMAIN as /\ 1..k # {}
    <3>1. k \in 1..k
      OBVIOUS
    <3>2. 1..k \subseteq DOMAIN as
      OBVIOUS
    <3> QED
      BY <3>1, <3>2, Zenon
  <2>3. Max(1..k) = k
    <3>1. (1..k) \in SUBSET (0..k) /\ k \in Int
      OBVIOUS
    <3>2. Max(1..k) \in 1..k /\ \A s \in 1..k : s <= Max(1..k)
      BY <2>1, <3>1, MaxNat
    <3> QED
      BY <3>2
  <2>2. (1..k) \ {k} = 1..(k - 1)
    OBVIOUS
  <2> QED
    BY <1>1, <2>1, <2>2, <2>3 DEF Folds
<1>6. c[0] = Assets!NoAssets(sh) /\ c[n] = g[1..n]
  BY <1>3, <1>4
<1>7. \A k \in 1..n : c[k] = g[1..k] /\ c[k - 1] = g[1..(k - 1)]
  OBVIOUS
<1> HIDE DEF c
<1>8. Chain(c, as, sh, n)
  BY <1>5, <1>6, <1>7 DEF Chain
<1> QED
  BY <1>2, <1>6, <1>8

-----------------------------------------------------------------------------
(***************************************************************************)
(* Headers.  Where no name comes twice, their order does not matter.       *)
(***************************************************************************)

Names(h) == {h[i].name : i \in DOMAIN h}
Good(h) ==
    /\ h \in Seq(Range(h))
    /\ \A i, j \in DOMAIN h : h[i].name = h[j].name => i = j

LEMMA GoodSingle == ASSUME NEW x PROVE Good(<<x>>) /\ Names(<<x>>) = {x.name} /\ Range(<<x>>) = {x}
<1>1. DOMAIN <<x>> = {1} /\ <<x>>[1] = x
  OBVIOUS
<1>2. Range(<<x>>) = {x}
  BY <1>1 DEF Range
<1>3. <<x>> \in Seq({x})
  OBVIOUS
<1>4. Names(<<x>>) = {x.name}
  BY <1>1 DEF Names
<1> QED
  BY <1>1, <1>2, <1>3, <1>4 DEF Good

LEMMA GoodEmpty == Good(<<>>) /\ Names(<<>>) = {} /\ Range(<<>>) = {}
<1>1. DOMAIN <<>> = {}
  OBVIOUS
<1> QED
  BY <1>1 DEF Good, Names, Range

LEMMA GoodJoin ==
    ASSUME NEW s, NEW t, Good(s), Good(t), Names(s) \cap Names(t) = {}
    PROVE  /\ Good(s \o t)
           /\ Names(s \o t) = Names(s) \cup Names(t)
           /\ Range(s \o t) = Range(s) \cup Range(t)
<1> DEFINE R == Range(s) \cup Range(t)
           u == s \o t
<1>1. s \in Seq(R) /\ t \in Seq(R)
  <2>1. s \in Seq(Range(s)) /\ t \in Seq(Range(t))
    BY DEF Good
  <2> QED
    BY <2>1, SeqMonotonic
<1> HIDE DEF R
<1>2. /\ u \in Seq(R) /\ Len(u) = Len(s) + Len(t)
      /\ Len(s) \in Nat /\ Len(t) \in Nat /\ DOMAIN s = 1..Len(s) /\ DOMAIN t = 1..Len(t)
      /\ DOMAIN u = 1..Len(u)
      /\ \A i \in 1..Len(s) : u[i] = s[i]
      /\ \A i \in 1..Len(t) : u[Len(s) + i] = t[i]
  BY <1>1
<1> HIDE DEF u
<1>3. \A i \in DOMAIN u : \/ i \in DOMAIN s /\ u[i] = s[i]
                          \/ i - Len(s) \in DOMAIN t /\ u[i] = t[i - Len(s)]
  <2> SUFFICES ASSUME NEW i \in DOMAIN u, i \notin DOMAIN s
               PROVE i - Len(s) \in DOMAIN t /\ u[i] = t[i - Len(s)]
    BY <1>2
  <2>1. i - Len(s) \in 1..Len(t) /\ Len(s) + (i - Len(s)) = i
    BY <1>2
  <2> QED
    BY <1>2, <2>1
<1>4. /\ \A i \in DOMAIN s : i \in DOMAIN u /\ u[i] = s[i]
      /\ \A i \in DOMAIN t : Len(s) + i \in DOMAIN u /\ u[Len(s) + i] = t[i]
  BY <1>2
<1>5. Range(u) = R
  BY <1>3, <1>4 DEF Range, R
<1>6. Names(u) = Names(s) \cup Names(t)
  BY <1>3, <1>4 DEF Names
<1>7. ASSUME NEW i \in DOMAIN u, NEW j \in DOMAIN u, u[i].name = u[j].name PROVE i = j
  <2>1. CASE i \in DOMAIN s /\ u[i] = s[i]
    <3>1. ASSUME j - Len(s) \in DOMAIN t, u[j] = t[j - Len(s)] PROVE FALSE
      BY <1>7, <2>1, <3>1 DEF Names
    <3>2. j \in DOMAIN s /\ u[j] = s[j]
      BY <1>3, <3>1
    <3> QED
      BY <1>7, <2>1, <3>2 DEF Good
  <2>2. CASE i - Len(s) \in DOMAIN t /\ u[i] = t[i - Len(s)]
    <3>1. ASSUME j \in DOMAIN s, u[j] = s[j] PROVE FALSE
      BY <1>7, <2>2, <3>1 DEF Names
    <3>2. j - Len(s) \in DOMAIN t /\ u[j] = t[j - Len(s)]
      BY <1>3, <3>1
    <3>3. i - Len(s) = j - Len(s)
      BY <1>7, <2>2, <3>2 DEF Good
    <3>4. i \in Int /\ j \in Int
      BY <1>2
    <3> QED
      BY <1>2, <3>3, <3>4
  <2> QED
    BY <1>3, <2>1, <2>2
<1> QED
  BY <1>2, <1>5, <1>6, <1>7 DEF Good, u, R

LEMMA MapAt ==
    ASSUME NEW h, Good(h)
    PROVE  /\ DOMAIN Assets!HeaderMap(h) = Names(h)
           /\ \A x \in Range(h) : x.name \in Names(h) /\ Assets!HeaderMap(h)[x.name] = x.value
<1>1. DOMAIN Assets!HeaderMap(h) = Names(h)
  BY DEF Assets!HeaderMap, Names
<1>2. DOMAIN h \subseteq Nat
  <2>1. h \in Seq(Range(h))
    BY DEF Good
  <2> QED
    BY <2>1
<1>3. ASSUME NEW i \in DOMAIN h
      PROVE  h[i].name \in Names(h) /\ Assets!HeaderMap(h)[h[i].name] = h[i].value
  <2> DEFINE k == CHOOSE k \in DOMAIN h :
                    /\ h[k].name = h[i].name
                    /\ \A j \in DOMAIN h : h[j].name = h[i].name => j <= k
  <2>1. \A j \in DOMAIN h : h[j].name = h[i].name => j <= i
    BY <1>2 DEF Good
  <2>2. k \in DOMAIN h /\ h[k].name = h[i].name
    BY <2>1
  <2>3. k = i
    BY <2>2 DEF Good
  <2>4. h[i].name \in Names(h)
    BY DEF Names
  <2>5. Assets!HeaderMap(h)[h[i].name] = h[k].value
    BY <2>4 DEF Assets!HeaderMap, Names
  <2> HIDE DEF k
  <2> QED
    BY <2>3, <2>4, <2>5
<1> QED
  BY <1>1, <1>3 DEF Range

LEMMA NamesOfRange == ASSUME NEW h PROVE Names(h) = {x.name : x \in Range(h)}
  BY DEF Names, Range

Without(map, name) == [n \in DOMAIN map \ {name} |-> map[n]]

\* The headers but for the certificate are those that were hashed.
LEMMA SameMap ==
    ASSUME NEW r, NEW h, Good(r), Good(h), NEW x, x.name \notin Names(h),
           Range(r) = Range(h) \cup {x}
    PROVE  /\ Without(Assets!HeaderMap(r), x.name) = Assets!HeaderMap(h)
           /\ Assets!HeaderMap(r)[x.name] = x.value
<1> DEFINE m == Assets!HeaderMap(r)
           k == Assets!HeaderMap(h)
<1>1. Names(r) = Names(h) \cup {x.name}
  BY NamesOfRange
<1>2. DOMAIN m = Names(r) /\ DOMAIN k = Names(h)
  BY MapAt
<1>3. ASSUME NEW n \in Names(h) PROVE m[n] = k[n]
  <2>1. PICK y \in Range(h) : n = y.name
    BY NamesOfRange
  <2> QED
    BY <2>1, MapAt
<1>4. m[x.name] = x.value
  BY MapAt
<1>5. k = [n \in Names(h) |-> k[n]]
  BY DEF Assets!HeaderMap, Names
<1>6. DOMAIN m \ {x.name} = Names(h)
  BY <1>1, <1>2
<1> HIDE DEF m, k
<1>7. [n \in DOMAIN m \ {x.name} |-> m[n]] = [n \in Names(h) |-> k[n]]
  BY <1>3, <1>6
<1> QED
  BY <1>4, <1>5, <1>7 DEF m, k, Without

-----------------------------------------------------------------------------
(***************************************************************************)
(* The trees of a canister's assets: every path has one entry in each.     *)
(***************************************************************************)

\* A path whose segments are no terminators.
Plain(path) == path \in Seq(Range(path)) /\ <<"<$>">> \notin Range(path)

\* c has entries under the paths D, and only there.
Whole(c, D) ==
    /\ c = [assets |-> c.assets, v1 |-> c.v1, v2 |-> c.v2, shared |-> c.shared]
    /\ DOMAIN c.v1 = D /\ DOMAIN c.v2 = D /\ DOMAIN c.assets = D
    /\ \A q \in D : Plain(q)

\* What is stored and certified under a path.
Entry(c, path, status, headers, body) ==
    /\ c.v1[path] = body
    /\ c.v2[path] = {Assets!ResponseHash(status, c.shared \o headers, body)}
    /\ c.assets[path] = [status |-> status, headers |-> headers, body |-> body]

LEMMA NoneIsWhole ==
    ASSUME NEW sh PROVE Whole(Assets!NoAssets(sh), {}) /\ Assets!NoAssets(sh).shared = sh
<1>1. DOMAIN <<>> = {}
  OBVIOUS
<1> QED
  BY <1>1 DEF Whole, Assets!NoAssets

\* The subtree of a path holds no other path.
LEMMA SubtreeOfOne ==
    ASSUME NEW p, NEW q, Plain(p), Plain(q)
    PROVE  Assets!IsPrefix(Append(p, <<"<$>">>), Append(q, <<"<$>">>)) <=> p = q
<1> DEFINE t == <<"<$>">>
           R == Range(p) \cup Range(q) \cup {t}
           P == Append(p, t)
           Q == Append(q, t)
<1>1. p \in Seq(R) /\ q \in Seq(R) /\ t \in R
  BY SeqMonotonic DEF Plain
<1>2. /\ \A i \in 1..Len(p) : p[i] # t
      /\ \A i \in 1..Len(q) : q[i] # t
  <2>1. DOMAIN p = 1..Len(p) /\ DOMAIN q = 1..Len(q)
    BY <1>1
  <2>2. (\A i \in DOMAIN p : p[i] # t) /\ (\A i \in DOMAIN q : q[i] # t)
    BY Zenon DEF Plain, Range
  <2> QED
    BY <2>1, <2>2
<1> HIDE DEF R, t
<1>3. /\ P \in Seq(R) /\ Q \in Seq(R)
      /\ Len(P) = Len(p) + 1 /\ Len(Q) = Len(q) + 1 /\ Len(p) \in Nat /\ Len(q) \in Nat
      /\ P[Len(p) + 1] = t /\ Q[Len(q) + 1] = t
      /\ \A i \in 1..Len(p) : P[i] = p[i]
      /\ \A i \in 1..Len(q) : Q[i] = q[i]
  BY <1>1
<1> HIDE DEF P, Q
<1>4. ASSUME Len(P) <= Len(Q), SubSeq(P, 1, Len(P)) = SubSeq(Q, 1, Len(P)) PROVE p = q
  <2>1. \A i \in 1..Len(P) : SubSeq(P, 1, Len(P))[i] = P[i] /\ SubSeq(Q, 1, Len(P))[i] = Q[i]
    BY <1>3, <1>4
  <2>2. \A i \in 1..Len(P) : P[i] = Q[i]
    BY <1>4, <2>1
  <2>3. Q[Len(p) + 1] = t
    BY <1>3, <2>2
  <2>4. Len(p) = Len(q)
    BY <1>2, <1>3, <1>4, <2>3
  <2>5. \A i \in 1..Len(p) : p[i] = q[i]
    BY <1>3, <2>2, <2>4
  <2> QED
    BY <1>1, <2>4, <2>5, SeqEqual
<1>5. p = q => Len(P) <= Len(Q) /\ SubSeq(P, 1, Len(P)) = SubSeq(Q, 1, Len(P))
  BY <1>3 DEF P, Q
<1> QED
  BY <1>4, <1>5 DEF Assets!IsPrefix, P, Q, t

\* r is c, which has the paths D, with an entry for a path.
Added(r, c, D, path, status, headers, body) ==
    /\ Whole(r, D \cup {path}) /\ r.shared = c.shared
    /\ Entry(r, path, status, headers, body)
    /\ \A q \in D \ {path} :
          /\ r.v1[q] = c.v1[q] /\ r.v2[q] = c.v2[q] /\ r.assets[q] = c.assets[q]

\* add: the path has one entry, and the others stay.
LEMMA AddFact ==
    ASSUME NEW c, NEW D, Whole(c, D), NEW path, Plain(path),
           NEW status, NEW headers, NEW body,
           NEW r, r = Assets!Add(c, path, status, headers, body, c.shared)
    PROVE  Added(r, c, D, path, status, headers, body)
<1> DEFINE hash == Assets!ResponseHash(status, c.shared \o headers, body)
           v1 == Assets!Inserted(c.v1, path, body)
           v2 == Assets!AddV2(c.v2, path, hash)
           as == Assets!Inserted(c.assets, path, [status |-> status, headers |-> headers, body |-> body])
<1>1. r = [assets |-> as, v1 |-> v1, v2 |-> v2, shared |-> c.shared]
  <2>1. r = [c EXCEPT !.v1 = v1, !.v2 = v2, !.assets = as]
    BY DEF Assets!Add
  <2> HIDE DEF v1, v2, as
  <2>2. c = [assets |-> c.assets, v1 |-> c.v1, v2 |-> c.v2, shared |-> c.shared]
    BY DEF Whole
  <2> QED
    BY <2>1, <2>2
<1>2. /\ DOMAIN v1 = D \cup {path} /\ v1[path] = body
      /\ \A q \in D \ {path} : v1[q] = c.v1[q]
  BY DEF Whole, Assets!Inserted
<1>3. /\ DOMAIN as = D \cup {path} /\ as[path] = [status |-> status, headers |-> headers, body |-> body]
      /\ \A q \in D \ {path} : as[q] = c.assets[q]
  BY DEF Whole, Assets!Inserted
<1>4. /\ DOMAIN v2 = D \cup {path} /\ v2[path] = {hash}
      /\ \A q \in D \ {path} : v2[q] = c.v2[q]
  <2> DEFINE InSubtree(q) == Assets!IsPrefix(Append(path, <<"<$>">>), Append(q, <<"<$>">>))
             others == [q \in {q \in DOMAIN c.v2 : ~InSubtree(q)} |-> c.v2[q]]
  <2>1. \A q \in D : InSubtree(q) <=> q = path
    BY SubtreeOfOne DEF Whole
  <2>2. v2 = Assets!Inserted(others, path, {hash})
    BY DEF Assets!AddV2, Assets!EXACT_MATCH_TERMINATOR
  <2>3. DOMAIN others = D \ {path} /\ \A q \in D \ {path} : others[q] = c.v2[q]
    BY <2>1 DEF Whole
  <2> HIDE DEF others, hash
  <2> QED
    BY <2>2, <2>3 DEF Assets!Inserted
<1>5. \A q \in D \cup {path} : Plain(q)
  BY DEF Whole
<1> HIDE DEF v1, v2, as
<1>6. r.assets = as /\ r.v1 = v1 /\ r.v2 = v2 /\ r.shared = c.shared
  BY <1>1
<1>7. Whole(r, D \cup {path})
  BY <1>1, <1>2, <1>3, <1>4, <1>5, <1>6 DEF Whole
<1>8. Entry(r, path, status, headers, body)
  BY <1>2, <1>3, <1>4, <1>6 DEF Entry, hash
<1> QED
  BY <1>2, <1>3, <1>4, <1>6, <1>7, <1>8 DEF Added

\* r is c, which has the paths D, with one more asset.
OneMore(r, c, D, asset) ==
    /\ Whole(r, D \cup {asset.path}) /\ r.shared = c.shared
    /\ Entry(r, asset.path, 200, Assets!AssetHeaders(asset), asset.content)
    /\ \A q \in D \ {asset.path} :
          /\ r.v1[q] = c.v1[q] /\ r.v2[q] = c.v2[q] /\ r.assets[q] = c.assets[q]

LEMMA CertifyFact ==
    ASSUME NEW c, NEW D, Whole(c, D), NEW asset, Plain(asset.path), NEW sh, c.shared = sh
    PROVE  OneMore(Assets!CertifyAsset(c, asset, sh), c, D, asset)
<1> DEFINE r == Assets!CertifyAsset(c, asset, sh)
           path == asset.path
           headers == Assets!AssetHeaders(asset)
           body == asset.content
<1>1. r = Assets!Add(c, path, 200, headers, body, c.shared)
  BY DEF Assets!CertifyAsset
<1> HIDE DEF path, headers, body, r
<1>2. Plain(path)
  BY DEF path
<1>3. Added(r, c, D, path, 200, headers, body)
  BY <1>1, <1>2, AddFact
<1> QED
  BY <1>3 DEF path, headers, body, r, Added, OneMore

\* What certifying assets makes of them: under each path there is one of those
\* that have it.
Certified(c, as, sh) ==
    /\ Whole(c, {as[k].path : k \in DOMAIN as}) /\ c.shared = sh
    /\ \A k \in DOMAIN as : \E j \in DOMAIN as :
          /\ as[j].path = as[k].path
          /\ Entry(c, as[k].path, 200, Assets!AssetHeaders(as[j]), as[j].content)

LEMMA CertifiedFact ==
    ASSUME NEW as, NEW sh, NEW n \in Nat, DOMAIN as = 1..n, \A k \in 1..n : Plain(as[k].path)
    PROVE  Certified(Assets!CertifyAssets(as, sh), as, sh)
<1>1. PICK g : Chain(g, as, sh, n) /\ Assets!CertifyAssets(as, sh) = g[n]
  BY InOrder
<1> DEFINE Ps(m) == {as[k].path : k \in 1..m}
           Under(c, k, j) == /\ as[j].path = as[k].path
                             /\ Entry(c, as[k].path, 200, Assets!AssetHeaders(as[j]), as[j].content)
           Done(m) == /\ Whole(g[m], Ps(m)) /\ g[m].shared = sh
                      /\ \A k \in 1..m : \E j \in 1..m : Under(g[m], k, j)
           B == {m \in Nat : m <= n => Done(m)}
<1>2. Done(0)
  <2>1. 1..0 = {}
    OBVIOUS
  <2>2. Ps(0) = {}
    BY <2>1
  <2>3. g[0] = Assets!NoAssets(sh)
    BY <1>1 DEF Chain
  <2> HIDE DEF Ps
  <2> QED
    BY <2>1, <2>2, <2>3, NoneIsWhole
<1>3. ASSUME NEW m \in Nat, m + 1 <= n, Done(m) PROVE Done(m + 1)
  <2> DEFINE i == m + 1
             c == g[m]
             d == g[m + 1]
             a == as[i]
             D == Ps(m)
  <2>1. i \in 1..n /\ i - 1 = m /\ 1..i = 1..m \cup {i} /\ m \in Nat
    BY <1>3
  <2>2. d = Assets!CertifyAsset(c, a, sh)
    BY <1>1, <2>1 DEF Chain
  <2>3. Ps(i) = D \cup {a.path}
    BY <2>1
  <2>4. Whole(c, D) /\ c.shared = sh /\ \A k \in 1..m : \E j \in 1..m : Under(c, k, j)
    BY <1>3
  <2>5. Plain(a.path)
    BY <2>1
  <2> HIDE DEF c, d, a, D, i, Ps
  <2>6. OneMore(d, c, D, a)
    BY <2>2, <2>4, <2>5, CertifyFact
  <2>7. Whole(d, D \cup {a.path}) /\ d.shared = sh
    BY <2>4, <2>6 DEF OneMore
  <2>8. ASSUME NEW k \in 1..i PROVE \E j \in 1..i : Under(d, k, j)
    <3>1. CASE as[k].path = a.path
      <4>1. Under(d, k, i)
        BY <2>6, <3>1 DEF OneMore, a
      <4> HIDE DEF Under
      <4> QED
        BY <2>1, <4>1
    <3>2. CASE as[k].path # a.path
      <4>1. k \in 1..m
        BY <2>1, <3>2 DEF a
      <4>2. PICK j \in 1..m : Under(c, k, j)
        BY <2>4, <4>1
      <4>3. as[k].path \in D \ {a.path}
        BY <3>2, <4>1 DEF D, Ps
      <4>4. Under(d, k, j)
        BY <2>4, <2>6, <4>2, <4>3 DEF OneMore, Entry
      <4> HIDE DEF Under
      <4> QED
        BY <2>1, <4>4
    <3> QED
      BY <3>1, <3>2
  <2> HIDE DEF Under
  <2> QED
    BY <2>3, <2>7, <2>8 DEF i, d
<1> HIDE DEF Done
<1>4. n \in B
  <2>1. 0 \in B
    BY <1>2
  <2>2. ASSUME NEW m \in Nat, m \in B PROVE m + 1 \in B
    <3>1. m + 1 \in Nat /\ (m + 1 <= n => m <= n)
      OBVIOUS
    <3> QED
      BY <1>3, <2>2, <3>1
  <2>3. B \in SUBSET Nat
    OBVIOUS
  <2> HIDE DEF B
  <2> QED
    BY <2>1, <2>2, <2>3, NatInd
<1>5. Done(n)
  BY <1>4
<1> QED
  BY <1>1, <1>5 DEF Done, Certified

-----------------------------------------------------------------------------
(***************************************************************************)
(* What is answered for a path.                                            *)
(***************************************************************************)

CertificateHeader(value) == Assets!Header("IC-Certificate", value)
ExpressionHeader == Assets!Header("IC-CertificateExpression", Assets!Expression)

\* Headers under which the certificate and its expression can be added.
Addable(shared, headers) ==
    /\ Good(shared) /\ Good(headers) /\ Names(shared) \cap Names(headers) = {}
    /\ {"IC-Certificate", "IC-CertificateExpression"} \cap (Names(shared) \cup Names(headers)) = {}

\* The headers of an asset with what certifies it, and those of a canister.
Answered(shared, headers, version, certificate) ==
    (headers \o (IF version # None /\ version >= 2
                 THEN <<CertificateHeader(certificate), ExpressionHeader>>
                 ELSE <<CertificateHeader(certificate)>>)) \o shared

LEMMA AppendIsJoin == ASSUME NEW h, Good(h), NEW x PROVE Append(h, x) = h \o <<x>>
<1> DEFINE R == Range(h) \cup {x}
<1>1. h \in Seq(R) /\ x \in R
  BY SeqMonotonic DEF Good
<1> HIDE DEF R
<1> QED
  BY <1>1

\* Headers r have the certificate and the shared headers, and besides the
\* certificate, under version 2, those that were hashed.
Covered(r, shared, headers, version, certificate) ==
    /\ Good(r)
    /\ Assets!HeaderMap(r)["IC-Certificate"] = certificate
    /\ \A y \in Range(shared) : Assets!HeaderMap(r)[y.name] = y.value
    /\ version # None /\ version >= 2 =>
          Without(Assets!HeaderMap(r), "IC-Certificate")
              = Assets!HeaderMap(Append(shared \o headers, ExpressionHeader))

LEMMA AnsweredFact ==
    ASSUME NEW shared, NEW headers, Addable(shared, headers), NEW version, NEW certificate
    PROVE  Covered(Answered(shared, headers, version, certificate), shared, headers, version, certificate)
<1> DEFINE r == Answered(shared, headers, version, certificate)
           h == Append(shared \o headers, ExpressionHeader)
           x == CertificateHeader(certificate)
           e == ExpressionHeader
           two == version # None /\ version >= 2
           extra == IF two THEN <<x, e>> ELSE <<x>>
<1>1. x.name = "IC-Certificate" /\ x.value = certificate /\ e.name = "IC-CertificateExpression"
  BY DEF Assets!Header, CertificateHeader, ExpressionHeader
<1>2. r = (headers \o extra) \o shared
  BY DEF Answered
<1>3. /\ Good(shared) /\ Good(headers) /\ Names(shared) \cap Names(headers) = {}
      /\ x.name \notin Names(shared) \cup Names(headers)
      /\ e.name \notin Names(shared) \cup Names(headers)
  BY <1>1 DEF Addable
<1> HIDE DEF x, e, two, r
<1>4. /\ Good(<<x>>) /\ Names(<<x>>) = {x.name} /\ Range(<<x>>) = {x}
      /\ Good(<<e>>) /\ Names(<<e>>) = {e.name} /\ Range(<<e>>) = {e}
  BY GoodSingle
<1>5. /\ Good(extra)
      /\ Names(extra) = IF two THEN {x.name, e.name} ELSE {x.name}
      /\ Range(extra) = IF two THEN {x, e} ELSE {x}
  <2>1. <<x, e>> = <<x>> \o <<e>>
    <3>1. <<x, e>> = Append(<<x>>, e)
      OBVIOUS
    <3> QED
      BY <1>4, <3>1, AppendIsJoin
  <2>2. Names(<<x>>) \cap Names(<<e>>) = {}
    BY <1>1, <1>4
  <2>3. /\ Good(<<x, e>>) /\ Names(<<x, e>>) = {x.name} \cup {e.name}
        /\ Range(<<x, e>>) = {x} \cup {e}
    <3> DEFINE s == <<x>>
               t == <<e>>
    <3>1. Good(s) /\ Good(t) /\ Names(s) \cap Names(t) = {}
      BY <1>4, <2>2
    <3> HIDE DEF s, t
    <3>2. Good(s \o t) /\ Names(s \o t) = Names(s) \cup Names(t) /\ Range(s \o t) = Range(s) \cup Range(t)
      BY <3>1, GoodJoin
    <3> QED
      BY <1>4, <2>1, <3>2 DEF s, t
  <2> QED
    BY <1>4, <2>3
<1> HIDE DEF extra
<1>6. /\ Good(headers \o extra)
      /\ Names(headers \o extra) = Names(headers) \cup Names(extra)
      /\ Range(headers \o extra) = Range(headers) \cup Range(extra)
  <2>1. Names(headers) \cap Names(extra) = {}
    BY <1>3, <1>5
  <2> QED
    BY <1>3, <1>5, <2>1, GoodJoin
<1>7. Good(r) /\ Range(r) = Range(headers) \cup Range(extra) \cup Range(shared)
  <2>1. Names(headers \o extra) \cap Names(shared) = {}
    BY <1>3, <1>5, <1>6
  <2> QED
    BY <1>2, <1>3, <1>6, <2>1, GoodJoin
<1>8. \A y \in Range(r) : Assets!HeaderMap(r)[y.name] = y.value
  BY <1>7, MapAt
<1>9. x \in Range(r) /\ Range(shared) \subseteq Range(r)
  BY <1>5, <1>7
<1>10. /\ Good(shared \o headers) /\ Names(shared \o headers) = Names(shared) \cup Names(headers)
       /\ Range(shared \o headers) = Range(shared) \cup Range(headers)
  BY <1>3, GoodJoin
<1>11. h = (shared \o headers) \o <<e>>
  BY <1>10, AppendIsJoin DEF e
<1>12. /\ Good(h) /\ Names(h) = Names(shared) \cup Names(headers) \cup {e.name}
       /\ Range(h) = Range(shared) \cup Range(headers) \cup {e}
  <2>1. Names(shared \o headers) \cap Names(<<e>>) = {}
    BY <1>3, <1>4, <1>10
  <2> HIDE DEF h
  <2> QED
    BY <1>4, <1>10, <1>11, <2>1, GoodJoin
<1> HIDE DEF h
<1>13. ASSUME two
       PROVE  Without(Assets!HeaderMap(r), x.name) = Assets!HeaderMap(h)
  <2>1. Range(r) = Range(h) \cup {x}
    BY <1>5, <1>7, <1>12, <1>13
  <2>2. x.name \notin Names(h)
    BY <1>1, <1>3, <1>12
  <2> QED
    BY <1>7, <1>12, <2>1, <2>2, SameMap
<1>14. two => Without(Assets!HeaderMap(r), "IC-Certificate") = Assets!HeaderMap(h)
  BY <1>1, <1>13
<1>15. Assets!HeaderMap(r)["IC-Certificate"] = certificate
  BY <1>1, <1>8, <1>9
<1> QED
  BY <1>7, <1>8, <1>9, <1>14, <1>15 DEF two, r, h, Covered

LEMMA WithHeaders ==
    ASSUME NEW s, NEW h, NEW b, NEW k
    PROVE  [[status |-> s, headers |-> h, body |-> b] EXCEPT !.headers = k]
               = [status |-> s, headers |-> k, body |-> b]
  OBVIOUS

\* a is what get_certified_asset returns of an asset with such headers.
Given(a, c, path, status, headers, body, version, sigs0) ==
    LET two == version # None /\ version >= 2
        k == Assets!Certificate(c, path, IF two THEN 2 ELSE 1, sigs0)
    IN  a = [status |-> status, body |-> body,
             headers |-> headers \o (IF two THEN <<CertificateHeader(k), ExpressionHeader>>
                                     ELSE <<CertificateHeader(k)>>)]

LEMMA GivenFact ==
    ASSUME NEW c, NEW path, NEW status, NEW headers, NEW body,
           Entry(c, path, status, headers, body), Good(headers), NEW version, NEW sigs0
    PROVE  Given(Assets!GetCertifiedAsset(c, path, version, sigs0),
                 c, path, status, headers, body, version, sigs0)
<1> DEFINE two == version # None /\ version >= 2
           k == Assets!Certificate(c, path, IF two THEN 2 ELSE 1, sigs0)
           a == Assets!GetCertifiedAsset(c, path, version, sigs0)
           asset == c.assets[path]
           extra == IF two THEN <<CertificateHeader(k), ExpressionHeader>> ELSE <<CertificateHeader(k)>>
<1>1. asset = [status |-> status, headers |-> headers, body |-> body]
  BY DEF Entry
<1>2. asset.headers = headers
  BY <1>1
<1>3. a = [asset EXCEPT !.headers = headers \o extra]
  <2>1. CASE two
    <3>1. a = [asset EXCEPT !.headers = asset.headers \o
                  <<Assets!Header("IC-Certificate", Assets!Certificate(c, path, 2, sigs0)),
                    Assets!Header("IC-CertificateExpression", Assets!Expression)>>]
      BY <2>1, Zenon DEF Assets!GetCertifiedAsset
    <3>2. k = Assets!Certificate(c, path, 2, sigs0)
      BY <2>1
    <3> HIDE DEF a, asset, k
    <3> QED
      BY <1>2, <2>1, <3>1, <3>2 DEF CertificateHeader, ExpressionHeader
  <2>2. CASE ~two
    <3>1. a = [asset EXCEPT !.headers = Append(asset.headers,
                  Assets!Header("IC-Certificate", Assets!Certificate(c, path, 1, sigs0)))]
      BY <2>2, Zenon DEF Assets!GetCertifiedAsset
    <3>2. k = Assets!Certificate(c, path, 1, sigs0)
      BY <2>2
    <3>3. Append(headers, CertificateHeader(k)) = headers \o <<CertificateHeader(k)>>
      BY AppendIsJoin
    <3> HIDE DEF a, asset, k
    <3> QED
      BY <1>2, <2>2, <3>1, <3>2, <3>3 DEF CertificateHeader
  <2> QED
    BY <2>1, <2>2
<1> HIDE DEF a, asset, extra
<1>4. a = [status |-> status, headers |-> headers \o extra, body |-> body]
  BY <1>1, <1>3, WithHeaders
<1> QED
  BY <1>4 DEF a, extra, Given

\* What get_asset answers, from assets c.
Answer(c, path, version, sigs0) ==
    [Assets!GetCertifiedAsset(c, path, version, sigs0) EXCEPT !.headers = @ \o c.shared]

\* Answer r to a path is the asset, and a gateway verifies it.
IsServed(r, c, path, version, sigs0, status, body) ==
    /\ Assets!HasAsset(c, path)
    /\ r = [status |-> status, headers |-> r.headers, body |-> body]
    /\ Assets!HeadersAreDistinct(r)
    /\ Assets!Verifies(r, path, [assets |-> Assets!RootHash(c), sigs |-> sigs0])
    /\ \A y \in Range(c.shared) : Assets!HeaderMap(r.headers)[y.name] = y.value
    /\ version # None /\ version >= 2 =>
          c.v2[path] = {[status |-> r.status, body |-> r.body, headers |-> Assets!CertifiedHeaders(r)]}

LEMMA ServedFact ==
    ASSUME NEW c, NEW D, Whole(c, D), NEW path \in D, NEW status, NEW headers, NEW body,
           Entry(c, path, status, headers, body), Addable(c.shared, headers),
           NEW version, NEW sigs0
    PROVE  IsServed(Answer(c, path, version, sigs0), c, path, version, sigs0, status, body)
<1> DEFINE a == Assets!GetCertifiedAsset(c, path, version, sigs0)
           r == [a EXCEPT !.headers = @ \o c.shared]
           two == version # None /\ version >= 2
           k == Assets!Certificate(c, path, IF two THEN 2 ELSE 1, sigs0)
           m == Assets!HeaderMap(r.headers)
<1>1. Assets!HasAsset(c, path)
  BY DEF Whole, Assets!HasAsset
<1>2. r = [status |-> status, headers |-> Answered(c.shared, headers, version, k), body |-> body]
  <2> DEFINE extra == IF two THEN <<CertificateHeader(k), ExpressionHeader>> ELSE <<CertificateHeader(k)>>
  <2>3. Given(a, c, path, status, headers, body, version, sigs0)
    BY GivenFact DEF Addable
  <2> HIDE DEF a
  <2>4. a = [status |-> status, headers |-> headers \o extra, body |-> body]
    BY <2>3 DEF Given
  <2>5. a.headers = headers \o extra
    BY <2>4
  <2>6. r = [a EXCEPT !.headers = (headers \o extra) \o c.shared]
    BY <2>5 DEF r
  <2>7. r = [status |-> status, headers |-> (headers \o extra) \o c.shared, body |-> body]
    <3> DEFINE h == headers \o extra
               j == h \o c.shared
    <3> HIDE DEF r, j
    <3> SUFFICES r = [status |-> status, headers |-> j, body |-> body]
      BY DEF j
    <3>1. a = [status |-> status, headers |-> h, body |-> body] /\ r = [a EXCEPT !.headers = j]
      BY <2>4, <2>6 DEF j
    <3> HIDE DEF h
    <3> QED
      BY <3>1, WithHeaders
  <2>8. (headers \o extra) \o c.shared = Answered(c.shared, headers, version, k)
    BY DEF Answered
  <2> QED
    BY <2>7, <2>8
<1> HIDE DEF r, k
<1>3. r.headers = Answered(c.shared, headers, version, k) /\ r.status = status /\ r.body = body
  BY <1>2
<1>4. /\ Good(r.headers) /\ m["IC-Certificate"] = k
      /\ \A y \in Range(c.shared) : m[y.name] = y.value
      /\ two => Without(m, "IC-Certificate")
                    = Assets!HeaderMap(Append(c.shared \o headers, ExpressionHeader))
  <2>1. Covered(r.headers, c.shared, headers, version, k)
    BY <1>3, AnsweredFact
  <2> QED
    BY <2>1 DEF Covered
<1>5. Assets!HeadersAreDistinct(r)
  BY <1>4 DEF Good, Assets!HeadersAreDistinct
<1>6. two => c.v2[path] = {[status |-> r.status, body |-> r.body,
                            headers |-> Assets!CertifiedHeaders(r)]}
  BY <1>3, <1>4 DEF Entry, Assets!ResponseHash, Assets!CertifiedHeaders, ExpressionHeader, Without
<1>7. Assets!Verifies(r, path, [assets |-> Assets!RootHash(c), sigs |-> sigs0])
  <2>1. /\ k.version = IF two THEN 2 ELSE 1
        /\ k.path = path /\ k.root = [assets |-> Assets!RootHash(c), sigs |-> sigs0]
        /\ k.root.assets = Assets!RootHash(c)
    BY DEF k, Assets!Certificate
  <2>2. Assets!RootHash(c).v1 = c.v1 /\ Assets!RootHash(c).v2 = c.v2
    BY DEF Assets!RootHash
  <2>3. path \in DOMAIN c.v1 /\ c.v1[path] = r.body /\ path \in DOMAIN c.v2
    BY <1>3 DEF Whole, Entry
  <2>4. Assets!CertificateOf(r) = k
    BY <1>4 DEF Assets!CertificateOf
  <2>5. CASE two
    <3> DEFINE hash == [status |-> r.status, body |-> r.body, headers |-> Assets!CertifiedHeaders(r)]
    <3>1. hash \in c.v2[path] /\ hash.status = r.status /\ hash.body = r.body
          /\ hash.headers = Assets!CertifiedHeaders(r)
      BY <1>6, <2>5
    <3> HIDE DEF hash
    <3>2. k.version = 2
      BY <2>1, <2>5
    <3> HIDE DEF m, two
    <3> QED
      BY <2>1, <2>2, <2>3, <2>4, <3>1, <3>2 DEF Assets!Verifies
  <2>6. CASE ~two
    <3>1. k.version = 1
      BY <2>1, <2>6
    <3> HIDE DEF m, two
    <3> QED
      BY <2>1, <2>2, <2>3, <2>4, <3>1 DEF Assets!Verifies
  <2> QED
    BY <2>5, <2>6
<1> HIDE DEF m
<1>8. r = Answer(c, path, version, sigs0)
  BY DEF r, Answer
<1>9. IsServed(r, c, path, version, sigs0, status, body)
  <2>1. r = [status |-> status, headers |-> r.headers, body |-> body]
    BY <1>2, <1>3
  <2>2. \A y \in Range(c.shared) : Assets!HeaderMap(r.headers)[y.name] = y.value
    BY <1>4 DEF m
  <2>3. version # None /\ version >= 2 =>
            c.v2[path] = {[status |-> r.status, body |-> r.body, headers |-> Assets!CertifiedHeaders(r)]}
    BY <1>6
  <2> QED
    BY <1>1, <1>5, <1>7, <2>1, <2>2, <2>3, Zenon DEF IsServed
<1> QED
  BY <1>8, <1>9

\* The headers of an asset.
LEMMA AssetHeadersFact ==
    ASSUME NEW asset
    PROVE  /\ Good(Assets!AssetHeaders(asset))
           /\ Names(Assets!AssetHeaders(asset))
                  \subseteq {"Content-Encoding", "Content-Type", "Cache-Control"}
<1> DEFINE encoding == IF asset.encoding = "GZip" THEN <<Assets!Header("Content-Encoding", "gzip")>>
                       ELSE <<>>
           type == <<Assets!Header("Content-Type", asset.type)>>
           control == IF Assets!Immutable(asset.path)
                      THEN <<Assets!Header("Cache-Control", "1 year")>> ELSE <<>>
<1>1. Assets!AssetHeaders(asset) = (encoding \o type) \o control
  BY DEF Assets!AssetHeaders
<1>2. \A n, v : Assets!Header(n, v).name = n
  BY DEF Assets!Header
<1>3. Good(encoding) /\ Names(encoding) \subseteq {"Content-Encoding"}
  BY <1>2, GoodSingle, GoodEmpty
<1>4. Good(type) /\ Names(type) = {"Content-Type"}
  BY <1>2, GoodSingle
<1>5. Good(control) /\ Names(control) \subseteq {"Cache-Control"}
  BY <1>2, GoodSingle, GoodEmpty
<1> HIDE DEF encoding, type, control
<1>6. Good(encoding \o type) /\ Names(encoding \o type) \subseteq {"Content-Encoding", "Content-Type"}
  <2>1. Names(encoding) \cap Names(type) = {}
    BY <1>3, <1>4
  <2> QED
    BY <1>3, <1>4, <2>1, GoodJoin
<1>7. Names(encoding \o type) \cap Names(control) = {}
  BY <1>5, <1>6
<1> QED
  BY <1>1, <1>5, <1>6, <1>7, GoodJoin

-----------------------------------------------------------------------------
(***************************************************************************)
(* What the canister serves.                                               *)
(*                                                                         *)
(* The assets are those of the present configuration: only an upgrade      *)
(* changes the parts that they show, and it makes them anew.               *)
(***************************************************************************)

ServedInv ==
    /\ providers = [openid |-> persistent.openid_configs, oidc |-> persistent.oidc_configs]
    /\ assets = Identity!InitAssets(persistent)
    /\ certified = Identity!UpdatedRoot(assets, sigs)

LEMMA SameAssets ==
    ASSUME NEW p, NEW q, p.openid_configs = q.openid_configs, p.related_origins = q.related_origins
    PROVE  Identity!InitAssets(p) = Identity!InitAssets(q)
<1>1. Identity!OriginsOf(p) = Identity!OriginsOf(q)
  BY DEF Identity!OriginsOf
<1>2. Identity!GetStaticAssets(p) = Identity!GetStaticAssets(q)
  BY <1>1 DEF Identity!GetStaticAssets
<1> QED
  BY <1>1, <1>2 DEF Identity!InitAssets

LEMMA ServedStep ==
    ASSUME IdentityInv, ServedInv, [Identity!Next]_(Identity!vars)
    PROVE  ServedInv'
<1>1. CASE UNCHANGED Identity!vars
  BY <1>1 DEF Identity!vars, ServedInv
<1>2. ASSUME NEW arg, Identity!Upgrade(arg)
      PROVE  ServedInv'
  <2> DEFINE loaded == Identity!Loaded(Identity!SavePersistentState)
             q == Identity!ApplyInstallArg(loaded, arg)
  <2>1. CASE ~Identity!ArgIsAccepted(stable.header, arg)
    BY <1>2, <2>1 DEF Identity!Upgrade, ServedInv
  <2>2. CASE Identity!ArgIsAccepted(stable.header, arg)
    <3> HIDE DEF q
    <3>1. /\ persistent' = q /\ assets' = Identity!InitAssets(q) /\ sigs' = {}
          /\ certified' = Identity!UpdatedRoot(Identity!InitAssets(q), {})
          /\ providers' = [openid |-> q.openid_configs, oidc |-> q.oidc_configs]
      BY <1>2, <2>2 DEF Identity!Upgrade, Identity!Initialized, q
    <3> QED
      BY <3>1 DEF ServedInv
  <2> QED
    BY <2>1, <2>2
<1>3. CASE Identity!AllocateAnchor \/ Identity!UpdateSalt
  BY <1>3 DEF Identity!AllocateAnchor, Identity!UpdateSalt, ServedInv
<1>4. CASE Identity!Sign
  BY <1>4 DEF Identity!Sign, ServedInv
<1>5. CASE Identity!AddOidcConfig \/ Identity!Count \/ Identity!DeployArchive
  <2>1. DOMAIN persistent = Identity!Fields
        /\ {"openid_configs", "related_origins", "oidc_configs"} \subseteq Identity!Fields
    BY DEF IdentityInv, Identity!Fields, Identity!DefaultState
  <2>2. /\ persistent'.openid_configs = persistent.openid_configs
        /\ persistent'.related_origins = persistent.related_origins
    BY <1>5, <2>1, StatisticsStep DEF Identity!AddOidcConfig, Identity!DeployArchive
  <2>3. providers' = [openid |-> persistent'.openid_configs, oidc |-> persistent'.oidc_configs]
    <3>1. CASE Identity!AddOidcConfig
      <4>1. PICK oidc : /\ persistent' = [persistent EXCEPT !.oidc_configs = oidc]
                        /\ providers' = [providers EXCEPT !.oidc = oidc]
        BY <3>1 DEF Identity!AddOidcConfig
      <4>2. persistent'.oidc_configs = oidc
        BY <2>1, <4>1
      <4>3. providers' = [openid |-> persistent.openid_configs, oidc |-> oidc]
        BY <4>1 DEF ServedInv
      <4> QED
        BY <2>2, <4>2, <4>3
    <3>2. CASE Identity!Count \/ Identity!DeployArchive
      <4>1. persistent'.oidc_configs = persistent.oidc_configs /\ providers' = providers
        BY <2>1, <3>2, StatisticsStep DEF Identity!Count, Identity!DeployArchive
      <4> QED
        BY <2>2, <4>1 DEF ServedInv
    <3> QED
      BY <1>5, <3>1, <3>2
  <2>4. assets' = assets /\ sigs' = sigs /\ certified' = certified
    BY <1>5 DEF Identity!AddOidcConfig, Identity!Count, Identity!DeployArchive
  <2>5. Identity!InitAssets(persistent') = Identity!InitAssets(persistent)
    BY <2>2, SameAssets
  <2> QED
    BY <2>3, <2>4, <2>5 DEF ServedInv
<1> QED
  BY <1>1, <1>2, <1>3, <1>4, <1>5 DEF Identity!Next

LEMMA ServedInitially ==
    ASSUME Identity!Init
    PROVE  ServedInv
<1>1. PICK h, s :
         LET c == Identity!Initialized(h, Identity!Loaded(s), <<>>)
         IN  /\ persistent = c.persistent /\ assets = c.assets
             /\ certified = c.certified /\ providers = c.providers
  BY DEF Identity!Init
<1> DEFINE q == Identity!ApplyInstallArg(Identity!Loaded(s), <<>>)
<1>2. sigs = {}
  BY DEF Identity!Init
<1> HIDE DEF q
<1>3. /\ persistent = q /\ assets = Identity!InitAssets(q)
      /\ certified = Identity!UpdatedRoot(Identity!InitAssets(q), {})
      /\ providers = [openid |-> q.openid_configs, oidc |-> q.oidc_configs]
  BY <1>1 DEF Identity!Initialized, q
<1> QED
  BY <1>2, <1>3 DEF ServedInv

\* Both canisters use the same library.
LEMMA SameLibrary ==
    /\ \A c, path, version, s :
          Identity!GetCertifiedAsset(c, path, version, s) = Assets!GetCertifiedAsset(c, path, version, s)
    /\ \A c, path : Identity!HasAsset(c, path) = Assets!HasAsset(c, path)
    /\ \A c : Identity!RootHash(c) = Assets!RootHash(c)
    /\ \A h : Identity!HeaderMap(h) = Assets!HeaderMap(h)
    /\ \A r, path, c : Identity!Verifies(r, path, c) = Assets!Verifies(r, path, c)
    /\ \A r : Identity!HeadersAreDistinct(r) = Assets!HeadersAreDistinct(r)
<1>1. \A c, path, version, s :
          Identity!GetCertifiedAsset(c, path, version, s) = Assets!GetCertifiedAsset(c, path, version, s)
  BY DEF Identity!GetCertifiedAsset, Assets!GetCertifiedAsset, Identity!Header, Assets!Header,
         Identity!Certificate, Assets!Certificate, Identity!RootHash, Assets!RootHash,
         Identity!Expression, Assets!Expression
<1>2. \A c, path : Identity!HasAsset(c, path) = Assets!HasAsset(c, path)
  BY DEF Identity!HasAsset, Assets!HasAsset
<1>3. \A c : Identity!RootHash(c) = Assets!RootHash(c)
  BY DEF Identity!RootHash, Assets!RootHash
<1>4. \A h : Identity!HeaderMap(h) = Assets!HeaderMap(h)
  BY DEF Identity!HeaderMap, Assets!HeaderMap
<1>5. \A r, path, c : Identity!Verifies(r, path, c) = Assets!Verifies(r, path, c)
  BY DEF Identity!Verifies, Assets!Verifies, Identity!CertificateOf, Assets!CertificateOf,
         Identity!CertifiedHeaders, Assets!CertifiedHeaders, Identity!HeaderMap, Assets!HeaderMap
<1>6. \A r : Identity!HeadersAreDistinct(r) = Assets!HeadersAreDistinct(r)
  BY DEF Identity!HeadersAreDistinct, Assets!HeadersAreDistinct
<1> QED
  BY <1>1, <1>2, <1>3, <1>4, <1>5, <1>6

LEMMA SameCertification ==
    ASSUME NEW as, NEW sh
    PROVE  Identity!CertifyAssets(as, sh) = Assets!CertifyAssets(as, sh)
  BY DEF Identity!CertifyAssets, Assets!CertifyAssets, Identity!FoldLeft, Assets!FoldLeft,
         Identity!MapThenFoldSet, Assets!MapThenFoldSet, Identity!Max, Assets!Max,
         Identity!CertifyAsset, Assets!CertifyAsset, Identity!NoAssets, Assets!NoAssets,
         Identity!Add, Assets!Add, Identity!AddV2, Assets!AddV2, Identity!Inserted, Assets!Inserted,
         Identity!IsPrefix, Assets!IsPrefix, Identity!ResponseHash, Assets!ResponseHash,
         Identity!HeaderMap, Assets!HeaderMap, Identity!AssetHeaders, Assets!AssetHeaders,
         Identity!Header, Assets!Header, Identity!Expression, Assets!Expression,
         Identity!Immutable, Assets!Immutable,
         Identity!EXACT_MATCH_TERMINATOR, Assets!EXACT_MATCH_TERMINATOR

-----------------------------------------------------------------------------
(***************************************************************************)
(* What is served is the configuration.                                    *)
(***************************************************************************)

Paths == {Identity!ConfigPath, Identity!DomainsPath}

LEMMA PathsArePlain ==
    /\ Identity!ConfigPath # Identity!DomainsPath
    /\ \A path \in Paths : Plain(path) /\ path # Identity!MetricsPath
<1> DEFINE a == <<"", "config", "did", "bin">>
           b == <<"", "well-known">>
           d == <<"ic-domains">>
           e == <<"<$>">>
           m == <<"metrics">>
<1>1. Len(a) = 4 /\ Len(b) = 2 /\ Len(d) = 1 /\ Len(e) = 1 /\ Len(m) = 1
  OBVIOUS
<1>2. d[1] # e[1]
  OBVIOUS
<1>3. a # e /\ b # e /\ d # e /\ a # m
  BY <1>1, <1>2
<1> HIDE DEF a, b, d, e, m
<1>4. Len(<<a>>) = 1 /\ Len(<<b, d>>) = 2 /\ Len(<<m>>) = 1 /\ <<a>>[1] = a /\ <<m>>[1] = m
  OBVIOUS
<1>5. <<a>> # <<b, d>> /\ <<a>> # <<m>> /\ <<b, d>> # <<m>>
  BY <1>3, <1>4
<1>6. Range(<<a>>) = {a} /\ <<a>> \in Seq({a})
  BY DEF Range
<1>7. Range(<<b, d>>) = {b, d} /\ <<b, d>> \in Seq({b, d})
  <2>1. DOMAIN <<b, d>> = {1, 2} /\ <<b, d>>[1] = b /\ <<b, d>>[2] = d
    OBVIOUS
  <2> QED
    BY <2>1 DEF Range
<1>8. Plain(<<a>>) /\ Plain(<<b, d>>)
  BY <1>3, <1>6, <1>7 DEF Plain, e
<1>9. Identity!ConfigPath = <<a>> /\ Identity!DomainsPath = <<b, d>> /\ Identity!MetricsPath = <<m>>
  BY DEF Identity!ConfigPath, Identity!DomainsPath, Identity!MetricsPath, a, b, d, m
<1> QED
  BY <1>5, <1>8, <1>9 DEF Paths

SecurityFields == {"Content-Security-Policy", "Permissions-Policy"}

LEMMA SecurityHeadersFact ==
    ASSUME NEW origins
    PROVE  LET sh == Identity!SecurityHeaders(origins)
           IN  /\ Good(sh) /\ Names(sh) = SecurityFields
               /\ Identity!Header("Permissions-Policy", origins) \in Range(sh)
<1> DEFINE x == Identity!Header("Content-Security-Policy", <<"none">>)
           y == Identity!Header("Permissions-Policy", origins)
           s == <<x>>
           t == <<y>>
<1>1. x.name = "Content-Security-Policy" /\ y.name = "Permissions-Policy"
  BY DEF Identity!Header
<1> HIDE DEF x, y
<1>2. /\ Good(s) /\ Names(s) = {x.name} /\ Good(t) /\ Names(t) = {y.name} /\ Range(t) = {y}
  BY GoodSingle
<1>3. <<x, y>> = s \o t
  <2>1. <<x, y>> = Append(<<x>>, y)
    OBVIOUS
  <2> QED
    BY <1>2, <2>1, AppendIsJoin
<1> HIDE DEF s, t
<1>4. Names(s) \cap Names(t) = {}
  BY <1>1, <1>2
<1>5. /\ Good(s \o t) /\ Names(s \o t) = Names(s) \cup Names(t)
      /\ Range(s \o t) = Range(s) \cup Range(t)
  BY <1>2, <1>4, GoodJoin
<1>6. Identity!SecurityHeaders(origins) = s \o t
  BY <1>3 DEF Identity!SecurityHeaders, x, y
<1> QED
  BY <1>1, <1>2, <1>5, <1>6 DEF SecurityFields, y

\* The two static assets, certified one after the other.
LEMMA StaticAssets ==
    ASSUME NEW p
    PROVE  LET c == Identity!InitAssets(p)
           IN  /\ Whole(c, Paths) /\ c.shared = Identity!SecurityHeaders(Identity!OriginsOf(p))
               /\ \E h : Addable(c.shared, h)
                         /\ Entry(c, Identity!ConfigPath, 200, h, <<p.openid_configs>>)
               /\ \E h : Addable(c.shared, h)
                         /\ Entry(c, Identity!DomainsPath, 200, h, Identity!OriginsOf(p))
<1> DEFINE sh == Identity!SecurityHeaders(Identity!OriginsOf(p))
           as == Identity!GetStaticAssets(p)
           c == Identity!InitAssets(p)
           a1 == as[1]
           a2 == as[2]
           h1 == Assets!AssetHeaders(a1)
           h2 == Assets!AssetHeaders(a2)
<1>1. /\ DOMAIN as = 1..2
      /\ a1.path = Identity!ConfigPath /\ a1.content = <<p.openid_configs>>
      /\ a2.path = Identity!DomainsPath /\ a2.content = Identity!OriginsOf(p)
  BY DEF Identity!GetStaticAssets
<1>2. c = Assets!CertifyAssets(as, sh)
  BY SameCertification DEF Identity!InitAssets
<1>3. /\ Good(sh) /\ Names(sh) = SecurityFields
  BY SecurityHeadersFact
<1> HIDE DEF as, c, sh
<1>4. Plain(a1.path) /\ Plain(a2.path) /\ a1.path # a2.path
  BY <1>1, PathsArePlain DEF Paths
<1>5. \A k \in 1..2 : k = 1 \/ k = 2
  OBVIOUS
<1>6. Certified(c, as, sh)
  <2> DEFINE n == 2
  <2>1. \A k \in 1..n : Plain(as[k].path)
    BY <1>4, <1>5
  <2>2. n \in Nat /\ DOMAIN as = 1..n
    BY <1>1
  <2> HIDE DEF n
  <2> QED
    BY <1>2, <2>1, <2>2, CertifiedFact
<1> HIDE DEF a1, a2
<1>7. /\ Entry(c, a1.path, 200, h1, a1.content)
      /\ Entry(c, a2.path, 200, h2, a2.content)
  <2>1. 1 \in DOMAIN as /\ 2 \in DOMAIN as /\ as[1] = a1 /\ as[2] = a2
    BY <1>1 DEF a1, a2
  <2>2. PICK i \in DOMAIN as :
           as[i].path = a1.path /\ Entry(c, a1.path, 200, Assets!AssetHeaders(as[i]), as[i].content)
    BY <1>6, <2>1 DEF Certified
  <2>3. PICK j \in DOMAIN as :
           as[j].path = a2.path /\ Entry(c, a2.path, 200, Assets!AssetHeaders(as[j]), as[j].content)
    BY <1>6, <2>1 DEF Certified
  <2>4. i = 1 /\ j = 2
    BY <1>1, <1>4, <1>5, <2>1, <2>2, <2>3
  <2> QED
    BY <2>1, <2>2, <2>3, <2>4
<1>8. Whole(c, Paths) /\ c.shared = sh
  <2>1. {as[k].path : k \in DOMAIN as} = {a1.path, a2.path}
    <3>1. {as[k].path : k \in 1..2} = {as[1].path, as[2].path}
      BY <1>5
    <3> QED
      BY <3>1, <1>1 DEF a1, a2
  <2> QED
    BY <1>1, <1>6, <2>1 DEF Certified, Paths
<1>9. /\ Addable(sh, h1) /\ Addable(sh, h2)
  BY <1>3, AssetHeadersFact DEF Addable, SecurityFields
<1> QED
  BY <1>1, <1>7, <1>8, <1>9 DEF c, sh

\* The answer to a path of the canister under some version.
LEMMA PathServed ==
    ASSUME ServedInv, NEW path \in Paths, NEW version
    PROVE  LET r == Identity!HttpRequest("GET", path, version)
           IN  /\ Identity!Verifies(r, path, certified) /\ Identity!HeadersAreDistinct(r)
               /\ r.body = IF path = Identity!ConfigPath THEN <<persistent.openid_configs>>
                           ELSE Identity!OriginsOf(persistent)
               /\ Identity!HeaderMap(r.headers)["Permissions-Policy"] = Identity!OriginsOf(persistent)
<1> DEFINE c == Identity!InitAssets(persistent)
           body == IF path = Identity!ConfigPath THEN <<persistent.openid_configs>>
                   ELSE Identity!OriginsOf(persistent)
           r == Answer(c, path, version, sigs)
           y == Identity!Header("Permissions-Policy", Identity!OriginsOf(persistent))
<1>1. /\ assets = c /\ certified = Identity!UpdatedRoot(c, sigs)
  BY DEF ServedInv
<1>2. /\ Whole(c, Paths) /\ c.shared = Identity!SecurityHeaders(Identity!OriginsOf(persistent))
      /\ \E h : Addable(c.shared, h) /\ Entry(c, Identity!ConfigPath, 200, h, <<persistent.openid_configs>>)
      /\ \E h : Addable(c.shared, h) /\ Entry(c, Identity!DomainsPath, 200, h, Identity!OriginsOf(persistent))
  BY StaticAssets
<1>3. PICK h : Addable(c.shared, h) /\ Entry(c, path, 200, h, body)
  BY <1>2, PathsArePlain DEF Paths
<1>4. y \in Range(c.shared) /\ y.name = "Permissions-Policy" /\ y.value = Identity!OriginsOf(persistent)
  BY <1>2, SecurityHeadersFact DEF Identity!Header
<1> HIDE DEF c, body, y
<1>0. IsServed(r, c, path, version, sigs, 200, body)
  BY <1>2, <1>3, ServedFact
<1>5. /\ Assets!HasAsset(c, path)
      /\ r = [status |-> 200, headers |-> r.headers, body |-> body]
      /\ Assets!HeadersAreDistinct(r)
      /\ Assets!Verifies(r, path, [assets |-> Assets!RootHash(c), sigs |-> sigs])
      /\ \A x \in Range(c.shared) : Assets!HeaderMap(r.headers)[x.name] = x.value
  BY <1>0 DEF IsServed
<1>6. Identity!HttpRequest("GET", path, version) = r
  <2>1. path # Identity!MetricsPath
    BY PathsArePlain
  <2>2. Identity!HttpRequest("GET", path, version) = Identity!HttpGetRequest(path, version)
    BY DEF Identity!HttpRequest
  <2>3. Identity!HasAsset(assets, path)
    BY <1>1, <1>5, SameLibrary
  <2>4. Identity!HttpGetRequest(path, version) = Identity!GetAsset(path, version)
    BY <2>1, <2>3 DEF Identity!HttpGetRequest
  <2>5. Identity!GetCertifiedAsset(assets, path, version, sigs)
            = Assets!GetCertifiedAsset(c, path, version, sigs)
    BY <1>1, SameLibrary
  <2>6. Identity!GetAsset(path, version) = r
    BY <1>1, <2>5 DEF Identity!GetAsset, Answer
  <2> QED
    BY <2>2, <2>4, <2>6
<1> HIDE DEF r
<1>7. certified = [assets |-> Assets!RootHash(c), sigs |-> sigs]
  BY <1>1, SameLibrary DEF Identity!UpdatedRoot
<1>8. Identity!Verifies(r, path, certified) /\ Identity!HeadersAreDistinct(r)
  BY <1>5, <1>7, SameLibrary
<1>9. r.body = body
  BY <1>5
<1>10. Identity!HeaderMap(r.headers)["Permissions-Policy"] = Identity!OriginsOf(persistent)
  BY <1>4, <1>5, SameLibrary
<1> QED
  BY <1>6, <1>8, <1>9, <1>10 DEF body

LEMMA ConfigIsServed ==
    ASSUME ServedInv
    PROVE  Identity!ConfigIsInForce /\ Identity!ServedIsCertified
<1>1. DOMAIN assets.assets = Paths
  BY StaticAssets DEF ServedInv, Whole
<1>2. providers = [openid |-> persistent.openid_configs, oidc |-> persistent.oidc_configs]
      /\ providers.openid = persistent.openid_configs
  BY DEF ServedInv
<1>3. Identity!ConfigPath \in Paths /\ Identity!DomainsPath \in Paths
      /\ Identity!DomainsPath # Identity!ConfigPath
  BY PathsArePlain DEF Paths
<1>4. ASSUME NEW path \in DOMAIN assets.assets, NEW version
      PROVE  LET r == Identity!HttpRequest("GET", path, version)
             IN  Identity!Verifies(r, path, certified) /\ Identity!HeadersAreDistinct(r)
  BY <1>1, PathServed
<1>5. Identity!ServedIsCertified
  BY <1>4 DEF Identity!ServedIsCertified
<1>6. /\ Identity!HttpRequest("GET", Identity!ConfigPath, 2).body = <<providers.openid>>
      /\ Identity!HttpRequest("GET", Identity!DomainsPath, 1).body = Identity!OriginsOf(persistent)
  BY <1>2, <1>3, PathServed
<1>7. ASSUME NEW path \in DOMAIN assets.assets
      PROVE  Identity!HeaderMap(Identity!HttpRequest("GET", path, 2).headers)["Permissions-Policy"]
                 = Identity!OriginsOf(persistent)
  BY <1>1, PathServed
<1> QED
  BY <1>2, <1>5, <1>6, <1>7 DEF Identity!ConfigIsInForce

-----------------------------------------------------------------------------
(***************************************************************************)
(* Sequences: what is flattened, what enumerates a set, and what is joined. *)
(***************************************************************************)

\* A recursive function on the indices of a sequence of n sequences.
Flattens(s, n, f) ==
    f = [i \in 1..n |-> IF i = 1 THEN s[i] ELSE f[i - 1] \o s[i]]

LEMMA FlattenExists ==
    ASSUME NEW s, NEW n \in Nat
    PROVE  \E f : Flattens(s, n, f)
<1> DEFINE First(f, i) == IF i = 1 THEN s[i] ELSE f[i - 1] \o s[i]
           B == {m \in Nat : \E f : \A i \in 1..n : i <= m => f[i] = First(f, i)}
<1>1. 0 \in B
  <2>1. \A f : \A i \in 1..n : i <= 0 => f[i] = First(f, i)
    OBVIOUS
  <2> QED
    BY <2>1
<1>2. ASSUME NEW m \in Nat, m \in B PROVE m + 1 \in B
  <2>1. PICK f : \A i \in 1..n : i <= m => f[i] = First(f, i)
    BY <1>2
  <2> DEFINE g == [i \in 1..n |-> First(f, i)]
  <2>2. ASSUME NEW i \in 1..n, i <= m + 1 PROVE g[i] = First(g, i)
    <3>1. g[i] = First(f, i)
      OBVIOUS
    <3>2. CASE i = 1
      BY <3>1, <3>2
    <3>3. CASE i # 1
      <4>1. i - 1 \in 1..n /\ i - 1 <= m
        BY <2>2, <3>3
      <4>2. g[i - 1] = f[i - 1]
        BY <2>1, <4>1
      <4> HIDE DEF g
      <4> QED
        BY <3>1, <3>3, <4>2
    <3> QED
      BY <3>2, <3>3
  <2> HIDE DEF g, First
  <2>3. m + 1 \in Nat
    OBVIOUS
  <2> QED
    BY <2>2, <2>3, Zenon
<1> HIDE DEF B
<1>3. n \in B
  <2>1. B \in SUBSET Nat
    BY DEF B
  <2> QED
    BY <1>1, <1>2, <2>1, NatInd
<1>4. PICK f : \A i \in 1..n : i <= n => f[i] = First(f, i)
  BY <1>3 DEF B
<1> DEFINE g == [i \in 1..n |-> f[i]]
<1>5. ASSUME NEW i \in 1..n PROVE g[i] = First(g, i)
  <2>1. i # 1 => i - 1 \in 1..n
    OBVIOUS
  <2>2. f[i] = First(f, i)
    BY <1>4
  <2> QED
    BY <2>1, <2>2
<1>6. g = [i \in 1..n |-> First(g, i)]
  <2> DEFINE h == [i \in 1..n |-> First(g, i)]
  <2>1. \A i \in 1..n : g[i] = h[i]
    BY <1>5
  <2>2. g = [i \in 1..n |-> g[i]] /\ h = [i \in 1..n |-> h[i]]
    OBVIOUS
  <2> HIDE DEF g, h
  <2>3. g = h
    BY <2>1, <2>2
  <2> QED
    BY <2>3 DEF h
<1> QED
  BY <1>6 DEF Flattens

\* What FlattenSeq returns has the members of all the sequences.
LEMMA FlattenFact ==
    ASSUME NEW R, NEW s \in Seq(Seq(R))
    PROVE  /\ Dapp!FlattenSeq(s) \in Seq(R)
           /\ Dapp!Range(Dapp!FlattenSeq(s)) = UNION {Dapp!Range(s[i]) : i \in DOMAIN s}
<1> DEFINE n == Len(s)
           f == CHOOSE f : Flattens(s, n, f)
           All(k) == UNION {Range(s[i]) : i \in 1..k}
<1>1. n \in Nat /\ DOMAIN s = 1..n /\ \A i \in 1..n : s[i] \in Seq(R)
  OBVIOUS
<1>2. Flattens(s, n, f)
  BY <1>1, FlattenExists
<1>3. n # 0 => Dapp!FlattenSeq(s) = f[n]
  BY DEF Dapp!FlattenSeq, Flattens
<1> HIDE DEF n, f
<1>4. \A i \in 1..n : f[i] = IF i = 1 THEN s[i] ELSE f[i - 1] \o s[i]
  BY <1>2 DEF Flattens
<1>5. CASE n = 0
  <2>1. s = <<>> /\ DOMAIN s = {}
    BY <1>1, <1>5 DEF n
  <2>2. Dapp!FlattenSeq(s) = s
    BY <1>5 DEF n, Dapp!FlattenSeq
  <2>3. Dapp!Range(s) = {} /\ {Dapp!Range(s[i]) : i \in DOMAIN s} = {}
    BY <2>1 DEF Dapp!Range
  <2>4. <<>> \in Seq(R)
    OBVIOUS
  <2>5. UNION {} = {}
    OBVIOUS
  <2> QED
    BY <2>1, <2>2, <2>3, <2>4, <2>5, Zenon
<1>6. CASE n # 0
  <2> DEFINE Right(m) == f[m] \in Seq(R) /\ Range(f[m]) = All(m)
             B == {m \in Nat : m \in 1..n => Right(m)}
  <2>1. 0 \in B
    OBVIOUS
  <2>2. ASSUME NEW m \in Nat, m \in B, m + 1 \in 1..n PROVE Right(m + 1)
    <3>1. CASE m = 0
      <4>1. f[1] = s[1] /\ m + 1 = 1 /\ 1 \in 1..n
        BY <1>4, <2>2, <3>1
      <4>2. All(1) = Range(s[1])
        <5>1. 1..1 = {1}
          OBVIOUS
        <5> QED
          BY <5>1
      <4> HIDE DEF All
      <4> QED
        BY <1>1, <4>1, <4>2
    <3>2. CASE m # 0
      <4>1. m \in 1..n /\ m + 1 # 1 /\ (m + 1) - 1 = m
        BY <1>1, <2>2, <3>2
      <4>2. f[m + 1] = f[m] \o s[m + 1]
        BY <1>4, <2>2, <4>1
      <4>3. f[m] \in Seq(R) /\ Range(f[m]) = All(m)
        BY <2>2, <4>1
      <4>4. All(m + 1) = All(m) \cup Range(s[m + 1])
        <5>1. 1..(m + 1) = 1..m \cup {m + 1}
          OBVIOUS
        <5> QED
          BY <5>1
      <4>5. s[m + 1] \in Seq(R)
        BY <1>1, <2>2
      <4> HIDE DEF All
      <4>6. /\ f[m] \o s[m + 1] \in Seq(R)
            /\ Range(f[m] \o s[m + 1]) = Range(f[m]) \cup Range(s[m + 1])
        BY <4>3, <4>5, RangeConcatenation
      <4> QED
        BY <4>2, <4>3, <4>4, <4>6
    <3> QED
      BY <3>1, <3>2
  <2>3. ASSUME NEW m \in Nat, m \in B PROVE m + 1 \in B
    <3>1. m + 1 \in Nat
      OBVIOUS
    <3> HIDE DEF Right
    <3> QED
      BY <2>2, <2>3, <3>1
  <2>4. n \in B
    <3>1. B \in SUBSET Nat
      OBVIOUS
    <3> HIDE DEF B
    <3> QED
      BY <1>1, <2>1, <2>3, <3>1, NatInd
  <2>5. Right(n)
    <3>1. n \in 1..n
      BY <1>1, <1>6
    <3> HIDE DEF Right
    <3> QED
      BY <2>4, <3>1
  <2>6. All(n) = UNION {Dapp!Range(s[i]) : i \in DOMAIN s}
    BY <1>1 DEF Range, Dapp!Range
  <2>7. Dapp!Range(f[n]) = Range(f[n])
    BY DEF Range, Dapp!Range
  <2> HIDE DEF All
  <2> QED
    BY <1>3, <1>6, <2>5, <2>6, <2>7
<1> QED
  BY <1>5, <1>6

LEMMA EnumerationFact ==
    ASSUME NEW S, IsFiniteSet(S)
    PROVE  Dapp!SetToSeq(S) \in Seq(S) /\ Range(Dapp!SetToSeq(S)) = S
<1> DEFINE n == Cardinality(S)
           f == Dapp!SetToSeq(S)
<1>1. n \in Nat /\ ExistsBijection(1..n, S)
  BY FS_CardinalityType
<1>2. \E g \in [1..n -> S] : Dapp!IsInjective(g)
  BY <1>1 DEF ExistsBijection, Bijection, Injection, IsInjective, Dapp!IsInjective
<1>3. f \in [1..n -> S] /\ Dapp!IsInjective(f)
  <2>1. Dapp!Cardinality(S) = n
    BY DEF Dapp!Cardinality, Cardinality
  <2> HIDE DEF n
  <2> QED
    BY <1>2, <2>1 DEF Dapp!SetToSeq
<1> HIDE DEF f
<1>4. f \in Injection(1..n, S)
  BY <1>3 DEF Injection, IsInjective, Dapp!IsInjective
<1>5. Cardinality(1..n) = n
  BY <1>1, FS_Interval
<1>6. f \in Surjection(1..n, S)
  BY <1>4, <1>5, FS_Injection
<1>7. Range(f) = S
  BY <1>3, <1>6 DEF Range, Surjection
<1>8. f \in Seq(S)
  BY <1>1, <1>3, SeqDef
<1> QED
  BY <1>7, <1>8 DEF f

\* w is sequence u with v behind it.
Joined(w, u, v) ==
    /\ DOMAIN w = 1..(Len(u) + Len(v)) /\ Len(u) \in Nat
    /\ \A k \in 1..Len(u) : w[k] = u[k]
    /\ \A k \in 1..Len(v) : w[Len(u) + k] = v[k]

LEMMA JoinFact ==
    ASSUME NEW R, NEW u \in Seq(R), NEW v \in Seq(R)
    PROVE  Joined(u \o v, u, v)
<1> DEFINE w == u \o v
<1>1. w \in Seq(R) /\ Len(w) = Len(u) + Len(v)
  OBVIOUS
<1>2. Len(u) \in Nat /\ Len(v) \in Nat /\ DOMAIN w = 1..Len(w)
  BY <1>1
<1>3. \A k \in 1..Len(u) : w[k] = u[k]
  OBVIOUS
<1>4. \A k \in 1..Len(v) : w[Len(u) + k] = v[k]
  OBVIOUS
<1> QED
  BY <1>1, <1>2, <1>3, <1>4 DEF Joined

-----------------------------------------------------------------------------
(***************************************************************************)
(* The dapp: what the files of a build become.  Those of a file have its   *)
(* content, and no two files have a path in common, so that the one asset  *)
(* that stays under a path is one of the file.                             *)
(***************************************************************************)

LEMMA FinitePaths == ASSUME NEW f PROVE IsFiniteSet(Dapp!UrlPaths(f))
<1>1. \A x : IsFiniteSet({x})
  BY FS_Singleton
<1>2. \A x, y : IsFiniteSet({x, y})
  <2> TAKE x, y
  <2>1. {x, y} = {x} \cup {y}
    OBVIOUS
  <2>2. IsFiniteSet({x})
    BY <1>1
  <2>3. IsFiniteSet({x} \cup {y})
    BY <2>2, FS_AddElement
  <2> QED
    BY <2>1, <2>3
<1>3. \A x, y, z : IsFiniteSet({x, y, z})
  <2> TAKE x, y, z
  <2>1. {x, y, z} = {x, y} \cup {z}
    OBVIOUS
  <2>2. IsFiniteSet({x, y})
    BY <1>2
  <2>3. IsFiniteSet({x, y} \cup {z})
    BY <2>2, FS_AddElement
  <2> QED
    BY <2>1, <2>3
<1> QED
  BY <1>1, <1>2, <1>3 DEF Dapp!UrlPaths, Dapp!Page

\* The assets of the files of a build.
Listed(t) == UNION {{Dapp!AssetOf(path, t[i]) : path \in Dapp!UrlPaths(t[i])} : i \in DOMAIN t}

LEMMA CollectFact ==
    ASSUME NEW t, Dapp!IsSequence(t)
    PROVE  Dapp!Collect(t) \in Seq(Listed(t)) /\ Dapp!Range(Dapp!Collect(t)) = Listed(t)
<1> DEFINE paths(i) == Dapp!SetToSeq(Dapp!UrlPaths(t[i]))
           part0(i) == {Dapp!AssetOf(path, t[i]) : path \in Dapp!UrlPaths(t[i])}
           row(i) == [j \in DOMAIN paths(i) |-> Dapp!AssetOf(paths(i)[j], t[i])]
           rows == [i \in DOMAIN t |-> row(i)]
           R == Listed(t)
<1>1. Dapp!Collect(t) = Dapp!FlattenSeq(rows)
  BY DEF Dapp!Collect
<1>2. ASSUME NEW i \in DOMAIN t
      PROVE  row(i) \in Seq(R) /\ Dapp!Range(row(i)) = part0(i)
  <2> DEFINE s == paths(i)
             P == Dapp!UrlPaths(t[i])
             a(p) == Dapp!AssetOf(p, t[i])
  <2>1. s \in Seq(P) /\ Range(s) = P
    BY FinitePaths, EnumerationFact
  <2>2. Dapp!Range(row(i)) = {a(s[j]) : j \in DOMAIN s}
    BY DEF Dapp!Range
  <2>3. part0(i) = {a(p) : p \in Range(s)}
    BY <2>1
  <2>4. Dapp!Range(row(i)) = part0(i)
    <3> HIDE DEF a, s
    <3> QED
      BY <2>2, <2>3 DEF Range
  <2>5. part0(i) \subseteq R
    BY DEF Listed
  <2>6. row(i) \in [DOMAIN s -> R]
    <3>1. \A j \in DOMAIN s : row(i)[j] \in part0(i)
      BY <2>4 DEF Dapp!Range
    <3> HIDE DEF part0, R
    <3> QED
      BY <2>5, <3>1
  <2>7. DOMAIN s = 1..Len(s) /\ Len(s) \in Nat
    BY <2>1
  <2> HIDE DEF s, part0, R
  <2> QED
    BY <2>4, <2>6, <2>7, SeqDef
<1> HIDE DEF row
<1>3. DOMAIN t = 1..Len(t) /\ Len(t) \in Nat
  BY DEF Dapp!IsSequence
<1>4. rows \in [1..Len(t) -> Seq(R)]
  BY <1>2, <1>3
<1>5. rows \in Seq(Seq(R))
  BY <1>3, <1>4, SeqDef
<1>6. {Dapp!Range(rows[i]) : i \in DOMAIN rows} = {part0(i) : i \in DOMAIN t}
  BY <1>2
<1>7. R = UNION {part0(i) : i \in DOMAIN t}
  BY DEF Listed
<1> HIDE DEF rows, R, part0
<1> QED
  BY <1>1, <1>5, <1>6, <1>7, FlattenFact DEF R

Alternative == Dapp!ALTERNATIVE_ORIGINS_PATH
Evil == Dapp!EVIL_ALTERNATIVE_ORIGINS_PATH

\* What a listed asset becomes: the page of the canister, if it is a page.
Transformed(a) ==
    IF a.type = "html" THEN [a EXCEPT !.content = Dapp!FixupHtml(a.content)] ELSE a

\* The assets of the canister of a build.
AllAssets(t) ==
    Dapp!CollectTransformed(t, [c \in Dapp!ContentsOf(t) |-> Dapp!FixupHtml(c)])
        \o <<Dapp!AlternativeOrigins(<<>>), Dapp!Json(Evil, <<"evil">>)>>

LEMMA TransformedFact ==
    ASSUME NEW t, Dapp!IsSequence(t)
    PROVE  LET s == Dapp!Collect(t) IN
           \E m \in Nat :
              /\ DOMAIN s = 1..m /\ Range(s) = Listed(t)
              /\ DOMAIN AllAssets(t) = 1..(m + 2)
              /\ \A k \in 1..m : AllAssets(t)[k] = Transformed(s[k])
              /\ AllAssets(t)[m + 1] = Dapp!AlternativeOrigins(<<>>)
              /\ AllAssets(t)[m + 2] = Dapp!Json(Evil, <<"evil">>)
<1> DEFINE s == Dapp!Collect(t)
           m == Len(s)
           tr == [c \in Dapp!ContentsOf(t) |-> Dapp!FixupHtml(c)]
           u == Dapp!CollectTransformed(t, tr)
           a == Dapp!AlternativeOrigins(<<>>)
           b == Dapp!Json(Evil, <<"evil">>)
           v == <<a, b>>
<1>1. s \in Seq(Listed(t)) /\ Dapp!Range(s) = Listed(t)
  BY CollectFact
<1>2. m \in Nat /\ DOMAIN s = 1..m /\ Range(s) = Listed(t)
  BY <1>1 DEF Range, Dapp!Range
<1>3. ASSUME NEW k \in 1..m PROVE s[k].content \in Dapp!ContentsOf(t)
  <2>1. s[k] \in Listed(t)
    BY <1>2 DEF Range
  <2>2. PICK i \in DOMAIN t : \E path \in Dapp!UrlPaths(t[i]) : s[k] = Dapp!AssetOf(path, t[i])
    BY <2>1 DEF Listed
  <2>3. s[k].content = t[i].content
    BY <2>2 DEF Dapp!AssetOf
  <2> QED
    BY <2>3 DEF Dapp!ContentsOf
<1>4. u = [k \in 1..m |-> IF s[k].type = "html" THEN [s[k] EXCEPT !.content = tr[@]] ELSE s[k]]
  BY <1>2 DEF Dapp!CollectTransformed
<1>5. \A k \in 1..m : u[k] = Transformed(s[k])
  <2> TAKE k \in 1..m
  <2>1. tr[s[k].content] = Dapp!FixupHtml(s[k].content)
    BY <1>3
  <2>2. u[k] = IF s[k].type = "html" THEN [s[k] EXCEPT !.content = tr[s[k].content]] ELSE s[k]
    BY <1>4
  <2> HIDE DEF u, s, tr
  <2> QED
    BY <2>1, <2>2 DEF Transformed
<1> DEFINE R == Range(u) \cup {a, b}
<1>6. u \in Seq(R) /\ Len(u) = m
  <2>1. DOMAIN u = 1..m
    BY <1>4
  <2>2. u \in [1..m -> R]
    <3>1. u = [k \in 1..m |-> u[k]]
      BY <1>4
    <3> HIDE DEF u, m
    <3> QED
      BY <2>1, <3>1 DEF Range
  <2>3. u \in Seq(R)
    BY <1>2, <2>2, SeqDef
  <2> HIDE DEF u, R, m
  <2> QED
    BY <1>2, <2>1, <2>3
<1>7. v \in Seq(R) /\ Len(v) = 2 /\ v[1] = a /\ v[2] = b
  OBVIOUS
<1>8. AllAssets(t) = u \o v
  BY DEF AllAssets
<1> HIDE DEF u, v, R, a, b, m, s
<1>9. /\ DOMAIN (u \o v) = 1..(m + 2)
      /\ \A k \in 1..m : (u \o v)[k] = u[k]
      /\ (u \o v)[m + 1] = a /\ (u \o v)[m + 2] = b
  <2>1. /\ DOMAIN (u \o v) = 1..(Len(u) + Len(v))
        /\ \A k \in 1..Len(u) : (u \o v)[k] = u[k]
        /\ \A k \in 1..Len(v) : (u \o v)[Len(u) + k] = v[k]
    <3>1. Joined(u \o v, u, v)
      BY <1>6, <1>7, JoinFact
    <3> QED
      BY <3>1 DEF Joined
  <2>2. 1 \in 1..Len(v) /\ 2 \in 1..Len(v)
    BY <1>7
  <2>3. (u \o v)[m + 1] = v[1] /\ (u \o v)[m + 2] = v[2]
    BY <1>6, <2>1, <2>2
  <2> QED
    BY <1>6, <1>7, <2>1, <2>3
<1>10. /\ DOMAIN s = 1..m /\ Range(s) = Listed(t)
       /\ DOMAIN AllAssets(t) = 1..(m + 2)
       /\ \A k \in 1..m : AllAssets(t)[k] = Transformed(s[k])
       /\ AllAssets(t)[m + 1] = Dapp!AlternativeOrigins(<<>>)
       /\ AllAssets(t)[m + 2] = Dapp!Json(Evil, <<"evil">>)
  BY <1>2, <1>5, <1>8, <1>9 DEF a, b
<1> QED
  BY <1>2, <1>10 DEF s

LEMMA OwnPaths ==
    /\ Plain(Alternative) /\ Plain(Evil) /\ Alternative # Evil
<1> DEFINE a == <<"", "well-known">>
           b == <<"ii-alternative-origins">>
           c == <<"evil-alternative-origins">>
           e == <<"<$>">>
<1>1. Len(a) = 2 /\ Len(b) = 1 /\ Len(c) = 1 /\ Len(e) = 1
  OBVIOUS
<1>2. b[1] # e[1] /\ c[1] # e[1] /\ b[1] # c[1]
  OBVIOUS
<1>3. a # e /\ b # e /\ c # e /\ b # c
  BY <1>1, <1>2
<1> HIDE DEF a, b, c, e
<1>4. \A x : <<a, x>> \in Seq({a, x}) /\ Range(<<a, x>>) = {a, x} /\ <<a, x>>[2] = x
  <2> TAKE x
  <2>1. DOMAIN <<a, x>> = {1, 2} /\ <<a, x>>[1] = a /\ <<a, x>>[2] = x
    OBVIOUS
  <2> QED
    BY <2>1 DEF Range
<1>5. Plain(<<a, b>>) /\ Plain(<<a, c>>)
  BY <1>3, <1>4 DEF Plain, e
<1>6. <<a, b>> # <<a, c>>
  BY <1>3, <1>4
<1>7. Alternative = <<a, b>> /\ Evil = <<a, c>>
  BY DEF Alternative, Evil, Dapp!ALTERNATIVE_ORIGINS_PATH, Dapp!EVIL_ALTERNATIVE_ORIGINS_PATH,
         Dapp!WellKnown, a, b, c
<1> QED
  BY <1>5, <1>6, <1>7

Static == Dapp!StaticHeaders
StaticFields == {"Access-Control-Allow-Origin", "Referrer-Policy"}

LEMMA StaticFact == Good(Static) /\ Names(Static) = StaticFields
<1> DEFINE x == Dapp!Header("Access-Control-Allow-Origin", "*")
           y == Dapp!Header("Referrer-Policy", "strict-origin-when-cross-origin")
           s == <<x>>
           t == <<y>>
<1>1. x.name = "Access-Control-Allow-Origin" /\ y.name = "Referrer-Policy"
  BY DEF Dapp!Header
<1> HIDE DEF x, y
<1>2. Good(s) /\ Names(s) = {x.name} /\ Good(t) /\ Names(t) = {y.name}
  BY GoodSingle
<1>3. <<x, y>> = s \o t
  <2>1. <<x, y>> = Append(<<x>>, y)
    OBVIOUS
  <2> QED
    BY <1>2, <2>1, AppendIsJoin
<1> HIDE DEF s, t
<1>4. Names(s) \cap Names(t) = {}
  BY <1>1, <1>2
<1>5. Good(s \o t) /\ Names(s \o t) = Names(s) \cup Names(t)
  BY <1>2, <1>4, GoodJoin
<1>6. Static = s \o t
  BY <1>3 DEF Static, Dapp!StaticHeaders, x, y
<1> QED
  BY <1>1, <1>2, <1>5, <1>6 DEF StaticFields

\* An asset has headers that those of the canister can be added to.
LEMMA AddableFact ==
    /\ \A asset : Addable(Static, Assets!AssetHeaders(asset))
    /\ \A location : Addable(Static, <<Dapp!Header("Location", location)>>)
<1>1. \A asset : Addable(Static, Assets!AssetHeaders(asset))
  BY StaticFact, AssetHeadersFact DEF Addable, StaticFields
<1>2. ASSUME NEW location PROVE Addable(Static, <<Dapp!Header("Location", location)>>)
  <2>1. Dapp!Header("Location", location).name = "Location"
    BY DEF Dapp!Header
  <2> QED
    BY <2>1, StaticFact, GoodSingle DEF Addable, StaticFields
<1> QED
  BY <1>1, <1>2

\* The dapp and Internet Identity use the same library.
LEMMA DappLibrary ==
    /\ \A c, path, version, s :
          Dapp!GetCertifiedAsset(c, path, version, s) = Assets!GetCertifiedAsset(c, path, version, s)
    /\ \A c, path : Dapp!HasAsset(c, path) = Assets!HasAsset(c, path)
    /\ \A c : Dapp!RootHash(c) = Assets!RootHash(c)
    /\ \A r, path, c : Dapp!Verifies(r, path, c) = Assets!Verifies(r, path, c)
    /\ \A r : Dapp!CertifiedHeaders(r) = Assets!CertifiedHeaders(r)
<1>1. \A c, path, version, s :
          Dapp!GetCertifiedAsset(c, path, version, s) = Assets!GetCertifiedAsset(c, path, version, s)
  BY DEF Dapp!GetCertifiedAsset, Assets!GetCertifiedAsset, Dapp!Header, Assets!Header,
         Dapp!Certificate, Assets!Certificate, Dapp!RootHash, Assets!RootHash,
         Dapp!Expression, Assets!Expression
<1>2. \A c, path : Dapp!HasAsset(c, path) = Assets!HasAsset(c, path)
  BY DEF Dapp!HasAsset, Assets!HasAsset
<1>3. \A c : Dapp!RootHash(c) = Assets!RootHash(c)
  BY DEF Dapp!RootHash, Assets!RootHash
<1>4. \A r, path, c : Dapp!Verifies(r, path, c) = Assets!Verifies(r, path, c)
  BY DEF Dapp!Verifies, Assets!Verifies, Dapp!CertificateOf, Assets!CertificateOf,
         Dapp!CertifiedHeaders, Assets!CertifiedHeaders, Dapp!HeaderMap, Assets!HeaderMap
<1>5. \A r : Dapp!CertifiedHeaders(r) = Assets!CertifiedHeaders(r)
  BY DEF Dapp!CertifiedHeaders, Assets!CertifiedHeaders, Dapp!HeaderMap, Assets!HeaderMap
<1> QED
  BY <1>1, <1>2, <1>3, <1>4, <1>5

LEMMA DappCertification ==
    ASSUME NEW as, NEW sh
    PROVE  Dapp!CertifyAssets(as, sh) = Assets!CertifyAssets(as, sh)
  BY DEF Dapp!CertifyAssets, Assets!CertifyAssets, Dapp!FoldLeft, Assets!FoldLeft,
         Dapp!MapThenFoldSet, Assets!MapThenFoldSet, Dapp!Max, Assets!Max,
         Dapp!CertifyAsset, Assets!CertifyAsset, Dapp!NoAssets, Assets!NoAssets,
         Dapp!Add, Assets!Add, Dapp!AddV2, Assets!AddV2, Dapp!Inserted, Assets!Inserted,
         Dapp!IsPrefix, Assets!IsPrefix, Dapp!ResponseHash, Assets!ResponseHash,
         Dapp!HeaderMap, Assets!HeaderMap, Dapp!AssetHeaders, Assets!AssetHeaders,
         Dapp!Header, Assets!Header, Dapp!Expression, Assets!Expression,
         Dapp!Immutable, Assets!Immutable,
         Dapp!EXACT_MATCH_TERMINATOR, Assets!EXACT_MATCH_TERMINATOR

LEMMA DappAdds ==
    /\ \A c, path, status, h, body, sh :
          Dapp!Add(c, path, status, h, body, sh) = Assets!Add(c, path, status, h, body, sh)
    /\ \A c, asset, sh : Dapp!CertifyAsset(c, asset, sh) = Assets!CertifyAsset(c, asset, sh)
  BY DEF Dapp!CertifyAsset, Assets!CertifyAsset,
         Dapp!Add, Assets!Add, Dapp!AddV2, Assets!AddV2, Dapp!Inserted, Assets!Inserted,
         Dapp!IsPrefix, Assets!IsPrefix, Dapp!ResponseHash, Assets!ResponseHash,
         Dapp!HeaderMap, Assets!HeaderMap, Dapp!AssetHeaders, Assets!AssetHeaders,
         Dapp!Header, Assets!Header, Dapp!Expression, Assets!Expression,
         Dapp!Immutable, Assets!Immutable,
         Dapp!EXACT_MATCH_TERMINATOR, Assets!EXACT_MATCH_TERMINATOR

\* The content with which a file is served.
Body(f) ==
    IF Dapp!TypeAndEncoding(f).type = "html" THEN Dapp!FixupHtml(f.content) ELSE f.content

\* Assets c serve the files of build t, but for the asset that changes.
FilesIn(c, t) ==
    \A i \in DOMAIN t : \A path \in Dapp!UrlPaths(t[i]) \ {Alternative} :
        /\ path \in DOMAIN c.assets
        /\ \E h : Addable(Static, h) /\ Entry(c, path, 200, h, Body(t[i]))

\* Under every path of c there is one response.
OneEach(c) ==
    /\ c.shared = Static /\ Whole(c, DOMAIN c.assets)
    /\ \A path \in DOMAIN c.assets : \E status, h, body :
          Addable(Static, h) /\ Entry(c, path, status, h, body)

LEMMA ListedPaths ==
    ASSUME NEW t, Dapp!Servable(t), NEW a \in Listed(t)
    PROVE  /\ Plain(Transformed(a).path) /\ Transformed(a).path = a.path /\ a.path # Evil
           /\ \A i \in DOMAIN t : a.path \in Dapp!UrlPaths(t[i]) => Transformed(a).content = Body(t[i])
<1>1. PICK k \in DOMAIN t : \E p \in Dapp!UrlPaths(t[k]) : a = Dapp!AssetOf(p, t[k])
  BY DEF Listed
<1>2. PICK p \in Dapp!UrlPaths(t[k]) : a = Dapp!AssetOf(p, t[k])
  BY <1>1
<1> DEFINE f == t[k]
           y == Dapp!TypeAndEncoding(f).type
           z == Dapp!TypeAndEncoding(f).encoding
<1>3. a = [path |-> p, content |-> f.content, type |-> y, encoding |-> z]
  BY <1>2 DEF Dapp!AssetOf
<1> HIDE DEF f, y, z
<1>4. a.path = p /\ a.type = y /\ a.content = f.content
  BY <1>3
<1>5. Transformed(a).path = p
      /\ Transformed(a).content = IF y = "html" THEN Dapp!FixupHtml(f.content) ELSE f.content
  BY <1>3, <1>4 DEF Transformed
<1>6. Transformed(a).content = Body(t[k])
  BY <1>5 DEF Body, y, f
<1>7. Plain(p) /\ p # Evil
  BY <1>2 DEF Dapp!Servable, Dapp!IsSequence, Plain, Range, Dapp!Range, Evil,
              Dapp!EXACT_MATCH_TERMINATOR
<1>8. ASSUME NEW i \in DOMAIN t, p \in Dapp!UrlPaths(t[i]) PROVE i = k
  BY <1>2, <1>8 DEF Dapp!Servable, Dapp!Sensible
<1> QED
  BY <1>4, <1>5, <1>6, <1>7, <1>8

LEMMA InitialFact ==
    ASSUME NEW t, Dapp!Servable(t)
    PROVE  OneEach(Dapp!InitialAssets(t)) /\ FilesIn(Dapp!InitialAssets(t), t)
<1> DEFINE as == AllAssets(t)
           c == Dapp!InitialAssets(t)
           x == Dapp!AlternativeOrigins(<<>>)
           y == Dapp!Json(Evil, <<"evil">>)
           s == Dapp!Collect(t)
<1>1. PICK m \in Nat :
              /\ DOMAIN s = 1..m /\ Range(s) = Listed(t)
              /\ DOMAIN as = 1..(m + 2)
              /\ \A k \in 1..m : as[k] = Transformed(s[k])
              /\ as[m + 1] = x /\ as[m + 2] = y
  BY TransformedFact DEF Dapp!Servable
<1>2. c = Assets!CertifyAssets(as, Static)
  BY DappCertification DEF Dapp!InitialAssets, AllAssets, Static, Evil
<1>3. x.path = Alternative /\ y.path = Evil
  BY DEF Dapp!AlternativeOrigins, Dapp!Json, Alternative
<1> HIDE DEF as, c, x, y, s
<1>4. ASSUME NEW k \in 1..m
      PROVE  /\ s[k] \in Listed(t) /\ as[k] = Transformed(s[k])
             /\ Plain(as[k].path) /\ as[k].path = s[k].path /\ s[k].path # Evil
  <2>1. s[k] \in Listed(t)
    BY <1>1 DEF Range
  <2> QED
    BY <1>1, <2>1, ListedPaths
<1>5. \A k \in 1..(m + 2) : k \in 1..m \/ k = m + 1 \/ k = m + 2
  OBVIOUS
<1>6. \A k \in 1..(m + 2) : Plain(as[k].path)
  BY <1>1, <1>3, <1>4, <1>5, OwnPaths
<1>7. Certified(c, as, Static)
  <2> DEFINE n == m + 2
  <2>0. n \in Nat
    BY <1>1
  <2>1. DOMAIN as = 1..n /\ \A k \in 1..n : Plain(as[k].path)
    BY <1>1, <1>6, Zenon
  <2> HIDE DEF n
  <2> QED
    BY <1>2, <2>0, <2>1, CertifiedFact
<1>8. OneEach(c)
  <2>1. DOMAIN c.assets = {as[k].path : k \in DOMAIN as}
    BY <1>7 DEF Certified, Whole
  <2>2. ASSUME NEW path \in DOMAIN c.assets
        PROVE  \E status, h, body : Addable(Static, h) /\ Entry(c, path, status, h, body)
    <3>1. PICK k \in DOMAIN as : path = as[k].path
      BY <2>1
    <3>2. PICK j \in DOMAIN as : Entry(c, path, 200, Assets!AssetHeaders(as[j]), as[j].content)
      BY <1>7, <3>1 DEF Certified
    <3> QED
      BY <3>2, AddableFact
  <2>3. c.shared = Static /\ Whole(c, DOMAIN c.assets)
    BY <1>7, <2>1 DEF Certified
  <2> QED
    BY <2>2, <2>3, Zenon DEF OneEach
<1>9. ASSUME NEW i \in DOMAIN t, NEW path \in Dapp!UrlPaths(t[i]) \ {Alternative}
      PROVE  /\ path \in DOMAIN c.assets
             /\ \E h : Addable(Static, h) /\ Entry(c, path, 200, h, Body(t[i]))
  <2> DEFINE a == Dapp!AssetOf(path, t[i])
  <2>1. a \in Listed(t) /\ a.path = path
    BY DEF Listed, Dapp!AssetOf
  <2>2. PICK k \in 1..m : s[k] = a
    BY <1>1, <2>1 DEF Range
  <2> HIDE DEF a
  <2>3. k \in DOMAIN as /\ as[k].path = path
    <3>1. k \in 1..(m + 2)
      OBVIOUS
    <3>2. as[k].path = s[k].path
      BY <1>4
    <3> QED
      BY <1>1, <2>1, <2>2, <3>1, <3>2, Zenon
  <2>4. PICK j \in DOMAIN as :
           as[j].path = path /\ Entry(c, path, 200, Assets!AssetHeaders(as[j]), as[j].content)
    BY <1>7, <2>3 DEF Certified
  <2>5. path # Evil
    BY <2>1, ListedPaths
  <2>6. j \in 1..m
    BY <1>1, <1>3, <1>5, <2>4, <2>5
  <2>7. s[j] \in Listed(t) /\ s[j].path = path /\ as[j] = Transformed(s[j])
    BY <1>4, <2>4, <2>6
  <2>8. as[j].content = Body(t[i])
    BY <2>7, ListedPaths
  <2>9. path \in DOMAIN c.assets
    BY <1>7, <2>3 DEF Certified, Whole
  <2> QED
    BY <2>4, <2>8, <2>9, AddableFact
<1> QED
  BY <1>8, <1>9 DEF FilesIn, c

-----------------------------------------------------------------------------
(***************************************************************************)
(* What the dapp answers.  In the mode that spoils the certificate, an answer *)
(* differs in nothing else from what is certified.                         *)
(***************************************************************************)

\* A certificate that is replaced by another one.
Replaced(s, l) ==
    [i \in DOMAIN s |-> IF s[i].name = "IC-Certificate" THEN CertificateHeader(l) ELSE s[i]]

LEMMA ReplacedFact ==
    ASSUME NEW h, Good(h), "IC-Certificate" \notin Names(h), NEW k, NEW l
    PROVE  Replaced(h \o <<CertificateHeader(k), ExpressionHeader>>, l)
               = h \o <<CertificateHeader(l), ExpressionHeader>>
<1> DEFINE x == CertificateHeader(k)
           y == CertificateHeader(l)
           e == ExpressionHeader
           u == <<x, e>>
           v == <<y, e>>
           s == h \o u
           t == h \o v
           r == [i \in DOMAIN s |-> IF s[i].name = "IC-Certificate" THEN y ELSE s[i]]
           R == Range(h) \cup {x, y, e}
<1>1. x.name = "IC-Certificate" /\ e.name # "IC-Certificate"
  BY DEF CertificateHeader, ExpressionHeader, Assets!Header
<1> HIDE DEF x, y, e
<1>2. h \in Seq(R)
  BY SeqMonotonic DEF Good
<1>3. u \in Seq(R) /\ Len(u) = 2 /\ u[1] = x /\ u[2] = e
  OBVIOUS
<1>4. v \in Seq(R) /\ Len(v) = 2 /\ v[1] = y /\ v[2] = e
  OBVIOUS
<1>5. s = h \o <<CertificateHeader(k), ExpressionHeader>>
  BY DEF u, x, e
<1> HIDE DEF u, v, R
<1>6. Joined(s, h, u) /\ Joined(t, h, v) /\ t \in Seq(R)
  BY <1>2, <1>3, <1>4, JoinFact, ConcatProperties
<1> HIDE DEF s, t
<1> DEFINE n == Len(h)
<1>7. /\ DOMAIN s = 1..(n + 2) /\ DOMAIN t = 1..(n + 2) /\ n \in Nat
      /\ \A i \in 1..n : s[i] = h[i] /\ t[i] = h[i]
      /\ s[n + 1] = x /\ s[n + 2] = e /\ t[n + 1] = y /\ t[n + 2] = e
  <2>1. 1 \in 1..2 /\ 2 \in 1..2
    OBVIOUS
  <2> HIDE DEF n
  <2> QED
    BY <1>3, <1>4, <1>6, <2>1 DEF Joined, n
<1>8. \A i \in 1..n : h[i].name # "IC-Certificate"
  <2>1. DOMAIN h = 1..n
    BY <1>2
  <2> QED
    BY <2>1 DEF Names
<1> HIDE DEF n
<1>9. \A i \in 1..(n + 2) : r[i] = t[i]
  <2> SUFFICES ASSUME NEW i \in 1..(n + 2)
               PROVE (IF s[i].name = "IC-Certificate" THEN y ELSE s[i]) = t[i]
    BY <1>7
  <2>1. i \in 1..n \/ i = n + 1 \/ i = n + 2
    BY <1>7
  <2> QED
    BY <1>1, <1>7, <1>8, <2>1
<1>10. r = [i \in 1..(n + 2) |-> r[i]] /\ t = [i \in 1..(n + 2) |-> t[i]]
  BY <1>6, <1>7
<1> HIDE DEF r
<1>11. r = t
  BY <1>9, <1>10
<1> QED
  BY <1>5, <1>11 DEF r, t, v, y, e, Replaced

\* Whatever the mode, an answer under version 2 is the one that is certified,
\* but perhaps for its certificate.
LEMMA AnswerIsCertified ==
    ASSUME None \notin Nat, OneEach(assets), NEW path \in DOMAIN assets.assets
    PROVE  assets.v2[path] = {Dapp!Answer(Dapp!HttpRequest(path, 2))}
<1>1. PICK status, h, body : Addable(Static, h) /\ Entry(assets, path, status, h, body)
  BY DEF OneEach
<1> DEFINE k == Assets!Certificate(assets, path, 2, {})
           a == Dapp!GetCertifiedAsset(assets, path, 2, {})
           s == h \o <<CertificateHeader(k), ExpressionHeader>>
           replaced == path = Alternative /\ mode = "UncertifiedContent"
           l == IF replaced THEN Dapp!Outdated ELSE k
           g == IF replaced THEN Replaced(s, Dapp!Outdated) ELSE s
           r == Dapp!HttpRequest(path, 2)
           hs == Answered(Static, h, 2, l)
<1>2. 2 # None /\ 2 >= 2
  OBVIOUS
<1>3. a = [status |-> status, body |-> body, headers |-> s]
  <2>1. Good(h)
    BY <1>1 DEF Addable
  <2>2. a = Assets!GetCertifiedAsset(assets, path, 2, {})
    BY DappLibrary
  <2>3. Given(a, assets, path, status, h, body, 2, {})
    BY <1>1, <2>1, <2>2, GivenFact
  <2> HIDE DEF a
  <2> QED
    BY <1>2, <2>3 DEF Given
<1>4. a.headers = s
  BY <1>3
<1>5. r = [a EXCEPT !.headers = g \o Static]
  <2>1. Dapp!HasAsset(assets, path)
    BY DEF Dapp!HasAsset
  <2>2. Dapp!Header("IC-Certificate", Dapp!Outdated) = CertificateHeader(Dapp!Outdated)
    BY DEF Dapp!Header, Assets!Header, CertificateHeader
  <2> HIDE DEF s
  <2>3. r = [a EXCEPT !.headers = (IF replaced THEN Replaced(a.headers, Dapp!Outdated)
                                   ELSE a.headers) \o Static]
    BY <2>1, <2>2 DEF Dapp!HttpRequest, Alternative, Static, Replaced
  <2> HIDE DEF a
  <2> QED
    BY <1>4, <2>3
<1>6. g = h \o <<CertificateHeader(l), ExpressionHeader>>
  <2>1. CASE replaced
    <3>1. Good(h) /\ "IC-Certificate" \notin Names(h)
      BY <1>1 DEF Addable
    <3>2. g = Replaced(s, Dapp!Outdated) /\ l = Dapp!Outdated
      BY <2>1
    <3>3. Replaced(s, Dapp!Outdated) = h \o <<CertificateHeader(Dapp!Outdated), ExpressionHeader>>
      BY <3>1, ReplacedFact
    <3> HIDE DEF g, l
    <3> QED
      BY <3>2, <3>3
  <2>2. CASE ~replaced
    BY <2>2
  <2> QED
    BY <2>1, <2>2
<1>7. hs = g \o Static
  BY <1>2, <1>6 DEF Answered
<1> HIDE DEF a, s, g, l, r, hs
<1>8. r = [status |-> status, headers |-> hs, body |-> body]
  <2>1. r = [a EXCEPT !.headers = hs]
    BY <1>5, <1>7
  <2>2. a = [status |-> status, headers |-> s, body |-> body]
    BY <1>3
  <2> QED
    BY <2>1, <2>2, WithHeaders
<1>9. Covered(hs, Static, h, 2, l)
  BY <1>1, AnsweredFact DEF hs
<1>10. Without(Assets!HeaderMap(hs), "IC-Certificate") = Assets!HeaderMap(Append(Static \o h, ExpressionHeader))
  BY <1>2, <1>9 DEF Covered
<1>11. Dapp!Answer(r) = [status |-> status, body |-> body,
                         headers |-> Without(Assets!HeaderMap(hs), "IC-Certificate")]
  <2>1. r.status = status /\ r.body = body /\ r.headers = hs
    BY <1>8
  <2>2. Dapp!CertifiedHeaders(r) = Without(Assets!HeaderMap(hs), "IC-Certificate")
    BY <2>1, DappLibrary DEF Assets!CertifiedHeaders, Without
  <2> QED
    BY <2>1, <2>2 DEF Dapp!Answer
<1>12. assets.v2[path] = {Assets!ResponseHash(status, Static \o h, body)}
  BY <1>1 DEF Entry, OneEach
<1> QED
  BY <1>10, <1>11, <1>12 DEF Assets!ResponseHash, ExpressionHeader, r

-----------------------------------------------------------------------------
(***************************************************************************)
(* The invariant of the dapp.                                              *)
(***************************************************************************)

DappInv ==
    /\ Dapp!Servable(tree)
    /\ OneEach(assets) /\ FilesIn(assets, tree)
    /\ certified = [assets |-> Assets!RootHash(assets), sigs |-> {}]

LEMMA ChangedFact ==
    ASSUME NEW c, NEW t, OneEach(c), FilesIn(c, t), NEW status, NEW h, Addable(Static, h), NEW body
    PROVE  LET r == Assets!Add(c, Alternative, status, h, body, Static)
           IN  OneEach(r) /\ FilesIn(r, t)
<1> DEFINE r == Assets!Add(c, Alternative, status, h, body, Static)
           D == DOMAIN c.assets
<1>1. Whole(c, D) /\ c.shared = Static
  BY DEF OneEach
<1>2. Added(r, c, D, Alternative, status, h, body)
  <2>1. r = Assets!Add(c, Alternative, status, h, body, c.shared)
    BY <1>1
  <2> HIDE DEF r, D
  <2> QED
    BY <1>1, <2>1, OwnPaths, AddFact
<1> HIDE DEF r
<1>3. DOMAIN r.assets = D \cup {Alternative} /\ r.shared = Static
      /\ Whole(r, DOMAIN r.assets) /\ Entry(r, Alternative, status, h, body)
  BY <1>1, <1>2 DEF Added, Whole
<1>4. ASSUME NEW path \in D \ {Alternative}, NEW s, NEW k, NEW b, Entry(c, path, s, k, b)
      PROVE  Entry(r, path, s, k, b)
  BY <1>1, <1>2, <1>3, <1>4 DEF Added, Entry
<1>5. OneEach(r)
  <2> SUFFICES ASSUME NEW path \in DOMAIN r.assets
               PROVE  \E s, k, b : Addable(Static, k) /\ Entry(r, path, s, k, b)
    BY <1>3, Zenon DEF OneEach
  <2>1. CASE path = Alternative
    BY <1>3, <2>1
  <2>2. CASE path # Alternative
    <3>1. path \in D \ {Alternative}
      BY <1>3, <2>2
    <3>2. PICK s, k, b : Addable(Static, k) /\ Entry(c, path, s, k, b)
      BY <3>1, Zenon DEF OneEach
    <3> QED
      BY <1>4, <3>1, <3>2
  <2> QED
    BY <2>1, <2>2
<1>6. FilesIn(r, t)
  <2> SUFFICES ASSUME NEW i \in DOMAIN t, NEW path \in Dapp!UrlPaths(t[i]) \ {Alternative}
               PROVE  /\ path \in DOMAIN r.assets
                      /\ \E k : Addable(Static, k) /\ Entry(r, path, 200, k, Body(t[i]))
    BY Zenon DEF FilesIn
  <2>1. path \in D /\ \E k : Addable(Static, k) /\ Entry(c, path, 200, k, Body(t[i]))
    BY DEF FilesIn
  <2> QED
    BY <1>3, <1>4, <2>1
<1> QED
  BY <1>5, <1>6 DEF r

LEMMA DappInitially ==
    ASSUME MCCanistersAssumption, Dapp!Init
    PROVE  DappInv
<1>1. Dapp!Servable(tree)
  BY DEF MCCanistersAssumption, Dapp!AssetCanisterAssumption, Dapp!Init
<1>2. assets = Dapp!InitialAssets(tree) /\ certified = [assets |-> Dapp!RootHash(assets), sigs |-> {}]
  BY DEF Dapp!Init
<1> QED
  BY <1>1, <1>2, InitialFact, DappLibrary DEF DappInv

LEMMA DappStep ==
    ASSUME MCCanistersAssumption, DappInv, [Dapp!Next]_(Dapp!vars)
    PROVE  DappInv'
<1>1. CASE UNCHANGED Dapp!vars
  BY <1>1 DEF Dapp!vars, DappInv, OneEach, FilesIn
<1>2. CASE Dapp!Upgrade
  <2>1. Dapp!Servable(tree')
    BY <1>2 DEF MCCanistersAssumption, Dapp!AssetCanisterAssumption, Dapp!Upgrade
  <2>2. /\ assets' = Dapp!InitialAssets(tree')
        /\ certified' = [assets |-> Dapp!RootHash(assets'), sigs |-> {}]
    BY <1>2 DEF Dapp!Upgrade, Dapp!UpdateRootHash
  <2>3. certified' = [assets |-> Assets!RootHash(assets'), sigs |-> {}]
    BY <2>2, DappLibrary
  <2>4. OneEach(assets') /\ FilesIn(assets', tree')
    BY <2>1, <2>2, InitialFact
  <2> QED
    BY <2>1, <2>3, <2>4 DEF DappInv
<1>3. CASE Dapp!UpdateContent \/ Dapp!UpdateRedirect
  <2>1. PICK status, h, body :
           /\ assets' = Assets!Add(assets, Alternative, status, h, body, Static)
           /\ Addable(Static, h)
    <3>1. CASE Dapp!UpdateContent
      <4>1. PICK content :
               assets' = Dapp!CertifyAsset(assets, Dapp!AlternativeOrigins(content), Static)
        BY <3>1 DEF Dapp!UpdateContent, Static
      <4> DEFINE a == Dapp!AlternativeOrigins(content)
      <4>2. a.path = Alternative
        BY DEF Dapp!AlternativeOrigins, Dapp!Json, Alternative
      <4> HIDE DEF a
      <4>3. assets' = Assets!CertifyAsset(assets, a, Static)
        BY <4>1, DappAdds DEF a
      <4>4. assets' = Assets!Add(assets, Alternative, 200, Assets!AssetHeaders(a), a.content, Static)
        BY <4>2, <4>3 DEF Assets!CertifyAsset
      <4> QED
        BY <4>4, AddableFact
    <3>2. CASE Dapp!UpdateRedirect
      <4>1. PICK location : assets' = Dapp!CertifyRedirect(assets, Alternative, location, Static)
        BY <3>2 DEF Dapp!UpdateRedirect, Static, Alternative
      <4>2. assets' = Assets!Add(assets, Alternative, 303, <<Dapp!Header("Location", location)>>,
                                 <<>>, Static)
        BY <4>1, DappAdds DEF Dapp!CertifyRedirect
      <4> QED
        BY <4>2, AddableFact
    <3> QED
      BY <1>3, <3>1, <3>2
  <2>2. OneEach(assets) /\ FilesIn(assets, tree)
    BY DEF DappInv
  <2>3. OneEach(assets') /\ FilesIn(assets', tree)
    BY <2>1, <2>2, ChangedFact
  <2>4. tree' = tree /\ certified' = [assets |-> Dapp!RootHash(assets'), sigs |-> {}]
    BY <1>3 DEF Dapp!UpdateContent, Dapp!UpdateRedirect, Dapp!UpdateRootHash
  <2>5. certified' = [assets |-> Assets!RootHash(assets'), sigs |-> {}]
    BY <2>4, DappLibrary
  <2> QED
    BY <2>3, <2>4, <2>5 DEF DappInv
<1> QED
  BY <1>1, <1>2, <1>3 DEF Dapp!Next

\* The paths that are documented are some of those of a file.
LEMMA DocumentedFact ==
    ASSUME NEW f, Dapp!IsSequence(f.dirs), Dapp!IsSequence(f.name), Dapp!Collectable(f),
           Dapp!Last(f.name) = "html"
    PROVE  LET page == IF f.name = Dapp!Index THEN f.dirs ELSE Append(f.dirs, Dapp!Front(f.name))
           IN  (IF page = <<>> THEN {<<Dapp!EmptySegment>>}
                ELSE {page, Append(page, Dapp!EmptySegment)}) \subseteq Dapp!UrlPaths(f)
<1> DEFINE n == Len(f.name)
           Stripped(m) == \A i \in m + 1..Len(f.name) : f.name[i] = "gz"
           Ends(m) == Stripped(m) /\ (m = 1 \/ f.name[m] # "gz")
           P == Dapp!Front(f.name)
<1>1. f.name[n] = "html"
  BY DEF Dapp!Last
<1>2. f.name \in Seq(Dapp!Range(f.name)) /\ f.dirs \in Seq(Dapp!Range(f.dirs)) /\ n \in Nat
  BY DEF Dapp!IsSequence
<1>3. n > 1
  <2>1. CASE Len(f.name) > 1
    BY <2>1
  <2>2. CASE Dapp!FilePath(f) \in Dapp!KNOWN_FILES
    <3>1. PICK x \in {"ic-domains", "webauthn", "ii-alternative-origins"} :
             Append(f.dirs, f.name) = << <<"", "well-known">>, <<x>> >>
      BY <2>2 DEF Dapp!FilePath, Dapp!KNOWN_FILES, Dapp!WellKnown
    <3>2. f.name = <<x>>
      <4> DEFINE y == <<"", "well-known">>
                 z == <<x>>
                 w == Append(f.dirs, f.name)
      <4>1. w[Len(w)] = f.name
        BY <1>2
      <4>2. Len(<<y, z>>) = 2 /\ <<y, z>>[2] = z
        OBVIOUS
      <4> HIDE DEF y, z
      <4>3. w = <<y, z>>
        BY <3>1 DEF y, z
      <4> HIDE DEF w
      <4> QED
        BY <4>1, <4>2, <4>3 DEF z
    <3>3. n = 1 /\ f.name[1] = x
      BY <3>2
    <3> QED
      BY <1>1, <3>3
  <2> QED
    BY <2>1, <2>2 DEF Dapp!Collectable
<1>4. Dapp!Unzipped(f.name) = f.name
  <2>1. n \in 1..n /\ Ends(n)
    BY <1>1, <1>2, <1>3
  <2>2. ASSUME NEW m \in 1..n, Ends(m) PROVE m = n
    <3>1. m # n => n \in m + 1..n
      BY <1>2
    <3> QED
      BY <1>1, <2>2, <3>1
  <2>3. (CHOOSE m \in 1..n : Ends(m)) = n
    <3> HIDE DEF Ends
    <3> QED
      BY <2>1, <2>2
  <2>4. SubSeq(f.name, 1, n) = f.name
    BY <1>2
  <2> QED
    BY <2>3, <2>4 DEF Dapp!Unzipped
<1>5. CASE f.name = Dapp!Index
  BY <1>4, <1>5 DEF Dapp!UrlPaths, Dapp!Page
<1>6. CASE f.name # Dapp!Index
  <2>1. Dapp!UrlPaths(f) = Dapp!Page(Append(f.dirs, P))
    BY <1>3, <1>4, <1>6 DEF Dapp!UrlPaths
  <2>2. Append(f.dirs, P) # <<>>
    <3> DEFINE R == Dapp!Range(f.dirs) \cup {P}
    <3>1. f.dirs \in Seq(R) /\ P \in R
      BY <1>2, SeqMonotonic
    <3> HIDE DEF R, P
    <3> QED
      BY <3>1, AppendProperties
  <2> QED
    BY <1>6, <2>1, <2>2 DEF Dapp!Page
<1> QED
  BY <1>5, <1>6

LEMMA FilesServed ==
    ASSUME DappInv
    PROVE  Dapp!FilesAreServed
<1> SUFFICES ASSUME NEW i \in DOMAIN tree, NEW version \in {1, 2},
                    NEW path \in Dapp!UrlPaths(tree[i]), path # Alternative
             PROVE  LET response == Dapp!HttpRequest(path, version) IN
                    /\ Dapp!HasAsset(assets, path)
                    /\ response.status = 200
                    /\ response.body = Body(tree[i])
                    /\ Dapp!Verifies(response, path, certified)
  <2>1. ASSUME NEW i \in DOMAIN tree
        PROVE  LET f == tree[i]
                   page == IF f.name = Dapp!Index THEN f.dirs ELSE Append(f.dirs, Dapp!Front(f.name))
                   documented ==
                       IF Dapp!Last(f.name) # "html" THEN {}
                       ELSE IF page = <<>> THEN {<<Dapp!EmptySegment>>}
                       ELSE {page, Append(page, Dapp!EmptySegment)}
               IN  documented \cup Dapp!UrlPaths(f) \subseteq Dapp!UrlPaths(f)
    <3>1. /\ Dapp!IsSequence(tree[i].dirs) /\ Dapp!IsSequence(tree[i].name)
          /\ Dapp!Collectable(tree[i])
      BY DEF DappInv, Dapp!Servable, Dapp!Sensible
    <3> QED
      BY <3>1, DocumentedFact
  <2> QED
    BY <2>1 DEF Dapp!FilesAreServed, Body, Alternative
<1>1. path \in DOMAIN assets.assets
      /\ \E h : Addable(Static, h) /\ Entry(assets, path, 200, h, Body(tree[i]))
  BY DEF DappInv, FilesIn
<1>2. PICK h : Addable(Static, h) /\ Entry(assets, path, 200, h, Body(tree[i]))
  BY <1>1
<1>3. /\ Whole(assets, DOMAIN assets.assets) /\ assets.shared = Static
      /\ certified = [assets |-> Assets!RootHash(assets), sigs |-> {}]
  BY DEF DappInv, OneEach
<1> DEFINE r == Answer(assets, path, version, {})
<1>4. IsServed(r, assets, path, version, {}, 200, Body(tree[i]))
  <2> DEFINE D == DOMAIN assets.assets
             body == Body(tree[i])
  <2>1. path \in D /\ Whole(assets, D) /\ Addable(assets.shared, h) /\ Entry(assets, path, 200, h, body)
    BY <1>1, <1>2, <1>3
  <2> HIDE DEF D, body
  <2>2. IsServed(Answer(assets, path, version, {}), assets, path, version, {}, 200, body)
    BY <2>1, ServedFact
  <2> QED
    BY <2>2 DEF body
<1>5. Dapp!HttpRequest(path, version) = r
  <2>1. Dapp!HasAsset(assets, path)
    BY <1>1 DEF Dapp!HasAsset
  <2>2. Dapp!GetCertifiedAsset(assets, path, version, {}) = Assets!GetCertifiedAsset(assets, path, version, {})
    BY DappLibrary
  <2>3. Dapp!HttpRequest(path, version)
            = [Dapp!GetCertifiedAsset(assets, path, version, {}) EXCEPT !.headers = @ \o Static]
    BY <2>1 DEF Dapp!HttpRequest, Alternative, Static
  <2> QED
    BY <1>3, <2>2, <2>3 DEF Answer
<1> HIDE DEF r
<1>6. /\ Assets!HasAsset(assets, path) /\ r.status = 200 /\ r.body = Body(tree[i])
      /\ Assets!Verifies(r, path, certified)
  <2>1. r = [status |-> 200, headers |-> r.headers, body |-> Body(tree[i])]
    BY <1>4 DEF IsServed
  <2>2. r.status = 200 /\ r.body = Body(tree[i])
    BY <2>1
  <2> QED
    BY <1>3, <1>4, <2>2 DEF IsServed
<1> QED
  BY <1>5, <1>6, DappLibrary

LEMMA OldRejected ==
    ASSUME MCCanistersAssumption, DappInv
    PROVE  Dapp!OldResponsesAreRejected
<1>1. None \notin Nat
  BY DEF MCCanistersAssumption, Dapp!AssetCanisterAssumption
<1>2. OneEach(assets) /\ certified.assets.v2 = assets.v2
  BY DEF DappInv, Assets!RootHash
<1>3. ASSUME NEW a \in answers, a[1] \in DOMAIN assets.assets, a[2] \in certified.assets.v2[a[1]]
      PROVE  a[2] = Dapp!Answer(Dapp!HttpRequest(a[1], 2))
  <2>1. assets.v2[a[1]] = {Dapp!Answer(Dapp!HttpRequest(a[1], 2))}
    BY <1>1, <1>2, <1>3, AnswerIsCertified
  <2> QED
    BY <1>2, <1>3, <2>1
<1> QED
  BY <1>3 DEF Dapp!OldResponsesAreRejected

-----------------------------------------------------------------------------
(***************************************************************************)
(* The pages of the frontend.  The tokenizer of a browser is a function of *)
(* the places of a text, each state of which follows from the one before;  *)
(* while it is in the text of a plain script, the end tag that the search  *)
(* of the canister stops at would have ended the script, so that both have *)
(* the same text.                                                          *)
(***************************************************************************)

\* f is the reading of n lexemes of a text.
Reads(text, n, f) ==
    f = [k \in 0..n |-> IF k = 0 THEN "data" ELSE Pages!After(f[k - 1], text[k])]

LEMMA ReadingExists ==
    ASSUME NEW text, NEW n \in Nat
    PROVE  \E f : Reads(text, n, f)
<1> DEFINE First(f, k) == IF k = 0 THEN "data" ELSE Pages!After(f[k - 1], text[k])
           B == {m \in Nat : \E f : \A k \in 0..n : k <= m => f[k] = First(f, k)}
<1>1. 0 \in B
  <2> DEFINE f == [k \in 0..n |-> "data"]
  <2>1. \A k \in 0..n : k <= 0 => f[k] = First(f, k)
    OBVIOUS
  <2> HIDE DEF f, First
  <2> QED
    BY <2>1
<1>2. ASSUME NEW m \in Nat, m \in B PROVE m + 1 \in B
  <2>1. PICK f : \A k \in 0..n : k <= m => f[k] = First(f, k)
    BY <1>2
  <2> DEFINE g == [k \in 0..n |-> First(f, k)]
  <2>2. ASSUME NEW k \in 0..n, k <= m + 1 PROVE g[k] = First(g, k)
    <3>1. g[k] = First(f, k)
      OBVIOUS
    <3>2. CASE k = 0
      BY <3>1, <3>2
    <3>3. CASE k # 0
      <4>1. k - 1 \in 0..n /\ k - 1 <= m
        BY <2>2, <3>3
      <4>2. g[k - 1] = f[k - 1]
        BY <2>1, <4>1
      <4> HIDE DEF g
      <4> QED
        BY <3>1, <3>3, <4>2
    <3> QED
      BY <3>2, <3>3
  <2> HIDE DEF g, First
  <2>3. m + 1 \in Nat
    OBVIOUS
  <2> QED
    BY <2>2, <2>3, Zenon
<1> HIDE DEF B
<1>3. n \in B
  <2>1. B \in SUBSET Nat
    BY DEF B
  <2> QED
    BY <1>1, <1>2, <2>1, NatInd
<1>4. PICK f : \A k \in 0..n : k <= n => f[k] = First(f, k)
  BY <1>3 DEF B
<1> DEFINE g == [k \in 0..n |-> f[k]]
<1>5. ASSUME NEW k \in 0..n PROVE g[k] = First(g, k)
  <2>1. k # 0 => k - 1 \in 0..n
    OBVIOUS
  <2>2. f[k] = First(f, k)
    BY <1>4
  <2> QED
    BY <2>1, <2>2
<1>6. g = [k \in 0..n |-> First(g, k)]
  <2> DEFINE h == [k \in 0..n |-> First(g, k)]
  <2>1. \A k \in 0..n : g[k] = h[k]
    BY <1>5
  <2>2. g = [k \in 0..n |-> g[k]] /\ h = [k \in 0..n |-> h[k]]
    OBVIOUS
  <2> HIDE DEF g, h
  <2>3. g = h
    BY <2>1, <2>2
  <2> QED
    BY <2>3 DEF h
<1> QED
  BY <1>6 DEF Reads

LEMMA TokenizeFact ==
    ASSUME NEW text, Len(text) \in Nat
    PROVE  \A k \in 1..Len(text) :
               Pages!Tokenize(text)[k] = Pages!After(Pages!Tokenize(text)[k - 1], text[k])
<1> DEFINE n == Len(text)
           f == Pages!Tokenize(text)
<1>1. Reads(text, n, f)
  <2>1. f = CHOOSE g : Reads(text, n, g)
    BY DEF Pages!Tokenize, Reads
  <2> HIDE DEF f, n
  <2>2. n \in Nat
    BY DEF n
  <2> QED
    BY <2>1, <2>2, ReadingExists
<1> HIDE DEF f
<1>2. ASSUME NEW k \in 1..n PROVE f[k] = Pages!After(f[k - 1], text[k])
  <2>1. k \in 0..n /\ k # 0
    OBVIOUS
  <2> HIDE DEF n
  <2> QED
    BY <1>1, <2>1 DEF Reads
<1> QED
  BY <1>2 DEF f, n

InScript == {"script", "escaped", "double"}

\* The text of a script begins behind a greater sign, and an end tag in it ends
\* the script, but where another script has begun within.
LEMMA MovesFact ==
    ASSUME NEW state, NEW token
    PROVE  /\ state \notin InScript /\ Pages!After(state, token) \in InScript =>
                  token \in Pages!EndInGreater
           /\ state \in {"script", "escaped"} /\ token = "</script>" =>
                  Pages!After(state, token) = "data"
<1> DEFINE Applies(m) == m[1] = state /\ token \in m[2]
           move == CHOOSE m \in Pages!Moves : Applies(m)
<1>1. ASSUME \E m \in Pages!Moves : Applies(m)
      PROVE  move \in Pages!Moves /\ Applies(move) /\ Pages!After(state, token) = move[3]
  BY <1>1 DEF Pages!After
<1>2. ASSUME ~\E m \in Pages!Moves : Applies(m)
      PROVE  Pages!After(state, token) = state
  BY <1>2 DEF Pages!After
<1>3. \A m \in Pages!Moves :
          m[1] \notin InScript /\ m[3] \in InScript => m[2] = Pages!EndInGreater
  <2> SUFFICES ASSUME NEW m \in Pages!Moves, m[1] \notin InScript, m[3] \in InScript
               PROVE  m[2] = Pages!EndInGreater
    OBVIOUS
  <2>1. \/ m[1] \in InScript \/ m[2] = Pages!EndInGreater
        \/ m[3] \in {"data", "start", "start_value", "tag", "tag_value", "comment"}
    BY DEF Pages!Moves, InScript
  <2> QED
    BY <2>1 DEF InScript
<1>4. \A m \in Pages!Moves :
          m[1] \in {"script", "escaped"} /\ "</script>" \in m[2] => m[3] = "data"
  <2> SUFFICES ASSUME NEW m \in Pages!Moves, m[1] \in {"script", "escaped"}
               PROVE  "</script>" \in m[2] => m[3] = "data"
    OBVIOUS
  <2>1. m[3] = "data" \/ m[2] \in {{"<!--"}, {"-->"}, Pages!StartTags}
    BY DEF Pages!Moves
  <2> QED
    BY <2>1 DEF Pages!StartTags
<1>5. state \in {"script", "escaped"} /\ token = "</script>" => \E m \in Pages!Moves : Applies(m)
  <2>1. /\ <<"script", Pages!EndTags, "data">> \in Pages!Moves
        /\ <<"escaped", Pages!EndTags, "data">> \in Pages!Moves
    BY DEF Pages!Moves
  <2>2. "</script>" \in Pages!EndTags
    BY DEF Pages!EndTags
  <2>3. \A x, y, z : <<x, y, z>>[1] = x /\ <<x, y, z>>[2] = y
    OBVIOUS
  <2> QED
    BY <2>1, <2>2, <2>3
<1> HIDE DEF move
<1> QED
  BY <1>1, <1>2, <1>3, <1>4, <1>5

LEMMA FindFact ==
    ASSUME NEW text, NEW from \in Int, NEW tokens, NEW i \in from..Len(text), Len(text) \in Nat,
           text[i] \in tokens, \A j \in from..i - 1 : text[j] \notin tokens
    PROVE  Pages!Find(text, from, tokens) = i
<1> DEFINE Here(k) == text[k] \in tokens /\ \A j \in from..k - 1 : text[j] \notin tokens
<1>1. Here(i)
  OBVIOUS
<1>2. ASSUME NEW k \in from..Len(text), Here(k) PROVE k = i
  <2>1. ~(k < i)
    <3> SUFFICES ASSUME k < i PROVE FALSE
      OBVIOUS
    <3>1. k \in from..i - 1
      OBVIOUS
    <3> QED
      BY <1>1, <1>2, <3>1
  <2>2. ~(i < k)
    <3> SUFFICES ASSUME i < k PROVE FALSE
      OBVIOUS
    <3>1. i \in from..k - 1
      OBVIOUS
    <3> QED
      BY <1>1, <1>2, <3>1
  <2> QED
    BY <2>1, <2>2
<1>3. Pages!Find(text, from, tokens) = CHOOSE k \in from..Len(text) : Here(k)
  BY DEF Pages!Find
<1> HIDE DEF Here
<1> QED
  BY <1>1, <1>2, <1>3

\* Every string is a lexeme, those that are injected included.
Lexemes == STRING \cup {"<link>", "</head>", "<body", "args"}

\* What a browser runs of a plain script is what is extracted.
LEMMA PlainIsExtracted ==
    ASSUME NEW text \in Seq(Lexemes), NEW s \in Pages!Scripts(text), Pages!IsPlain(text, s)
    PROVE  SubSeq(text, s.start + 1, s.close - 1) \in Pages!ExtractInlineScripts(text)
<1> DEFINE n == Len(text)
           state == Pages!Tokenize(text)
<1>1. n \in Nat /\ DOMAIN text = 1..n
  OBVIOUS
<1>2. PICK open \in 1..n, start \in 1..n, close \in 1..n :
          /\ open = s.open /\ start = s.start /\ close = s.close
          /\ open < start /\ start < close
          /\ state[close] = "data"
          /\ \A k \in open..start - 1 : state[k] \in {"start", "start_value"}
          /\ \A k \in start..close - 1 : state[k] \in InScript
  BY <1>1 DEF Pages!Scripts, InScript
<1>3. /\ text[open] = "<script" /\ text[close] = "</script>"
      /\ \A k \in open..start - 1 : text[k] \notin Pages!EndInGreater
      /\ \A k \in start..close : state[k] # "double"
  BY <1>2 DEF Pages!IsPlain
<1>4. \A k \in 1..n : state[k] = Pages!After(state[k - 1], text[k])
  BY <1>1, TokenizeFact
<1> HIDE DEF state, n
<1>5. text[start] \in Pages!EndInGreater
  <2>1. start - 1 \in open..start - 1 /\ start \in start..close - 1
    BY <1>1, <1>2
  <2>2. state[start - 1] \notin InScript
    BY <1>2, <2>1 DEF InScript
  <2> QED
    BY <1>2, <1>4, <2>1, <2>2, MovesFact
<1>6. Pages!InlineStart(text, open) = start + 1
  <2>1. start \in open..Len(text) /\ open \in Int /\ Len(text) \in Nat
    BY <1>1, <1>2 DEF n
  <2>2. Pages!Find(text, open, Pages!EndInGreater) = start
    BY <1>3, <1>5, <2>1, FindFact
  <2> QED
    BY <2>2 DEF Pages!InlineStart
<1>7. Pages!Find(text, start + 1, {"</script>"}) = close
  <2>1. /\ close \in start + 1..Len(text) /\ start + 1 \in Int /\ Len(text) \in Nat
    BY <1>1, <1>2 DEF n
  <2>2. ASSUME NEW k \in start + 1..close - 1 PROVE text[k] # "</script>"
    <3>1. /\ k \in 1..n /\ k \in start..close - 1 /\ k - 1 \in start..close - 1
          /\ k - 1 \in start..close
      BY <1>1, <1>2
    <3>2. state[k - 1] \in {"script", "escaped"} /\ state[k] \in InScript
      BY <1>2, <1>3, <3>1 DEF InScript
    <3>3. "data" \notin InScript
      BY DEF InScript
    <3> QED
      BY <1>4, <3>1, <3>2, <3>3, MovesFact
  <2> QED
    BY <1>3, <2>1, <2>2, FindFact
<1>8. Pages!InlineText(text, open) = SubSeq(text, start + 1, close - 1)
  BY <1>2, <1>6, <1>7 DEF Pages!InlineText
<1>9. open \in Pages!TagOpens(text)
  BY <1>1, <1>2, <1>3 DEF Pages!TagOpens
<1> QED
  BY <1>2, <1>8, <1>9 DEF Pages!ExtractInlineScripts

LEMMA FixedIsText ==
    ASSUME NEW a, NEW content, content.text \in Seq(STRING)
    PROVE  Pages!FixupHtml(a, content).text \in Seq(Lexemes)
<1> DEFINE fixed(token) == IF token = "</head>" THEN <<"<link>", "</head>">>
                           ELSE IF token = "<body" THEN <<"<body", "args">> ELSE <<token>>
           n == Len(content.text)
           s == [i \in DOMAIN content.text |-> fixed(content.text[i])]
<1>1. n \in Nat /\ DOMAIN content.text = 1..n /\ \A i \in 1..n : content.text[i] \in Lexemes
  BY DEF Lexemes
<1>2. \A token \in Lexemes : fixed(token) \in Seq(Lexemes)
  <2>1. \A x, y \in Lexemes : <<x>> \in Seq(Lexemes) /\ <<x, y>> \in Seq(Lexemes)
    OBVIOUS
  <2>2. {"<link>", "</head>", "<body", "args"} \subseteq Lexemes
    BY DEF Lexemes
  <2> QED
    BY <2>1, <2>2
<1>3. s \in Seq(Seq(Lexemes))
  <2>1. s = [i \in 1..n |-> fixed(content.text[i])]
    BY <1>1
  <2>2. \A i \in 1..n : fixed(content.text[i]) \in Seq(Lexemes)
    BY <1>1, <1>2
  <2> HIDE DEF fixed, n, s
  <2>3. s \in [1..n -> Seq(Lexemes)]
    BY <2>1, <2>2
  <2> QED
    BY <1>1, <2>3, SeqDef
<1>4. Dapp!FlattenSeq(s) \in Seq(Lexemes)
  <2> HIDE DEF s
  <2> QED
    BY <1>3, FlattenFact
<1>5. Pages!FlattenSeq(s) = Dapp!FlattenSeq(s)
  BY DEF Pages!FlattenSeq, Dapp!FlattenSeq
<1>6. Pages!FixupHtml(a, content).text = Pages!FlattenSeq(s)
  BY DEF Pages!FixupHtml
<1> QED
  BY <1>4, <1>5, <1>6

LEMMA SameCollection ==
    ASSUME NEW t
    PROVE  Pages!Collect(t) = Dapp!Collect(t)
BY DEF Pages!Collect, Dapp!Collect, Pages!FlattenSeq, Dapp!FlattenSeq,
       Pages!SetToSeq, Dapp!SetToSeq, Pages!IsInjective, Dapp!IsInjective,
       Pages!UrlPaths, Dapp!UrlPaths, Pages!Unzipped, Dapp!Unzipped, Pages!Page, Dapp!Page,
       Pages!Index, Dapp!Index, Pages!EmptySegment, Dapp!EmptySegment,
       Pages!Last, Dapp!Last, Pages!Front, Dapp!Front,
       Pages!AssetOf, Dapp!AssetOf, Pages!TypeAndEncoding, Dapp!TypeAndEncoding,
       Pages!FilePath, Dapp!FilePath, Pages!KNOWN_FILES, Dapp!KNOWN_FILES,
       Pages!WellKnown, Dapp!WellKnown, Pages!Cardinality, Dapp!Cardinality

\* A member of three sequences in a row is one of them.
LEMMA ThreeParts ==
    ASSUME NEW R, NEW u \in Seq(R), NEW v \in Seq(R), NEW w \in Seq(R),
           NEW k \in DOMAIN ((u \o v) \o w)
    PROVE  LET x == ((u \o v) \o w)[k]
           IN  \/ k \in DOMAIN u /\ x = u[k]
               \/ \E i \in DOMAIN v : x = v[i]
               \/ \E i \in DOMAIN w : x = w[i]
<1> DEFINE b == u \o v
           all == b \o w
<1>1. b \in Seq(R)
  OBVIOUS
<1>2. Joined(b, u, v) /\ Joined(all, b, w)
  BY <1>1, JoinFact
<1>3. /\ DOMAIN u = 1..Len(u) /\ DOMAIN v = 1..Len(v) /\ DOMAIN w = 1..Len(w)
      /\ Len(u) \in Nat /\ Len(v) \in Nat /\ Len(w) \in Nat
      /\ DOMAIN b = 1..Len(b) /\ Len(b) \in Nat
  BY <1>1
<1>4. k \in DOMAIN all
  OBVIOUS
<1> HIDE DEF b, all
<1>5. CASE k \in 1..Len(b)
  <2>1. all[k] = b[k] /\ k \in 1..(Len(u) + Len(v))
    BY <1>2, <1>3, <1>5 DEF Joined
  <2>2. CASE k \in 1..Len(u)
    BY <1>2, <1>3, <2>1, <2>2 DEF Joined, b, all
  <2>3. CASE k \notin 1..Len(u)
    <3>1. k - Len(u) \in 1..Len(v) /\ Len(u) + (k - Len(u)) = k
      BY <1>3, <2>1, <2>3
    <3>2. all[k] = v[k - Len(u)]
      BY <1>2, <2>1, <3>1 DEF Joined
    <3> QED
      BY <1>3, <3>1, <3>2 DEF b, all
  <2> QED
    BY <2>2, <2>3
<1>6. CASE k \notin 1..Len(b)
  <2>1. k - Len(b) \in 1..Len(w) /\ Len(b) + (k - Len(b)) = k
    BY <1>2, <1>3, <1>4, <1>6 DEF Joined
  <2>2. all[k] = w[k - Len(b)]
    BY <1>2, <2>1 DEF Joined
  <2> QED
    BY <1>3, <2>1, <2>2 DEF b, all
<1> QED
  BY <1>5, <1>6

\* The pages among the assets are texts: those of the release, fixed up.
LEMMA PagesAreTexts ==
    ASSUME Pages!FrontendAssumption, NEW t \in Releases, NEW a,
           NEW k \in DOMAIN Pages!GetStaticAssets(t, a),
           Pages!GetStaticAssets(t, a)[k].type = "html"
    PROVE  Pages!GetStaticAssets(t, a)[k].content.text \in Seq(Lexemes)
<1> DEFINE s == Dapp!Collect(t)
           m == Len(s)
           tr == [c \in Pages!ContentsOf(t) |-> Pages!FixupHtml(a, c)]
           u == Pages!CollectTransformed(t, tr)
           configured == Pages!Asset(<< <<"", "config">> >>, <<"config", a>>, "txt")
           domains == Pages!Asset(Pages!WellKnown("ic-domains"),
                          <<"domains", IF a.related_origins = None THEN <<>> ELSE a.related_origins>>,
                          "octet-stream")
           origins == Pages!Asset(Pages!WellKnown("webauthn"), <<"origins", a.related_origins>>, "json")
           own == <<configured, domains>>
           more == IF a.related_origins = None THEN <<>> ELSE <<origins>>
           all == Pages!GetStaticAssets(t, a)
           R == Range(u) \cup {configured, domains, origins}
<1>1. Dapp!IsSequence(t) /\ \A i \in DOMAIN t : t[i].content.text \in Seq(STRING)
  <2>1. t \in Seq(Pages!ToSet(t))
    BY DEF Pages!FrontendAssumption
  <2>2. Pages!ToSet(t) = Dapp!Range(t)
    BY DEF Pages!ToSet, Dapp!Range
  <2> QED
    BY <2>1, <2>2 DEF Dapp!IsSequence, Pages!FrontendAssumption
<1>2. s \in Seq(Listed(t)) /\ Dapp!Range(s) = Listed(t)
  BY <1>1, CollectFact
<1>3. m \in Nat /\ DOMAIN s = 1..m /\ \A i \in 1..m : s[i] \in Listed(t)
  BY <1>2
<1>4. ASSUME NEW i \in 1..m
      PROVE  /\ s[i].content \in Pages!ContentsOf(t) /\ s[i].content.text \in Seq(STRING)
             /\ "content" \in DOMAIN s[i]
  <2>1. PICK j \in DOMAIN t : \E path \in Dapp!UrlPaths(t[j]) : s[i] = Dapp!AssetOf(path, t[j])
    BY <1>3 DEF Listed
  <2>2. s[i].content = t[j].content /\ "content" \in DOMAIN s[i]
    BY <2>1 DEF Dapp!AssetOf
  <2> QED
    BY <1>1, <2>2 DEF Pages!ContentsOf
<1> HIDE DEF s
<1>5. u = [i \in 1..m |-> IF s[i].type = "html" THEN [s[i] EXCEPT !.content = tr[@]] ELSE s[i]]
  BY <1>3, SameCollection DEF Pages!CollectTransformed, s
<1>6. ASSUME NEW i \in 1..m, u[i].type = "html" PROVE u[i].content.text \in Seq(Lexemes)
  <2>1. u[i] = IF s[i].type = "html" THEN [s[i] EXCEPT !.content = tr[s[i].content]] ELSE s[i]
    BY <1>5
  <2>2. tr[s[i].content] = Pages!FixupHtml(a, s[i].content)
    BY <1>4
  <2>3. CASE s[i].type = "html"
    <3>1. u[i] = [s[i] EXCEPT !.content = Pages!FixupHtml(a, s[i].content)]
      BY <2>1, <2>2, <2>3
    <3>2. \A x : [s[i] EXCEPT !.content = x].content = x
      BY <1>4
    <3>3. u[i].content = Pages!FixupHtml(a, s[i].content)
      BY <3>1, <3>2
    <3> HIDE DEF u
    <3> QED
      BY <1>4, <3>3, FixedIsText
  <2>4. CASE s[i].type # "html"
    BY <1>6, <2>1, <2>4
  <2> QED
    BY <2>3, <2>4
<1>7. configured.type # "html" /\ domains.type # "html" /\ origins.type # "html"
  BY DEF Pages!Asset
<1>8. all = (u \o own) \o more
  BY DEF Pages!GetStaticAssets
<1>9. DOMAIN u = 1..m /\ u = [i \in 1..m |-> u[i]]
  BY <1>5
<1> HIDE DEF u, m, all, configured, domains, origins
<1>10. own \in Seq(R) /\ more \in Seq(R)
  <2>1. configured \in R /\ domains \in R /\ origins \in R
    OBVIOUS
  <2> HIDE DEF R
  <2> QED
    BY <2>1
<1>11. u \in Seq(R)
  <2>1. \A i \in 1..m : u[i] \in R
    BY <1>9 DEF Range
  <2> HIDE DEF R
  <2>2. u \in [1..m -> R]
    BY <1>9, <2>1
  <2> QED
    BY <1>3, <2>2, SeqDef
<1>12. /\ \A i \in DOMAIN own : own[i].type # "html"
       /\ \A i \in DOMAIN more : more[i].type # "html"
  BY <1>7
<1> HIDE DEF own, more, R
<1>13. k \in DOMAIN all /\ all[k].type = "html"
  BY DEF all
<1>14. k \in DOMAIN u /\ all[k] = u[k]
  BY <1>8, <1>10, <1>11, <1>12, <1>13, ThreeParts
<1>15. all[k].content.text \in Seq(Lexemes)
  BY <1>6, <1>9, <1>13, <1>14
<1> QED
  BY <1>15 DEF all

LEMMA ScriptsAreHashed ==
    ASSUME Pages!FrontendAssumption, NEW t \in Releases, NEW a,
           NEW p \in DOMAIN Pages!CertifyAllAssets(t, a)
    PROVE  LET response == Pages!CertifyAllAssets(t, a)[p]
           IN  response.type = "html" =>
                   /\ response.body.text \in Seq(Lexemes)
                   /\ Pages!ExtractInlineScripts(response.body.text)
                          \subseteq response.headers.content_security_policy.hashes
<1> DEFINE all == Pages!GetStaticAssets(t, a)
           n == CHOOSE i \in DOMAIN all : all[i].path = p
           response == Pages!CertifyAllAssets(t, a)[p]
<1>1. \E i \in DOMAIN all : all[i].path = p
  BY DEF Pages!CertifyAllAssets
<1>2. n \in DOMAIN all /\ all[n].path = p
  BY <1>1
<1>3. /\ response.type = all[n].type /\ response.body = all[n].content
      /\ response.headers.content_security_policy.hashes = Pages!IntegrityHashes(all)
  BY <1>1 DEF Pages!CertifyAllAssets, Pages!AssetHeaders, Pages!ContentSecurityPolicy
<1> HIDE DEF n, response
<1>4. ASSUME all[n].type = "html"
      PROVE  /\ all[n].content.text \in Seq(Lexemes)
             /\ Pages!ExtractInlineScripts(all[n].content.text) \subseteq Pages!IntegrityHashes(all)
  <2>1. all[n].content.text \in Seq(Lexemes)
    BY <1>2, <1>4, PagesAreTexts
  <2> HIDE DEF all
  <2> QED
    BY <1>2, <1>4, <2>1 DEF Pages!IntegrityHashes
<1> HIDE DEF all
<1>5. response.type = "html" =>
         /\ response.body.text \in Seq(Lexemes)
         /\ Pages!ExtractInlineScripts(response.body.text)
                \subseteq response.headers.content_security_policy.hashes
  BY <1>3, <1>4
<1> QED
  BY <1>5 DEF response

LEMMA PagesInitially ==
    ASSUME Pages!FrontendAssumption, Pages!Init
    PROVE  Pages!ScriptsAreAllowed
<1>1. PICK i \in Pages!Installations : router = Pages!CertifyAllAssets(i.tree, i.args)
  BY DEF Pages!Init
<1>2. i.tree \in Releases
  BY DEF Pages!Installations
<1> QED
  BY <1>1, <1>2, ScriptsAreHashed, PlainIsExtracted DEF Pages!ScriptsAreAllowed, Pages!Allows

LEMMA PagesStep ==
    ASSUME Pages!FrontendAssumption, Pages!ScriptsAreAllowed, [Pages!Next]_(Pages!vars)
    PROVE  Pages!ScriptsAreAllowed'
<1>1. CASE UNCHANGED Pages!vars
  BY <1>1 DEF Pages!vars, Pages!ScriptsAreAllowed
<1>2. CASE Pages!Upgrade
  <2>1. PICK i \in Pages!Installations : router' = Pages!CertifyAllAssets(i.tree, i.args)
    BY <1>2 DEF Pages!Upgrade
  <2>2. i.tree \in Releases
    BY DEF Pages!Installations
  <2> QED
    BY <2>1, <2>2, ScriptsAreHashed, PlainIsExtracted DEF Pages!ScriptsAreAllowed, Pages!Allows
<1> QED
  BY <1>1, <1>2 DEF Pages!Next

-----------------------------------------------------------------------------
(***************************************************************************)
(* The parts together.                                                     *)
(***************************************************************************)

CanistersInv ==
    /\ part = "archive" => DeploymentInv
    /\ part = "canister" => IdentityInv /\ ReportInv /\ ServedInv
    /\ part = "frontend" => Pages!ScriptsAreAllowed
    /\ part = "dapp" => DappInv

LEMMA CanistersInitially == Init => CanistersInv
<1> SUFFICES ASSUME Init
             PROVE  CanistersInv
  OBVIOUS
<1>1. CASE part = "archive"
  BY <1>1, MCCanistersAssumption, DeploymentInitially DEF Init, CanistersInv
<1>2. CASE part = "canister"
  BY <1>2, MCCanistersAssumption, IdentityInitially, ReportInitially, ServedInitially
     DEF Init, CanistersInv
<1>3. CASE part = "frontend"
  BY <1>3, MCCanistersAssumption, PagesInitially DEF Init, CanistersInv
<1>4. CASE part = "dapp"
  BY <1>4, MCCanistersAssumption, DappInitially DEF Init, CanistersInv
<1> QED
  BY <1>1, <1>2, <1>3, <1>4 DEF CanistersInv

\* A step is one of the canister that runs.
LEMMA PartsStep ==
    ASSUME [Next]_vars
    PROVE  /\ part' = part
           /\ part = "archive" => [Archive!Next]_(Archive!vars)
           /\ part = "canister" => [Identity!Next]_(Identity!vars)
           /\ part = "frontend" => [Pages!Next]_(Pages!vars)
           /\ part = "dapp" => [Dapp!Next]_(Dapp!vars)
<1>1. CASE Next
  BY <1>1 DEF Next
<1>2. CASE UNCHANGED vars
  BY <1>2 DEF vars, dappVars, pagesVars, identityVars, archiveVars,
              Archive!historyVars, Archive!vars, Identity!vars, Pages!vars, Dapp!vars
<1> QED
  BY <1>1, <1>2

LEMMA ArchiveStep ==
    ASSUME CanistersInv, [Next]_vars, part = "archive"
    PROVE  DeploymentGood
BY MCCanistersAssumption, PartsStep, DeploymentStep DEF CanistersInv

LEMMA CanisterStep ==
    ASSUME CanistersInv, [Next]_vars, part = "canister"
    PROVE  IdentityGood /\ ReportInv' /\ ServedInv'
<1>1. IdentityInv /\ ReportInv /\ ServedInv /\ [Identity!Next]_(Identity!vars)
  BY PartsStep DEF CanistersInv
<1> QED
  BY <1>1, MCCanistersAssumption, IdentityStep, ReportStep, ServedStep

LEMMA CanistersStep == CanistersInv /\ [Next]_vars => CanistersInv'
<1> SUFFICES ASSUME CanistersInv, [Next]_vars
             PROVE  CanistersInv'
  OBVIOUS
<1>1. part' = part
  BY PartsStep
<1>2. part = "archive" => DeploymentInv'
  BY ArchiveStep DEF DeploymentGood
<1>3. part = "canister" => IdentityInv' /\ ReportInv' /\ ServedInv'
  BY CanisterStep DEF IdentityGood
<1>4. part = "frontend" => Pages!ScriptsAreAllowed'
  BY MCCanistersAssumption, PartsStep, PagesStep DEF CanistersInv
<1>5. part = "dapp" => DappInv'
  BY MCCanistersAssumption, PartsStep, DappStep DEF CanistersInv
<1> QED
  BY <1>1, <1>2, <1>3, <1>4, <1>5 DEF CanistersInv

-----------------------------------------------------------------------------
(***************************************************************************)
(* The theorems.                                                           *)
(***************************************************************************)

\* Whatever calls deploy the archive at the same time, whatever of them fail
\* and however often the configuration changes meanwhile: one at a time creates
\* an archive, until a call has continued whose lock was broken after a day, and
\* every day in which that can happen wastes one canister at most
\* (deploy_archive, unlock_archive_if_stuck, create_archive).
THEOREM OneCallCreatesTheArchive == Spec => []OneCreates
<1>1. CanistersInv => OneCreates
  BY MCCanistersAssumption, DeploymentIsSafe DEF CanistersInv, OneCreates
<1>2. CanistersInv /\ [Next]_vars => CanistersInv'
  BY CanistersStep
<1> QED
  BY <1>1, <1>2, CanistersInitially, PTL DEF Spec

\* Until a call has continued whose lock was broken after a day, the archive
\* that has been created stays the archive, and a call answers Success only
\* when the archive runs the module and the parameters that are configured then
\* (deploy_archive, get_archive_status, install_archive).
THEOREM DeploymentTellsTheTruth == Spec => SuccessIsTrue
<1>1. CanistersInv /\ [Next]_vars => CanistersInv'
  BY CanistersStep
<1>2. CanistersInv /\ [Next]_vars
          => [part = "archive" => Archive!ArchiveIsKeptStep /\ Archive!SuccessIsTrueStep]_vars
  BY ArchiveStep DEF DeploymentGood
<1> QED
  BY <1>1, <1>2, CanistersInitially, PTL DEF Spec, SuccessIsTrue

\* An upgrade with whatever argument keeps the salt and the anchors in their
\* range, changes no more than one field of the configuration (and never the
\* statistics) and forgets no archive; every call keeps what it does not change
\* (pre_upgrade, post_upgrade, apply_install_arg, save_persistent_state).
THEOREM UpgradesForgetNothing == Spec => NothingIsForgotten
<1>1. CanistersInv /\ [Next]_vars => CanistersInv'
  BY CanistersStep
<1>2. CanistersInv /\ [Next]_vars
          => [part = "canister" => Identity!NothingIsForgottenStep]_vars
  BY CanisterStep DEF IdentityGood
<1> QED
  BY <1>1, <1>2, CanistersInitially, PTL DEF Spec, NothingIsForgotten

\* What config reports, given back as the argument of an upgrade, is accepted
\* and changes nothing, however the canister was configured before (config,
\* apply_install_arg, set_anchor_number_range).  This is a part of
\* ConfigIsInForce.
THEOREM ReportedConfigCanBeGiven ==
    Spec => [](part = "canister" => Identity!ReportedConfigIsKept)
<1>1. CanistersInv => (part = "canister" => Identity!ReportedConfigIsKept)
  BY ReportIsKept DEF CanistersInv
<1>2. CanistersInv /\ [Next]_vars => CanistersInv'
  BY CanistersStep
<1> QED
  BY <1>1, <1>2, CanistersInitially, PTL DEF Spec

\* Whatever calls and upgrades came before, the configuration is the one that
\* is in force: the providers and the assets of the canister are those that it
\* configures, what is served at every path, under any version of certificate,
\* has each header once and agrees with the root hash that is certified, and
\* what config reports can be given back (init_assets, http_request,
\* initialize, update_root_hash, config).
THEOREM ConfigStaysInForce == Spec => []ConfigIsInForce
<1>1. CanistersInv => ConfigIsInForce
  BY ReportIsKept, ConfigIsServed DEF CanistersInv, ConfigIsInForce
<1>2. CanistersInv /\ [Next]_vars => CanistersInv'
  BY CanistersStep
<1> QED
  BY <1>1, <1>2, CanistersInitially, PTL DEF Spec

\* Of whatever builds the canister is installed and upgraded, and whatever
\* content or redirect is certified meanwhile: each file is served under each of
\* its paths with its content and a certificate that is good today, and what was
\* answered under a path before is certified only if it is the answer today
\* (certify_asset, certify_redirect, add_certification_v2, init_assets,
\* http_request, update_alternative_origins).
THEOREM OldResponsesStayRejected == Spec => []OldResponsesAreRejected
<1>1. CanistersInv => OldResponsesAreRejected
  BY MCCanistersAssumption, FilesServed, OldRejected
     DEF CanistersInv, OldResponsesAreRejected
<1>2. CanistersInv /\ [Next]_vars => CanistersInv'
  BY CanistersStep
<1> QED
  BY <1>1, <1>2, CanistersInitially, PTL DEF Spec

\* Every release, whatever its pages are and whatever arguments are injected
\* into them, is served with policies that let the plain inline scripts of its
\* pages run: the search for scripts in the text of a page finds each of them, and
\* cuts out of the page exactly what the tokenizer of a browser runs
\* (extract_inline_scripts, fixup_html, certify_all_assets,
\* get_content_security_policy).
THEOREM PagesMayRunTheirScripts == Spec => []ScriptsAreAllowed
<1>1. CanistersInv => ScriptsAreAllowed
  BY DEF CanistersInv, ScriptsAreAllowed
<1>2. CanistersInv /\ [Next]_vars => CanistersInv'
  BY CanistersStep
<1> QED
  BY <1>1, <1>2, CanistersInitially, PTL DEF Spec

=============================================================================
