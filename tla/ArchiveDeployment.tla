------------------------- MODULE ArchiveDeployment -------------------------
(***************************************************************************)
(* How Internet Identity creates, installs and upgrades its archive        *)
(* canister (archive.rs: deploy_archive and what it calls).                *)
(*                                                                         *)
(* Anybody may call deploy_archive with a wasm module; the hash of the     *)
(* right one is in the configuration, which only an upgrade of Internet    *)
(* Identity changes.  The call awaits the management canister up to three  *)
(* times; between two awaits other calls run.  Each call to another        *)
(* canister is executed there, or rejected, in one step and answered in a  *)
(* later one, and answers come in any order.                               *)
(*                                                                         *)
(* An upgrade loses the calls that are under way.  Those that have not     *)
(* been executed are taken to have been lost too: requests reach the       *)
(* management canister in order, so they could be executed only before     *)
(* those that Internet Identity sends later.                               *)
(***************************************************************************)
EXTENDS Naturals, FiniteSets, Functions

CONSTANTS
    Calls,              \* calls of deploy_archive that can be under way at once
    Modules,            \* wasm modules, each standing for its hash
    Inits,              \* arguments for the archive: the polling interval
    Canisters,          \* bounds the number of canisters that can be created
    MaxUpgrades,        \* bounds the number of upgrades
    MaxDays,            \* bounds how often a lock becomes a day old
    None                \* no canister, no module, no arguments, no answer

Rejected == "rejected"
Done == "done"

\* None and the outcome of a call are no canister, module or arguments.
DeploymentAssumption ==
    /\ {MaxUpgrades, MaxDays} \subseteq Nat
    /\ {None, Rejected} \cap (Canisters \cup Modules \cup Inits) = {}
    /\ None # Rejected

VARIABLES
    archive,    \* persistent_state.archive_state; old: its timestamp is a day ago
    cache,      \* archive_status_cache, None if it is an hour old
    call,       \* what each call of deploy_archive waits for
    canisters,  \* the canisters created so far and what is installed on them
    upgrades,   \* the number of upgrades
    days,       \* how often a lock has become a day old
    \* History variables: they remember, and no step depends on them.
    late,       \* calls that create an archive still, whose lock has been broken
    overrun     \* has one of them continued since the last upgrade

historyVars == <<late, overrun>>
vars == <<archive, cache, call, canisters, upgrades, days, historyVars>>

Configs == [module : Modules, init : Inits]
Nothing == [module |-> None, init |-> None]
Status == [module : Modules \cup {None}, init : Inits \cup {None}]

Wait(at, config, c, wasm, module) ==
    [at |-> at, config |-> config, canister |-> c, wasm |-> wasm, module |-> module, answer |-> {}]
Idle == Wait("idle", Nothing, None, None, None)
Success(c) == [Idle EXCEPT !.at = "success", !.canister = c]
Free(d) == call[d].at \in {"idle", "success"}

TypeOK ==
    /\ archive \in [state : {"NotConfigured", "Configured", "CreationInProgress", "Created"},
                    config : Configs \cup {Nothing}, canister : Canisters \cup {None}, old : BOOLEAN]
    /\ archive.state = "NotConfigured" <=> archive.config = Nothing
    /\ archive.state = "Created" <=> archive.canister # None
    /\ archive.old => archive.state = "CreationInProgress"
    /\ DOMAIN canisters \subseteq Canisters
    /\ archive.state = "Created" => archive.canister \in DOMAIN canisters
    /\ \A c \in DOMAIN canisters : canisters[c] \in Configs \cup {Nothing}
    /\ cache \in Status \cup {None}
    /\ DOMAIN call = Calls
    /\ \A d \in Calls :
          /\ call[d].at \in {"idle", "create", "canister_status", "status", "install", "success"}
          /\ ~Free(d) => call[d].config \in Configs
          /\ call[d].at \in {"canister_status", "status", "install"} =>
                call[d].canister \in DOMAIN canisters
    /\ upgrades \in 0..MaxUpgrades
    /\ days \in 0..MaxDays
    /\ late \subseteq {d \in Calls : call[d].at = "create"}
    /\ overrun \in BOOLEAN

Init ==
    /\ archive = [state |-> "NotConfigured", config |-> Nothing, canister |-> None, old |-> FALSE]
    /\ cache = None
    /\ call = [d \in Calls |-> Idle]
    /\ canisters = [c \in {} |-> Nothing]
    /\ upgrades = 0
    /\ days = 0
    /\ late = {} /\ overrun = FALSE

-----------------------------------------------------------------------------
(***************************************************************************)
(* Other canisters and time.                                               *)
(***************************************************************************)

Answer(d, x) == call' = [call EXCEPT ![d].answer = {x}]

Create(d) ==
    /\ call[d].at = "create"
    /\ \E c \in Canisters \ DOMAIN canisters :
          /\ canisters' = [x \in DOMAIN canisters \cup {c} |->
                              IF x = c THEN Nothing ELSE canisters[x]]
          /\ Answer(d, c)

ReportStatus(d) ==
    /\ call[d].at = "canister_status"
    /\ Answer(d, canisters[call[d].canister].module)
    /\ UNCHANGED canisters

ReportInit(d) ==
    /\ call[d].at = "status"
    /\ Answer(d, canisters[call[d].canister].init)
    /\ UNCHANGED canisters

\* A module is installed where there is none, or else it is an upgrade.
Install(d) ==
    LET c == call[d].canister IN
    /\ call[d].at = "install"
    /\ call[d].module = None => canisters[c] = Nothing
    /\ canisters' = [canisters EXCEPT ![c] = call[d].config]
    /\ Answer(d, Done)

Reject(d) == ~Free(d) /\ Answer(d, Rejected) /\ UNCHANGED canisters

Execute(d) ==
    /\ call[d].answer = {}
    /\ Create(d) \/ ReportStatus(d) \/ ReportInit(d) \/ Install(d) \/ Reject(d)
    /\ UNCHANGED <<archive, cache, upgrades, days, historyVars>>

HourPasses ==
    /\ cache # None
    /\ cache' = None
    /\ UNCHANGED <<archive, call, canisters, upgrades, days, historyVars>>

\* The system may take longer than a day to answer.
DayPasses ==
    /\ archive.state = "CreationInProgress" /\ ~archive.old
    /\ days < MaxDays
    /\ archive' = [archive EXCEPT !.old = TRUE]
    /\ cache' = None
    /\ days' = days + 1
    /\ UNCHANGED <<call, canisters, upgrades, historyVars>>

-----------------------------------------------------------------------------
(***************************************************************************)
(* deploy_archive up to its first await.                                   *)
(***************************************************************************)

\* Mutant: every lock is taken for a stuck one.
UnlockedAtOnce(a) ==
    IF a.state = "CreationInProgress" THEN [a EXCEPT !.state = "Configured", !.old = FALSE] ELSE a

\* Mutant: whatever the state, the archive is created.
UnlockedAlways(a) ==
    IF a.state = "NotConfigured" THEN a
    ELSE [a EXCEPT !.state = "Configured", !.canister = None, !.old = FALSE]

\* unlock_archive_if_stuck
Unlocked(a) ==
    IF a.state = "CreationInProgress" /\ a.old
    THEN [a EXCEPT !.state = "Configured", !.old = FALSE] ELSE a

\* archive_change_required
ChangeRequired(status, config) == status # config

\* What becomes of a call whose archive has been created and has this status:
\* it succeeds, it is refused for the wrong wasm, or it installs.  The second
\* archive_status is answered by the cache that the first has left.
Decided(wasm, config, c, status) ==
    IF ~ChangeRequired(status, config) THEN Success(c)
    ELSE IF wasm # config.module THEN Idle
    ELSE Wait("install", config, c, wasm, status.module)

\* Not configured or locked: the call returns, having unlocked at most.
DeployRefused(d, wasm) ==
    LET a == Unlocked(archive) IN
    /\ \/ a.state \in {"NotConfigured", "CreationInProgress"}
       \/ a.state = "Configured" /\ wasm # a.config.module
    /\ archive' = a
    /\ call' = [call EXCEPT ![d] = Idle]

\* create_archive locks the archive and awaits a canister.
DeployFirst(d, wasm) ==
    LET a == Unlocked(archive) IN
    /\ a.state = "Configured" /\ wasm = a.config.module
    /\ archive' = [a EXCEPT !.state = "CreationInProgress", !.old = FALSE]
    /\ call' = [call EXCEPT ![d] = Wait("create", a.config, None, wasm, None)]

\* archive_status asks the management canister unless the cache has the answer.
DeployAgain(d, wasm) ==
    /\ Unlocked(archive).state = "Created"
    /\ call' = [call EXCEPT ![d] =
                   IF cache # None THEN Decided(wasm, archive.config, archive.canister, cache)
                   ELSE Wait("canister_status", archive.config, archive.canister, wasm, None)]
    /\ UNCHANGED archive

\* The calls that the lock was held for: they go on waiting without it.
Creating == {d \in Calls : call[d].at = "create"}

Deploy(d) ==
    /\ Free(d)
    /\ \E wasm \in Modules : DeployRefused(d, wasm) \/ DeployFirst(d, wasm) \/ DeployAgain(d, wasm)
    /\ late' = IF archive.old THEN Creating ELSE late
    /\ UNCHANGED <<cache, canisters, upgrades, days, overrun>>

-----------------------------------------------------------------------------
(***************************************************************************)
(* The continuations after the awaits.  All use what the call has read at  *)
(* its start.                                                              *)
(***************************************************************************)

Answered(d, at, x) == call[d].at = at /\ call[d].answer = {x} /\ x # Rejected
Refused(d, at) == call[d].at = at /\ call[d].answer = {Rejected}
Goto(d, next) == call' = [call EXCEPT ![d] = next]

Created(config, c) ==
    [state |-> "Created", config |-> config, canister |-> c, old |-> FALSE]

\* Whether the lock is still its own, the call does not ask.
AfterCreate(d) ==
    /\ \/ \E c \in call[d].answer :
             /\ Answered(d, "create", c)
             /\ archive' = Created(call[d].config, c)
             /\ Goto(d, Wait("install", call[d].config, c, call[d].wasm, None))
       \/ /\ Refused(d, "create")
          /\ archive' = [state |-> "Configured", config |-> call[d].config,
                         canister |-> None, old |-> FALSE]
          /\ Goto(d, Idle)
    /\ overrun' = (overrun \/ d \in late)
    /\ late' = late \ {d}
    /\ UNCHANGED <<cache, canisters, upgrades, days>>

Known(d, status) ==
    /\ cache' = status
    /\ Goto(d, Decided(call[d].wasm, call[d].config, call[d].canister, status))

\* The archive is asked for its arguments only if it is installed.  Without the
\* status of the canister the call traps, without the arguments it goes on.
AfterStatus(d) ==
    /\ \/ /\ call[d].at = "canister_status"
          /\ call[d].answer = {None}
          /\ Known(d, Nothing)
       \/ \E module \in call[d].answer \ {None} :
             /\ Answered(d, "canister_status", module)
             /\ Goto(d, Wait("status", call[d].config, call[d].canister, call[d].wasm, module))
             /\ UNCHANGED cache
       \/ Refused(d, "canister_status") /\ Goto(d, Idle) /\ UNCHANGED cache
       \/ \E init \in call[d].answer :
             /\ Answered(d, "status", init)
             /\ Known(d, [module |-> call[d].module, init |-> init])
       \/ Refused(d, "status") /\ Known(d, [module |-> call[d].module, init |-> None])
    /\ UNCHANGED <<archive, canisters, upgrades, days, historyVars>>

AfterInstall(d) ==
    /\ \/ Answered(d, "install", Done) /\ cache' = None /\ Goto(d, Success(call[d].canister))
       \/ Refused(d, "install") /\ Goto(d, Idle) /\ UNCHANGED cache
    /\ UNCHANGED <<archive, canisters, upgrades, days, historyVars>>

\* An upgrade of Internet Identity, with or without a new configuration.
Upgrade ==
    /\ upgrades < MaxUpgrades
    /\ upgrades' = upgrades + 1
    /\ \/ UNCHANGED archive
       \/ \E config \in Configs :
             archive' = [archive EXCEPT !.config = config,
                            !.state = IF @ = "NotConfigured" THEN "Configured" ELSE @]
    /\ cache' = None
    /\ call' = [d \in Calls |-> Idle]
    /\ late' = {} /\ overrun' = FALSE
    /\ UNCHANGED <<canisters, days>>

Next ==
    \/ \E d \in Calls :
          Execute(d) \/ Deploy(d) \/ AfterCreate(d) \/ AfterStatus(d) \/ AfterInstall(d)
    \/ HourPasses
    \/ DayPasses
    \/ Upgrade

Spec == Init /\ [][Next]_vars

-----------------------------------------------------------------------------
(***************************************************************************)
(* Properties.                                                             *)
(***************************************************************************)

\* CreationInProgress is a lock ("lock the archive"): one call at a time creates
\* a canister, and only under the lock.  Calls whose lock was broken after a day
\* are not counted, and nothing is said once one of them has continued.
OneCreates ==
    overrun \/ \A d \in Creating \ late :
                  archive.state = "CreationInProgress" /\ Creating \ late = {d}

\* "Save archive info permanently": once there is an archive, Internet Identity
\* keeps it, whatever other calls of deploy_archive are under way.
ArchiveIsKept ==
    [][archive.state = "Created" =>
          archive'.state = "Created" /\ archive'.canister = archive.canister]_vars

\* The archive is kept as long as no call continues whose lock was broken as
\* that of a call that "has likely failed", although such calls are waiting.
ArchiveIsKeptStep ==
    archive.state = "Created" /\ ~overrun' =>
       archive'.state = "Created" /\ archive'.canister = archive.canister

\* When deploy_archive answers Success, the canister that it names is the
\* archive, and there runs on it what the configuration asks for, however many
\* calls have run meanwhile and however old the status they looked at: again as
\* long as no call has continued whose lock was broken.
SuccessIsTrueStep ==
    \A d \in Calls :
       call[d].at # "success" /\ call'[d].at = "success" /\ ~overrun' =>
           /\ call'[d].canister = archive'.canister
           /\ canisters'[archive'.canister] = archive'.config

\* A second canister is created only after the lock has become a day old, and
\* then one more at most, whatever calls are late, refused or lost.
CanistersAreNotWasted == Cardinality(DOMAIN canisters) <= 1 + days

=============================================================================
