----------------------------- MODULE MCCanisters -----------------------------
(***************************************************************************)
(* How the canisters are installed, upgraded and read, on small instances: *)
(* Internet Identity (Canister), its new frontend (Frontend), a dapp on    *)
(* the same assets library (AssetCanister), and the archive                *)
(* (ArchiveDeployment, ArchiveQueries).  These are different canisters or  *)
(* views of them, so a behaviour of this module is one of one of them, and *)
(* the variables that several have stand for those of the one that runs.   *)
(***************************************************************************)
EXTENDS Naturals, Sequences, FiniteSets, SequencesExt, TLC

CONSTANTS
    None, ImmutableParts,
    \* AssetCanister
    MaxChanges,
    \* Frontend
    Releases, Arguments, MaxReleases, ImmutableStems,
    \* Canister
    CanisterOrigins, OpenIds, Domains, Values, Ranges, PairedRanges,
    MAX_ENTRIES, MaxCanisterUpgrades, MaxUses,
    \* ArchiveDeployment
    Calls, Modules, Inits, Canisters, MaxArchiveUpgrades, MaxDays,
    \* ArchiveQueries
    Anchors, Readers, Limits, max_entries_per_call, MaxEntries, MaxTime

VARIABLES
    part,   \* "dapp", "frontend", "canister", "archive" or "queries"
    tree, mode, answers, changes,
    args, router, kept,
    header, persistent, stable, sigs, providers, uses,
    assets, certified, upgrades,
    archive, cache, call, canisters, days, late, overrun,
    log, index, now, reader

-----------------------------------------------------------------------------
(***************************************************************************)
(* Two builds of the dapp, with a page under each kind of path.            *)
(***************************************************************************)

Page == <<"index", "html">>
File(dirs, name, content) == [dirs |-> dirs, name |-> name, content |-> <<content>>]
Build ==
    << File(<<>>, Page, "i"), File(<<>>, <<"foo", "html">>, "f"),
       File(<< <<"immutable">> >>, <<"app", "js", "gz">>, "a") >>
Rebuild ==
    << File(<<>>, Page, "j"),
       File(<< <<"", "well-known">> >>, <<"ic-domains">>, "d"),
       File(<< <<"foo">> >>, Page, "g"),
       File(<< <<"foo">>, <<"bar">> >>, <<"x", "y", "css">>, "c"),
       File(<< <<"foo">> >>, <<"bar", "html">>, "b") >>

Dapp == INSTANCE AssetCanister WITH
    Trees <- {Build, Rebuild}, Contents <- {<<"c">>, <<"d">>}, Locations <- {"k", "l"}

(***************************************************************************)
(* Pages of the frontend: as bundlers write them, with attributes, loaded  *)
(* scripts and text that is injected within and around scripts; and others *)
(* that a browser and the search of the canister do not read alike.        *)
(***************************************************************************)

Script(text) == <<"<script", ">">> \o text \o <<"</script>">>
HeadEnd == <<"</head>", "<body", ">">>
MCTexts ==
    { Script(<<"a">>) \o HeadEnd \o <<"<script", "defer", ">", "b", "</script>">>,
      <<"<script", "src", ">", "</script>">> \o HeadEnd \o Script(<<"c">>),
      Script(<<"d", "</head>", "<body">>) \o HeadEnd,
      <<"<!--">> \o Script(<<"e">>) \o <<"-->">> \o Script(<<"f">>),
      <<"<p", "=quote", "<script", ">", "quote", ">">> \o Script(<<"g">>),
      Script(<<"h", "<script", "i", "<!--">>) \o Script(<<"j">>),
      HeadEnd,
      <<"<script", "=quote", ">", "quote", ">", "k", "</script>">>,
      <<"<script", ">", "l", "</script/>", "m", "</script>">>,
      <<"<SCRIPT", ">", "n", "</SCRIPT>">>,
      <<"<script", ">", "<!--", "<script", "</script>", "o", "</script>">>,
      <<"<script", ">", "p">> }

(***************************************************************************)
(* A release of the frontend has one of the pages and another page, and    *)
(* files of which some change with the release.                            *)
(***************************************************************************)

Source(dirs, name, text) ==
    [dirs |-> dirs, name |-> name, content |-> [text |-> text, args |-> None]]
Code(dirs, name, text) == Source(<< <<"_app">> >> \o dirs, name, <<text>>)
Release(text, version) ==
    << Source(<<>>, Page, text), Source(<<>>, <<"about", "html">>, Script(<<version>>)),
       Code(<< <<"immutable">> >>, <<"app", "1f", "js", "gz">>, "code"),
       Code(<< <<"immutable">> >>, <<version, "js">>, version),
       Code(<<>>, <<"version", "json">>, version),
       Code(<<>>, <<"immutable", "json">>, version),
       Code(<< <<"immutable-x">> >>, <<"y", "css">>, version) >>
MCReleases == {Release(text, version) : text \in MCTexts, version \in {"1", "2"}}
MCArguments ==
    { [related_origins |-> None, dev_csp |-> FALSE], [related_origins |-> <<>>, dev_csp |-> TRUE],
      [related_origins |-> <<"o", "p">>, dev_csp |-> FALSE] }

Pages == INSTANCE Frontend WITH MaxUpgrades <- MaxReleases

(***************************************************************************)
(* Arguments of the canister, with ranges that are proper, too small, too  *)
(* large, shifted and reversed.                                            *)
(***************************************************************************)

MCOrigins == {<<>>, <<"o", "p">>}
MCRanges == {<<1, 3>>, <<1, 4>>, <<1, 1>>, <<2, 4>>, <<3, 2>>, <<1, 5>>}
MCPairedRanges == {<<1, 4>>, <<1, 1>>, <<2, 4>>}

Identity == INSTANCE Canister WITH
    Origins <- CanisterOrigins, MaxUpgrades <- MaxCanisterUpgrades

Archive == INSTANCE ArchiveDeployment WITH MaxUpgrades <- MaxArchiveUpgrades
Queries == INSTANCE ArchiveQueries

ASSUME MCCanistersAssumption ==
    /\ Dapp!AssetCanisterAssumption
    /\ Pages!FrontendAssumption
    /\ Identity!CanisterAssumption
    /\ Archive!DeploymentAssumption
    /\ Queries!QueriesAssumption

-----------------------------------------------------------------------------

dappVars == <<tree, mode, answers, changes>>
pagesVars == <<args, router, kept>>
identityVars == <<header, persistent, stable, sigs, providers, uses>>
archiveVars == <<archive, cache, call, canisters, days, late, overrun>>
queriesVars == <<log, index, now, reader>>
vars == <<part, assets, certified, upgrades,
          dappVars, pagesVars, identityVars, archiveVars, queriesVars>>

NoDapp == tree = <<>> /\ mode = <<>> /\ answers = {} /\ changes = 0
NoPages == args = <<>> /\ router = <<>> /\ kept = {}
NoIdentity ==
    /\ header = <<>> /\ persistent = <<>> /\ stable = <<>>
    /\ sigs = {} /\ providers = <<>> /\ uses = 0
NoArchive ==
    /\ archive = <<>> /\ cache = None /\ call = <<>> /\ canisters = <<>>
    /\ days = 0 /\ late = {} /\ overrun = FALSE
NoQueries == log = <<>> /\ index = {} /\ now = 0 /\ reader = <<>>
NoAssets == assets = <<>> /\ certified = <<>>

Init ==
    \/ /\ part = "dapp" /\ Dapp!Init /\ upgrades = 0
       /\ NoPages /\ NoIdentity /\ NoArchive /\ NoQueries
    \/ /\ part = "frontend" /\ Pages!Init /\ NoAssets
       /\ NoDapp /\ NoIdentity /\ NoArchive /\ NoQueries
    \/ /\ part = "canister" /\ Identity!Init
       /\ NoDapp /\ NoPages /\ NoArchive /\ NoQueries
    \/ /\ part = "archive" /\ Archive!Init /\ NoAssets
       /\ NoDapp /\ NoPages /\ NoIdentity /\ NoQueries
    \/ /\ part = "queries" /\ Queries!Init /\ NoAssets /\ upgrades = 0
       /\ NoDapp /\ NoPages /\ NoIdentity /\ NoArchive

Next ==
    \/ /\ part = "dapp" /\ Dapp!Next
       /\ UNCHANGED <<part, upgrades, pagesVars, identityVars, archiveVars, queriesVars>>
    \/ /\ part = "frontend" /\ Pages!Next
       /\ UNCHANGED <<part, assets, certified, dappVars, identityVars, archiveVars, queriesVars>>
    \/ /\ part = "canister" /\ Identity!Next
       /\ UNCHANGED <<part, dappVars, pagesVars, archiveVars, queriesVars>>
    \/ /\ part = "archive" /\ Archive!Next
       /\ UNCHANGED <<part, assets, certified, dappVars, pagesVars, identityVars, queriesVars>>
    \/ /\ part = "queries" /\ Queries!Next
       /\ UNCHANGED <<part, assets, certified, upgrades, dappVars, pagesVars, identityVars,
                      archiveVars>>

Spec == Init /\ [][Next]_vars

Symmetry == Permutations(Calls) \cup Permutations(Canisters)

-----------------------------------------------------------------------------
(***************************************************************************)
(* The properties of the parts, see there.                                 *)
(***************************************************************************)

\* AssetCanister: every file of the build is served and verifies, and nothing
\* that an earlier content or build has answered does.
OldResponsesAreRejected ==
    part = "dapp" => Dapp!FilesAreServed /\ Dapp!OldResponsesAreRejected

\* Frontend: the policy lets the plain inline scripts of the pages run.
ScriptsAreAllowed == part = "frontend" => Pages!ScriptsAreAllowed

\* Frontend: what browsers keep is what is served, but for files whose names only
\* begin like those that are to be kept.
CachesAreCurrent == part = "frontend" => Pages!CachesAreCurrent

\* Canister: upgrades lose nothing.
NothingIsForgotten == [][part = "canister" => Identity!NothingIsForgottenStep]_vars

\* Canister: what is configured is what is reported, verified with and served,
\* and what is served is certified.
ConfigIsInForce ==
    part = "canister" =>
        /\ Identity!ConfigIsInForce
        /\ Identity!ReportedConfigIsKept
        /\ Identity!ServedIsCertified

\* ArchiveDeployment: one call creates the archive, and no canister is wasted.
OneCreates ==
    part = "archive" =>
        Archive!TypeOK /\ Archive!OneCreates /\ Archive!CanistersAreNotWasted

\* ArchiveDeployment: until a call continues whose lock was broken, the archive
\* is kept, and Success means that what is configured runs on it.
SuccessIsTrue ==
    [][part = "archive" => Archive!ArchiveIsKeptStep /\ Archive!SuccessIsTrueStep]_vars

\* ArchiveQueries: pages put together are what was asked for.
PagesAreComplete == part = "queries" => Queries!TypeOK /\ Queries!PagesAreComplete

=============================================================================
