------------------------------ MODULE Canister ------------------------------
(***************************************************************************)
(* The Internet Identity canister as a whole: how it is installed and      *)
(* upgraded, what it keeps across upgrades, what it reports of its         *)
(* configuration and what it serves over HTTP (main.rs, state.rs,          *)
(* storage.rs, assets.rs, http.rs).                                        *)
(*                                                                         *)
(* The configuration and the statistics live on the heap: pre_upgrade      *)
(* writes them to stable memory, post_upgrade reads them back and applies  *)
(* the argument of the upgrade on top.  The header of the storage lives on *)
(* the heap too and is flushed by every operation that changes it.  An     *)
(* upgrade that traps is undone.                                           *)
(***************************************************************************)
EXTENDS FiniteSets, Functions, CertifiedAssets

CONSTANTS
    Origins,        \* sequences of origins
    OpenIds,        \* lists of OpenID configurations
    Domains,        \* SSO domains
    Values,         \* values of the other parts of the configuration
    Ranges,         \* ranges <<lo, hi>> of anchor numbers that are tried
    PairedRanges,   \* those of them that are tried together with another part
    MAX_ENTRIES,    \* bounds the size of a range
    MaxUpgrades,    \* bounds the number of upgrades, failed ones included
    MaxUses         \* bounds the number of other calls

CanisterAssumption ==
    /\ PairedRanges \subseteq Ranges /\ Ranges \subseteq Nat \X Nat
    /\ MAX_ENTRIES \in Nat \ {0} /\ MaxUpgrades \in Nat /\ MaxUses \in Nat

VARIABLES
    header,     \* num_anchors, id_range and salt in the header of the storage
    persistent, \* persistent_state
    stable,     \* what stable memory holds of both
    assets,     \* ASSETS
    sigs,       \* the signature map
    providers,  \* PROVIDERS and OIDC_CONFIGS: the configurations in memory
    certified,  \* the certified data
    upgrades, uses

vars == <<header, persistent, stable, assets, sigs, providers, certified, upgrades, uses>>

FIRST_ANCHOR_NUMBER == 1
EMPTY_SALT == 0
Default == 0    \* the default of a part that always has a value

Archive(state, config) == [state |-> state, config |-> config]

\* PersistentState::default, by what an absent field is read as.
DefaultState ==
    [archive_state |-> Archive("NotConfigured", None),
     canister_creation_cycles_cost |-> Default, registration_rate_limit |-> Default,
     active_anchor_stats |-> Default, domain_active_anchor_stats |-> Default,
     active_authn_method_stats |-> Default, event_stats_24h_start |-> None,
     captcha_config |-> Default,
     related_origins |-> None, new_flow_origins |-> None, openid_configs |-> None,
     sso_discoverable_domains |-> None, oidc_configs |-> None, analytics_config |-> None,
     enable_dapps_explorer |-> None, is_production |-> None, dummy_auth |-> None]

Fields == DOMAIN DefaultState
Statistics ==
    {"active_anchor_stats", "domain_active_anchor_stats", "active_authn_method_stats",
     "event_stats_24h_start"}

\* Mutant: the conversion of one field is missing.
StorableWithoutSso(p) == Restrict(p, Fields \ {"oidc_configs"})

\* StorablePersistentState::from
Storable(p) == Restrict(p, Fields)

\* PersistentState::from.  What an older release has written may lack fields.
Loaded(s) == [f \in Fields |-> IF f \in DOMAIN s THEN s[f] ELSE DefaultState[f]]

-----------------------------------------------------------------------------
(***************************************************************************)
(* The argument of installations and upgrades, a function whose domain are *)
(* the parts that are given.                                               *)
(***************************************************************************)

\* A domain as an operator may type it, and in its canonical form.
Typed(d) == [domain |-> d, canonical |-> FALSE]
Canonical(d) == [d EXCEPT !.canonical = TRUE]

Given(part) ==
    CASE part = "assigned_user_number_range" -> Ranges
      [] part \in {"related_origins", "new_flow_origins"} -> Origins
      [] part = "openid_configs" -> OpenIds
      [] part = "sso_discoverable_domains" -> {{Typed(d) : d \in S} : S \in SUBSET Domains}
      [] part \in {"analytics_config", "dummy_auth"} -> Values \cup {None}
      [] OTHER -> Values

Parts ==
    (Fields \ (Statistics \cup {"archive_state", "oidc_configs"}))
        \cup {"assigned_user_number_range", "archive_config"}

\* set_anchor_number_range does not trap.
RangeIsProper(h, range) ==
    /\ range[1] <= range[2] /\ range[2] - range[1] <= MAX_ENTRIES
    /\ h.num_anchors > 0 => range[1] = h.range[1] /\ range[2] - range[1] >= h.num_anchors

ArgIsAccepted(h, arg) ==
    "assigned_user_number_range" \in DOMAIN arg =>
        RangeIsProper(h, arg["assigned_user_number_range"])

\* update_archive_config
UpdatedArchive(archive_state, config) ==
    Archive(IF archive_state.state = "NotConfigured" THEN "Configured" ELSE archive_state.state,
            config)

\* apply_install_arg
ApplyInstallArg(p, arg) ==
    [f \in Fields |->
        IF f = "archive_state" /\ "archive_config" \in DOMAIN arg
        THEN UpdatedArchive(p[f], arg["archive_config"])
        ELSE IF f \notin DOMAIN arg THEN p[f]
        ELSE IF f = "sso_discoverable_domains" THEN {Canonical(d) : d \in arg[f]}
        ELSE arg[f]]

HeaderWith(h, arg) ==
    IF "assigned_user_number_range" \in DOMAIN arg
    THEN [h EXCEPT !.range = arg["assigned_user_number_range"]] ELSE h

\* config: the argument that describes the canister.  What has no value is not
\* given, but for analytics_config and dummy_auth, which are given as absent.
Config(h, p) ==
    [part \in {"assigned_user_number_range"}
              \cup (IF p.archive_state.state = "NotConfigured" THEN {} ELSE {"archive_config"})
              \cup {f \in Parts \cap Fields : p[f] # None \/ f \in {"analytics_config", "dummy_auth"}} |->
        CASE part = "assigned_user_number_range" -> h.range
          [] part = "archive_config" -> p.archive_state.config
          [] OTHER -> p[part]]

-----------------------------------------------------------------------------
(***************************************************************************)
(* What is served.                                                         *)
(***************************************************************************)

ConfigPath == << <<"", "config", "did", "bin">> >>
DomainsPath == << <<"", "well-known">>, <<"ic-domains">> >>
MetricsPath == << <<"metrics">> >>

OriginsOf(p) == IF p.related_origins = None THEN <<>> ELSE p.related_origins

\* get_static_assets
GetStaticAssets(p) ==
    << [path |-> ConfigPath, content |-> <<p.openid_configs>>,
        type |-> "octet-stream", encoding |-> "Identity"],
       [path |-> DomainsPath, content |-> OriginsOf(p),
        type |-> "octet-stream", encoding |-> "Identity"] >>

\* security_headers, the constant ones as one.
SecurityHeaders(origins) ==
    << Header("Content-Security-Policy", <<"none">>), Header("Permissions-Policy", origins) >>

\* init_assets
InitAssets(p) == CertifyAssets(GetStaticAssets(p), SecurityHeaders(OriginsOf(p)))

\* update_root_hash
UpdatedRoot(c, s) == [assets |-> RootHash(c), sigs |-> s]

Response(status, headers, body) == [status |-> status, headers |-> headers, body |-> body]

\* get_asset, of a path that has one
GetAsset(path, version) ==
    [GetCertifiedAsset(assets, path, version, sigs) EXCEPT !.headers = @ \o assets.shared]

\* http_options_request
HttpOptionsRequest == Response(204, <<Header("Access-Control-Allow-Origin", <<"*">>)>>, <<>>)

\* http_get_request.  What follows a question mark is not part of the path.
HttpGetRequest(path, version) ==
    IF path = MetricsPath
    THEN Response(200, <<Header("Content-Type", "text/plain")>> \o SecurityHeaders(<<>>), <<>>)
    ELSE IF HasAsset(assets, path) THEN GetAsset(path, version)
    ELSE Response(404, SecurityHeaders(<<>>), <<>>)

MethodNotAllowed == Response(405, <<Header("Allow", <<"GET", "OPTIONS">>)>>, <<>>)

HttpRequest(method, path, version) ==
    CASE method = "OPTIONS" -> HttpOptionsRequest
      [] method = "GET" -> HttpGetRequest(path, version)
      [] OTHER -> MethodNotAllowed

-----------------------------------------------------------------------------
(***************************************************************************)
(* Installation, upgrades and the calls that change what is kept.          *)
(***************************************************************************)

\* Mutant: the assets and providers are set up before the argument is applied.
InitializedEarly(h, p, arg) ==
    [header |-> HeaderWith(h, arg), persistent |-> ApplyInstallArg(p, arg), assets |-> InitAssets(p),
     certified |-> UpdatedRoot(InitAssets(p), {}),
     providers |-> [openid |-> p.openid_configs, oidc |-> p.oidc_configs]]

\* initialize, from the header and the state that have been read.
Initialized(h, p, arg) ==
    LET q == ApplyInstallArg(p, arg) IN
    [header |-> HeaderWith(h, arg), persistent |-> q, assets |-> InitAssets(q),
     certified |-> UpdatedRoot(InitAssets(q), {}),
     providers |-> [openid |-> q.openid_configs, oidc |-> q.oidc_configs]]

\* Storage::new
NewHeader ==
    [num_anchors |-> 0, salt |-> EMPTY_SALT,
     range |-> <<FIRST_ANCHOR_NUMBER, FIRST_ANCHOR_NUMBER + MAX_ENTRIES>>]

\* Stable memory as an older release has left it, which did not know all fields.
OldFields ==
    {"archive_state", "canister_creation_cycles_cost", "registration_rate_limit"}
        \cup (Statistics \ {"event_stats_24h_start"})
OldState(v) ==
    Restrict([DefaultState EXCEPT !.archive_state = Archive("Created", v),
                                  !.registration_rate_limit = v], OldFields)

\* A new canister (init), or one that has just been upgraded from that release.
Init ==
    /\ \E old \in {[header |-> NewHeader, state |-> Storable(DefaultState)]}
              \cup {[header |-> [NewHeader EXCEPT !.num_anchors = 1], state |-> OldState(v)] : v \in Values} :
          LET c == Initialized(old.header, Loaded(old.state), <<>>) IN
          /\ stable = old
          /\ header = c.header /\ persistent = c.persistent /\ assets = c.assets
          /\ certified = c.certified /\ providers = c.providers
    /\ sigs = {} /\ upgrades = 0 /\ uses = 0

\* save_persistent_state, in pre_upgrade
SavePersistentState == Storable(persistent)

\* pre_upgrade and post_upgrade.  An argument that makes post_upgrade
\* trap leaves everything as it was.
Upgrade(arg) ==
    /\ upgrades < MaxUpgrades
    /\ upgrades' = upgrades + 1
    /\ LET saved == SavePersistentState
           h == stable.header
           c == Initialized(h, Loaded(saved), arg) IN
       IF ~ArgIsAccepted(h, arg)
       THEN UNCHANGED <<header, persistent, stable, assets, sigs, providers, certified>>
       ELSE /\ header' = c.header
            /\ persistent' = c.persistent
            /\ stable' = [header |-> c.header, state |-> saved]
            /\ assets' = c.assets
            /\ sigs' = {}
            /\ certified' = c.certified
            /\ providers' = c.providers
    /\ UNCHANGED uses

Use == uses < MaxUses /\ uses' = uses + 1 /\ UNCHANGED upgrades

\* allocate_anchor
AllocateAnchor ==
    /\ Use
    /\ header.range[1] + header.num_anchors < header.range[2]
    /\ header' = [header EXCEPT !.num_anchors = @ + 1]
    /\ stable' = [stable EXCEPT !.header = header']
    /\ UNCHANGED <<persistent, assets, sigs, providers, certified>>

\* update_salt
UpdateSalt ==
    /\ Use
    /\ header.salt = EMPTY_SALT
    /\ header' = [header EXCEPT !.salt = 1]
    /\ stable' = [stable EXCEPT !.header = header']
    /\ UNCHANGED <<persistent, assets, sigs, providers, certified>>

\* A signature is added and certified: add_delegation_signature.
Sign ==
    /\ Use
    /\ sigs' = sigs \cup {uses}
    /\ certified' = UpdatedRoot(assets, sigs')
    /\ UNCHANGED <<header, persistent, stable, assets, providers>>

\* add_oidc_config of a domain that is accepted (OpenIdProviders has the rest).
AddOidcConfig ==
    /\ Use
    /\ \E d \in Domains :
          LET oidc == {d} \cup (IF persistent.oidc_configs = None THEN {} ELSE persistent.oidc_configs) IN
          /\ persistent' = [persistent EXCEPT !.oidc_configs = oidc]
          /\ providers' = [providers EXCEPT !.oidc = oidc]
    /\ UNCHANGED <<header, stable, assets, sigs, certified>>

\* What anything else changes in the persistent state: statistics, and the state
\* of the archive (ArchiveDeployment has the details).
Count ==
    /\ Use
    /\ \E f \in Statistics : persistent' = [persistent EXCEPT ![f] = uses + 1]
    /\ UNCHANGED <<header, stable, assets, sigs, providers, certified>>

DeployArchive ==
    /\ Use
    /\ persistent.archive_state.state = "Configured"
    /\ persistent' = [persistent EXCEPT !.archive_state.state = "Created"]
    /\ UNCHANGED <<header, stable, assets, sigs, providers, certified>>

Next ==
    \/ Upgrade(<<>>)
    \/ \E part \in Parts : \E x \in Given(part) :
          \/ Upgrade([p \in {part} |-> x])
          \/ \E range \in PairedRanges :
                /\ part # "assigned_user_number_range"
                /\ Upgrade([p \in {part, "assigned_user_number_range"} |->
                              IF p = part THEN x ELSE range])
    \/ AllocateAnchor
    \/ UpdateSalt
    \/ Sign
    \/ AddOidcConfig
    \/ Count
    \/ DeployArchive

Spec == Init /\ [][Next]_vars

-----------------------------------------------------------------------------
(***************************************************************************)
(* Properties.                                                             *)
(***************************************************************************)

\* An upgrade changes the part of the configuration that its argument gives (one
\* besides the range, here) and nothing else: the statistics, the SSO domains
\* that users have registered, the archive, the salt and the anchors, all of
\* them in the range, survive it.
NothingIsForgottenStep ==
    upgrades' # upgrades =>
       LET changed == {f \in Fields : persistent'[f] # persistent[f]} IN
       /\ Cardinality(changed) <= 1
       /\ changed \cap (Statistics \cup {"oidc_configs"}) = {}
       /\ persistent.archive_state.state = "Created" =>
             persistent'.archive_state.state = "Created"
       /\ header'.salt = header.salt /\ header'.num_anchors = header.num_anchors
       /\ header.num_anchors > 0 =>
             /\ header'.range[1] = header.range[1]
             /\ header.range[1] + header.num_anchors <= header'.range[2]

\* To upgrade with what config reports is accepted and changes nothing, so that
\* an operator can take the reported configuration and edit it.
ReportedConfigIsKept ==
    LET arg == Config(header, persistent) IN
    /\ ArgIsAccepted(header, arg)
    /\ ApplyInstallArg(persistent, arg) = persistent
    /\ HeaderWith(header, arg) = header

\* A gateway accepts what the canister answers for each of its assets under any
\* version of certification, whatever signatures and configurations came between.
ServedIsCertified ==
    \A path \in DOMAIN assets.assets, version \in {None, 1, 2, 3} :
        LET response == HttpRequest("GET", path, version) IN
        Verifies(response, path, certified) /\ HeadersAreDistinct(response)

\* What is in memory and on the wire is what is configured: the OpenID providers
\* that the frontend loads are those that tokens are verified for, and origins
\* that may use each other's passkeys are the related ones.
ConfigIsInForce ==
    /\ providers = [openid |-> persistent.openid_configs, oidc |-> persistent.oidc_configs]
    /\ HttpRequest("GET", ConfigPath, 2).body = <<providers.openid>>
    /\ \A path \in DOMAIN assets.assets :
          HeaderMap(HttpRequest("GET", path, 2).headers)["Permissions-Policy"] = OriginsOf(persistent)
    /\ HttpRequest("GET", DomainsPath, 1).body = OriginsOf(persistent)

=============================================================================
