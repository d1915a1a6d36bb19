-------------------------- MODULE OpenIdProviders --------------------------
(***************************************************************************)
(* The OpenID providers, and the timers that keep them up to date          *)
(* (openid.rs, openid/generic.rs, initialize and apply_install_arg of      *)
(* main.rs).                                                               *)
(*                                                                         *)
(* A static provider has its issuer, client id and key location from the   *)
(* configuration.  A discoverable one finds them in two hops: a document   *)
(* on its domain names the client id and the location of a second, which   *)
(* names the issuer and the key location.  Keys are fetched again and      *)
(* again by a chain of timers, sooner after a failure.  Every document may *)
(* change while an outcall for it is under way.                            *)
(*                                                                         *)
(* When a timer fires is left open.  Of the configuration an upgrade may   *)
(* bring, the allowlist is modelled.  Only the domains survive an upgrade. *)
(***************************************************************************)
EXTENDS OpenIdMatching, FiniteSets, FiniteSetsExt

CONSTANTS
    StaticConfigs,  \* openid_configs: sequence of [issuer, client, uri, scheme]
    Domains,        \* discovery domains, in lower case
    Documents,      \* location |-> sequence of what is published there in turn:
                    \*   domain: [client, conf, name], conf: [issuer, uri],
                    \*   uri: set of keys, or Unreadable
    Unreadable,     \* a reply with another status or that does not parse
    HostOf,         \* conf |-> its host
    Malformed,      \* locations that are no URL with scheme http or https
    HttpHost,       \* location with http |-> its host, https otherwise
    Allowlists,     \* values of sso_discoverable_domains, None for the default
    DefaultDomains, \* the default allowlist
    MinDelay, MaxDelay,             \* of compute_next_certs_fetch_delay
    MaxRuns, MaxChains, MaxRestarts \* bounds

ASSUME OpenIdProvidersAssumption ==
    /\ MinDelay \in Nat \ {0} /\ MaxDelay \in Nat /\ MinDelay <= MaxDelay
    /\ DefaultDomains \subseteq Domains /\ Domains \subseteq DOMAIN Documents
    /\ MaxRuns \in Nat /\ MaxChains \in Nat /\ MaxRestarts \in Nat
    /\ StaticConfigs \in Seq(Range(StaticConfigs)) /\ Len(StaticConfigs) <= MaxChains
    \* A readable document is complete, and something is published wherever
    \* its location leads.
    /\ \A l \in DOMAIN Documents : Len(Documents[l]) \in Nat \ {0}
    /\ \A d \in Domains : \A i \in 1..Len(Documents[d]) :
          LET ii == Documents[d][i]
          IN  ii # Unreadable =>
                /\ ii.client # None
                /\ ii.conf \notin Malformed =>
                      /\ ii.conf \in DOMAIN Documents
                      /\ \A j \in 1..Len(Documents[ii.conf]) :
                            LET doc == Documents[ii.conf][j]
                            IN  doc # Unreadable => doc.issuer # None

VARIABLES
    allowlist,  \* persistent_state.sso_discoverable_domains
    persisted,  \* persistent_state.oidc_configs: sequence of [domain, mixed]
    tasks,      \* OIDC_CONFIGS, DISCOVERY_TASKS and their providers, in order
    staticKeys, \* keys of the static providers
    chains,     \* the timers that fetch keys, in the order of their start
    runs,       \* run_discovery_tasks under way
    timers,     \* [once, periodic]: discovery timers that are set
    version,    \* location |-> how often its document has changed
    restarts

providerVars == <<allowlist, persisted, tasks, staticKeys, chains, runs, timers, version, restarts>>

NoDelay == -1
Idle == [todo |-> <<>>, hop |-> 0, ii |-> None, doc |-> None]

Published(l) == Documents[l][version[l]]

\* PROVIDERS: the static ones come first.
AllProviders ==
    [i \in DOMAIN StaticConfigs |->
        [kind |-> "static", issuer |-> StaticConfigs[i].issuer,
         client |-> StaticConfigs[i].client, keys |-> staticKeys[i],
         domain |-> None, scheme |-> StaticConfigs[i].scheme]]
    \o [i \in DOMAIN tasks |->
        [kind |-> "sso", issuer |-> tasks[i].issuer, client |-> tasks[i].client,
         keys |-> tasks[i].keys, domain |-> tasks[i].domain, scheme |-> None]]

-----------------------------------------------------------------------------
(***************************************************************************)
(* Registration of domains.                                                *)
(***************************************************************************)

Allowed(d) == d \in (IF allowlist = None THEN DefaultDomains ELSE allowlist)

\* add_oidc_config_internal and DiscoverableProvider::create, for the domain in
\* lower case.
NewTask(d) ==
    [domain |-> d, client |-> None, conf |-> None, issuer |-> None, name |-> None,
     lastUri |-> None, keys |-> {}]

\* add_oidc_config
AddOidcConfig(w) ==
    /\ Allowed(w.domain)
    /\ \A i \in DOMAIN tasks : tasks[i].domain # w.domain
    /\ tasks' = Append(tasks, NewTask(w.domain))
    /\ persisted' = Append(persisted, [domain |-> w.domain, mixed |-> FALSE])
    /\ timers' = [once |-> timers.once + 1, periodic |-> TRUE]
    /\ UNCHANGED <<allowlist, staticKeys, chains, runs, version, restarts>>

\* discovered_state_for: what get_discovered_oidc_configs reports of a domain.
DiscoveredState(d) ==
    LET i == SelectInSeq(tasks, LAMBDA t : t.domain = d)
    IN  IF i = 0 THEN NewTask(d) ELSE tasks[i]

\* sso_fields_for: domain and name that a credential is labelled with.
SsoFields(iss, aud) ==
    LET i == SelectInSeq(tasks, LAMBDA t : t.issuer = iss /\ t.client = aud)
    IN  IF i = 0 THEN [domain |-> None, name |-> None]
        ELSE [domain |-> tasks[i].domain, name |-> tasks[i].name]

-----------------------------------------------------------------------------
(***************************************************************************)
(* Keys.                                                                   *)
(***************************************************************************)

\* schedule_fetch_certs; owner is the index of a static config or of a task.
Chain(kind, owner, uri, delay) ==
    [kind |-> kind, owner |-> owner, uri |-> uri, delay |-> delay, reply |-> None]

\* fetch_certs, and the two fetches of discovery: an outcall fails if it is
\* lost, has another status, or does not parse.
Fetched(reply, arrives) == arrives /\ reply # Unreadable

\* The timer fires and the outcall is made: its reply is what the location
\* serves now, delivered or lost later.
RequestCerts(c) ==
    /\ chains[c].reply = None
    /\ chains' = [chains EXCEPT ![c].reply = <<Published(chains[c].uri)>>]
    /\ UNCHANGED <<allowlist, persisted, tasks, staticKeys, runs, timers, version, restarts>>

\* compute_next_certs_fetch_delay
NextDelay(ok, delay) ==
    IF ok THEN NoDelay
    ELSE IF delay = NoDelay THEN MinDelay
    ELSE Max({MinDelay, Min({delay * 2, MaxDelay})})

\* Mutant: the next timer is set only after a success.
ReceiveCertsOrStop(c, arrives) ==
    LET ch == chains[c]
        ok == ch.reply # None /\ Fetched(ch.reply[1], arrives)
    IN  /\ ch.reply # None
        /\ chains' = IF ok THEN [chains EXCEPT ![c] = Chain(ch.kind, ch.owner, ch.uri, NoDelay)]
                     ELSE RemoveAt(chains, c)
        /\ IF ok /\ ch.kind = "sso" THEN tasks' = [tasks EXCEPT ![ch.owner].keys = ch.reply[1]]
           ELSE UNCHANGED tasks
        /\ IF ok /\ ch.kind = "static"
           THEN staticKeys' = [staticKeys EXCEPT ![ch.owner] = ch.reply[1]]
           ELSE UNCHANGED staticKeys
        /\ UNCHANGED <<allowlist, persisted, runs, timers, version, restarts>>

\* fetch_certs returns: replace the keys, and set the next timer in any case.
ReceiveCerts(c, arrives) ==
    LET ch == chains[c]
        ok == ch.reply # None /\ Fetched(ch.reply[1], arrives)
    IN  /\ ch.reply # None
        /\ chains' = [chains EXCEPT ![c] =
                        Chain(ch.kind, ch.owner, ch.uri, NextDelay(ok, ch.delay))]
        /\ IF ok /\ ch.kind = "sso" THEN tasks' = [tasks EXCEPT ![ch.owner].keys = ch.reply[1]]
           ELSE UNCHANGED tasks
        /\ IF ok /\ ch.kind = "static"
           THEN staticKeys' = [staticKeys EXCEPT ![ch.owner] = ch.reply[1]]
           ELSE UNCHANGED staticKeys
        /\ UNCHANGED <<allowlist, persisted, runs, timers, version, restarts>>

-----------------------------------------------------------------------------
(***************************************************************************)
(* Discovery: each run goes through the tasks that were there at its       *)
(* start, with two outcalls for each.                                      *)
(***************************************************************************)

\* validate_discovery_url: http is for allowed hosts only.
ValidDiscoveryUrl(l) ==
    l \notin Malformed /\ (l \in DOMAIN HttpHost => Allowed(HttpHost[l]))

\* The next domain of the run: the outcall of its first hop is made.
NextTask(todo) ==
    IF todo = <<>> THEN Idle
    ELSE [todo |-> todo, hop |-> 1, ii |-> Published(tasks[Head(todo)].domain), doc |-> None]

\* The timer set at once or the periodic one fires.
StartRun(r) ==
    /\ runs[r] = Idle
    /\ \/ timers.once > 0 /\ timers' = [timers EXCEPT !.once = @ - 1]
       \/ timers.periodic /\ UNCHANGED timers
    /\ runs' = [runs EXCEPT ![r] = NextTask([i \in 1..Len(tasks) |-> i])]
    /\ UNCHANGED <<allowlist, persisted, tasks, staticKeys, chains, version, restarts>>

\* An outcall fails, or what it returns does not pass: on to the next domain.
Skip(r) == runs' = [runs EXCEPT ![r] = NextTask(Tail(@.todo))]

\* Mutant: the client id is taken over as soon as the first hop is back.
ReceiveHop1AndAdopt(r, arrives) ==
    /\ runs[r].hop = 1
    /\ LET ii == runs[r].ii
       IN  IF Fetched(ii, arrives) /\ ValidDiscoveryUrl(ii.conf)
           THEN /\ runs' = [runs EXCEPT ![r].hop = 2, ![r].doc = Published(ii.conf)]
                /\ tasks' = [tasks EXCEPT ![Head(runs[r].todo)].client = ii.client]
           ELSE Skip(r) /\ UNCHANGED tasks
    /\ UNCHANGED <<allowlist, persisted, staticKeys, chains, timers, version, restarts>>

\* The first hop returns: fetch the document it names.
ReceiveHop1(r, arrives) ==
    /\ runs[r].hop = 1
    /\ LET ii == runs[r].ii
       IN  IF Fetched(ii, arrives) /\ ValidDiscoveryUrl(ii.conf)
           THEN runs' = [runs EXCEPT ![r].hop = 2, ![r].doc = Published(ii.conf)]
           ELSE Skip(r)
    /\ UNCHANGED <<allowlist, persisted, tasks, staticKeys, chains, timers, version, restarts>>

\* validate_issuer_host and validate_discovery_url
ValidDocument(conf, doc) ==
    doc # Unreadable /\ doc.issuer[1] = HostOf[conf] /\ ValidDiscoveryUrl(doc.uri)

\* The second hop returns: everything is replaced at once, and keys are fetched
\* from a location that has changed.  Chains of the old location go on.
ReceiveHop2(r, arrives) ==
    LET ii == runs[r].ii
        doc == runs[r].doc
        t == Head(runs[r].todo)
        changed == tasks[t].lastUri # doc.uri
    IN  /\ runs[r].hop = 2
        /\ Skip(r)
        /\ IF Fetched(doc, arrives) /\ ValidDocument(ii.conf, doc)
           THEN /\ changed => Len(chains) < MaxChains
                /\ tasks' = [tasks EXCEPT
                     ![t] = [@ EXCEPT !.client = ii.client, !.conf = ii.conf, !.name = ii.name,
                                      !.issuer = doc.issuer, !.lastUri = doc.uri]]
                /\ chains' = IF changed THEN Append(chains, Chain("sso", t, doc.uri, 0)) ELSE chains
           ELSE UNCHANGED <<tasks, chains>>
        /\ UNCHANGED <<allowlist, persisted, staticKeys, timers, version, restarts>>

-----------------------------------------------------------------------------
(***************************************************************************)
(* Upgrades, and the world outside.                                        *)
(***************************************************************************)

InitialChains ==
    [i \in DOMAIN StaticConfigs |-> Chain("static", i, StaticConfigs[i].uri, 0)]

\* pre_upgrade, post_upgrade, apply_install_arg, setup and setup_oidc.
UpgradeProviders ==
    /\ restarts < MaxRestarts
    /\ restarts' = restarts + 1
    /\ allowlist' \in Allowlists \cup {allowlist}
    /\ tasks' = [i \in DOMAIN persisted |-> NewTask(persisted[i].domain)]
    /\ staticKeys' = [i \in DOMAIN StaticConfigs |-> {}]
    /\ chains' = InitialChains
    /\ runs' = [r \in DOMAIN runs |-> Idle]
    /\ timers' = [once |-> IF persisted = <<>> THEN 0 ELSE 1, periodic |-> persisted # <<>>]
    /\ UNCHANGED <<persisted, version>>

\* A document changes.
Publish(l) ==
    /\ version[l] < Len(Documents[l])
    /\ version' = [version EXCEPT ![l] = @ + 1]
    /\ UNCHANGED <<allowlist, persisted, tasks, staticKeys, chains, runs, timers, restarts>>

\* After an installation, or with a domain that an earlier version has
\* persisted as it was written.
ProvidersInit ==
    /\ allowlist \in Allowlists
    /\ persisted \in {<<>>} \cup {<<[domain |-> d, mixed |-> TRUE]>> :
                                    d \in {e \in Domains : Allowed(e)}}
    /\ tasks = [i \in DOMAIN persisted |-> NewTask(persisted[i].domain)]
    /\ staticKeys = [i \in DOMAIN StaticConfigs |-> {}]
    /\ chains = InitialChains
    /\ runs = [r \in 1..MaxRuns |-> Idle]
    /\ timers = [once |-> IF persisted = <<>> THEN 0 ELSE 1, periodic |-> persisted # <<>>]
    /\ version = [l \in DOMAIN Documents |-> 1]
    /\ restarts = 0

ProvidersNext ==
    \/ \E d \in Domains, mixed \in BOOLEAN : AddOidcConfig([domain |-> d, mixed |-> mixed])
    \/ \E c \in DOMAIN chains : RequestCerts(c)
    \/ \E c \in DOMAIN chains, arrives \in BOOLEAN : ReceiveCerts(c, arrives)
    \/ \E r \in DOMAIN runs : StartRun(r)
    \/ \E r \in DOMAIN runs, arrives \in BOOLEAN : ReceiveHop1(r, arrives)
    \/ \E r \in DOMAIN runs, arrives \in BOOLEAN : ReceiveHop2(r, arrives)
    \/ \E l \in DOMAIN Documents : Publish(l)
    \/ UpgradeProviders

\* Timers fire, outcalls return, and one that is made again and again succeeds.
Fairness ==
    /\ \A c \in 1..MaxChains :
        /\ WF_providerVars(c \in DOMAIN chains /\ RequestCerts(c))
        /\ SF_providerVars(c \in DOMAIN chains /\ ReceiveCerts(c, TRUE))
    /\ \A r \in 1..MaxRuns :
        /\ WF_providerVars(StartRun(r))
        /\ SF_providerVars(ReceiveHop1(r, TRUE))
        /\ SF_providerVars(ReceiveHop2(r, TRUE))

ProvidersSpec == ProvidersInit /\ [][ProvidersNext]_providerVars /\ Fairness

-----------------------------------------------------------------------------
\* Types: a provider has what a discovery finds out all at once.
TypeOK ==
    /\ allowlist \in Allowlists
    /\ \A i \in DOMAIN persisted : persisted[i] \in [domain : Domains, mixed : BOOLEAN]
    /\ \A i \in DOMAIN tasks :
          /\ tasks[i].domain \in Domains
          /\ (tasks[i].client = None) = (tasks[i].issuer = None)
    /\ DOMAIN staticKeys = DOMAIN StaticConfigs
    /\ Len(chains) <= MaxChains
    /\ \A r \in DOMAIN runs : runs[r].hop \in 0..2
    /\ timers \in [once : Nat, periodic : BOOLEAN]
    /\ \A l \in DOMAIN Documents : version[l] \in 1..Len(Documents[l])
    /\ restarts \in 0..MaxRestarts

\* A domain has one provider, however it was written when it was registered
\* and however often it was replayed (add_oidc_config, setup_oidc).
OneProviderPerDomain ==
    \A i, j \in DOMAIN tasks : tasks[i].domain = tasks[j].domain => i = j

WasPublished(l) == {Documents[l][i] : i \in 1..version[l]}

\* What a discoverable provider matches tokens with, and what is reported of
\* it, comes from one run: its client id was published together with the
\* location its issuer was found at, on that issuer's host, also when runs
\* overlap or fail half-way (run_discovery_tasks).
DiscoveredTogether ==
    \A d \in Domains :
        LET found == DiscoveredState(d)
            label == SsoFields(found.issuer, found.client)
        IN  found.client # None =>
              \E ii \in WasPublished(d) :
                /\ ii # Unreadable
                /\ <<found.client, found.conf>> = <<ii.client, ii.conf>>
                /\ label.domain = d => label.name = ii.name
                /\ \E doc \in WasPublished(ii.conf) :
                    /\ ValidDocument(ii.conf, doc)
                    /\ <<found.issuer, found.lastUri>> = <<doc.issuer, doc.uri>>

\* Each domain has one provider, and what is known of it belongs together.
ProvidersAreWhole == TypeOK /\ OneProviderPerDomain /\ DiscoveredTogether

\* The keys of provider i are those that its documents lead to now, if these
\* are readable and valid.
UpToDate(i) ==
    IF i <= Len(StaticConfigs)
    THEN Published(StaticConfigs[i].uri) \in {staticKeys[i], Unreadable}
    ELSE LET task == tasks[i - Len(StaticConfigs)]
             ii == Published(task.domain)
             doc == Published(ii.conf)
         IN  (ii # Unreadable /\ ValidDiscoveryUrl(ii.conf) /\ ValidDocument(ii.conf, doc))
                => Published(doc.uri) \in {task.keys, Unreadable}

\* Every provider gets the keys that are published for it, again and again,
\* whatever has failed, changed or been upgraded before: the chain of timers
\* never breaks (schedule_fetch_certs, run_discovery_tasks).
KeysAreRenewed ==
    \A i \in 1..(Len(StaticConfigs) + Cardinality(Domains)) :
        []<>(i \in DOMAIN AllProviders => UpToDate(i))

=============================================================================
