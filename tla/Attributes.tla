----------------------------- MODULE Attributes -----------------------------
(***************************************************************************)
(* Answers that an identity has signed and certified: attributes of its    *)
(* OpenID credentials, delegations and aliases (attributes.rs,             *)
(* delegation.rs, vc_mvp.rs, prepare_jwt_delegation, and the handlers of   *)
(* account_management.rs and main.rs).                                     *)
(*                                                                         *)
(* An update call prepares an answer: it puts a signature into the map of  *)
(* signatures, which keeps it for a minute, and certifies the new root     *)
(* hash.  A query then fetches the signature.  In between, the credentials *)
(* of the identity, the providers and the map change.  Before the salt is  *)
(* set a call waits for random bytes, with the identity read before.       *)
(*                                                                         *)
(* One identity is enough: what is signed for another has another seed.    *)
(* A refused call changes nothing and is left out.  The map of signatures  *)
(* is the library ic-canister-sig-creation, modelled from its use.         *)
(***************************************************************************)
EXTENDS AttributeKeys

CONSTANTS
    StaticProviders,  \* sequence of configured providers
    SsoProviders,     \* what discovery may find out about the discoverable one
    Credentials,      \* credentials the identity may have
    Tokens,           \* tokens users may present
    Requests,         \* lists of texts asked for with prepare_attributes
    SpecLists,        \* lists of specs asked for with prepare_icrc3_attributes
    Origins,          \* pairs of an origin and its unmapped form, or None
    Ttls,             \* lifetimes asked for, None for the default
    DefaultExpiration, MaxExpiration,  \* ..._EXPIRATION_PERIOD_NS
    SessionDuration,  \* OPENID_SESSION_DURATION_NS
    AttributeDuration, \* ATTRIBUTES_CERTIFICATION_SESSION_DURATION_NS
    SignatureLifetime, \* how long the map keeps a signature
    MaxTime, MaxCredentials, MaxChanges, MaxPrepared, MaxCalls, MaxUpgrades \* bounds

ScopeText(s) == IF s = None THEN None ELSE <<s[1]>> \o s[2]

ASSUME AttributesAssumption ==
    \* The absent value is no claim and no scope.
    /\ None \notin {"true", PersonalTenant}
    /\ \A p \in Range(StaticProviders) \cup SsoProviders :
          ~Pending(p) => None \notin {Scope(p), ScopeText(Scope(p))}
    /\ MaxAttributes \in Nat /\ SignatureLifetime \in Nat /\ MaxCredentials \in Nat
    /\ Requests \subseteq Seq(Seq(STRING))
    /\ StaticProviders \in Seq(Range(StaticProviders))
    /\ \A p \in Range(StaticProviders) \cup SsoProviders :
          p.issuer \in Seq(STRING) \cup {None}
    \* What a credential has been made of: see CredentialOf.  Emails and names
    \* (MAX_EMAIL_LENGTH, MAX_NAME_LENGTH) are shorter than values may be.
    /\ \A c \in Credentials :
          /\ c.iss \in Seq(STRING)
          /\ \A k \in {"email", "name"} \cap DOMAIN c.metadata : c.metadata[k] \notin LongValues
          /\ \A k \in (DOMAIN c.metadata) \ {"email", "email_verified", "name"} :
                c.metadata[k] \in Range(c.iss)
    \* No token is from a template: a discoverable provider that published one
    \* as its issuer, and signed it, would have credentials without a scope.
    /\ \A t \in Tokens : t.iss \in Seq(STRING) /\ Range(t.iss) \cap Placeholders = {}

VARIABLES
    sso,         \* the discoverable provider
    credentials, \* anchor.openid_credentials
    saltSet,
    calls,       \* calls that wait for the salt: [credentials, request]
    sigs,        \* the map of signatures: [domain, seed, message, expires]
    certified,   \* the map at the last update_root_hash
    now,
    \* What happened so far.
    held,        \* credentials the identity has had
    answers,     \* answers prepared since the last upgrade
    changes, prepared, upgrades

vars == <<sso, credentials, saltSet, calls, sigs, certified, now, held, answers,
          changes, prepared, upgrades>>

Providers == Append(StaticProviders, sso)

\* The scope a credential is addressable under, as a text.
CredentialScope(c) == ScopeText(MatchedScope(Providers, c))

\* get_name, get_email and get_verified_email
ValueOf(c, name) ==
    IF name = "verified_email" THEN VerifiedEmail(Providers, c) ELSE Metadata(c, name)

\* The first credential that is addressable under a scope, or None.
FirstUnder(creds, scope) ==
    LET i == SelectInSeq(creds, LAMBDA c : CredentialScope(c) = scope)
    IN  IF i = 0 THEN None ELSE creds[i]

-----------------------------------------------------------------------------
(***************************************************************************)
(* Signatures.                                                             *)
(***************************************************************************)

Signature(domain, seed, message) ==
    [domain |-> domain, seed |-> seed, message |-> message, expires |-> now + SignatureLifetime]

Same(s, t) == <<s.domain, s.seed, s.message>> = <<t.domain, t.seed, t.message>>

\* Mutant: signatures that are about to expire are pruned as well.
AddSignaturesPruneEarly(new) ==
    sigs' = {s \in sigs : s.expires > now + 1 /\ \A t \in new : ~Same(s, t)} \cup new

\* add_signature: prune what has expired, then put the new ones.
AddSignatures(new) ==
    sigs' = {s \in sigs : s.expires > now /\ \A t \in new : ~Same(s, t)} \cup new

\* update_root_hash
UpdateRootHash == certified' = sigs'

\* get_signature_as_cbor finds a signature, and the certificate covers it.
Signed(domain, seed, message) ==
    \E s \in sigs \cap certified :
        <<s.domain, s.seed, s.message>> = <<domain, seed, message>>

AccountSeed(origin) == <<"account", origin>>
JwtSeed(c) == <<"openid", Key(c)>>

-----------------------------------------------------------------------------
(***************************************************************************)
(* The legacy flow of attribute sharing.                                   *)
(***************************************************************************)

\* prepare_openid_attributes: each scope is served by the first credential
\* that matches it.
PrepareOpenIdAttributes(creds, wanted) ==
    {<<k, ValueOf(FirstUnder(creds, k.scope), k.name)>> :
        k \in {k \in [scope : DOMAIN wanted, name : Names] :
            /\ k.name \in wanted[k.scope]
            /\ k.scope # <<>> /\ Head(k.scope) = "openid"
            /\ FirstUnder(creds, k.scope) # None
            /\ ValueOf(FirstUnder(creds, k.scope), k.name) # None}}

\* attribute_signature_msg
AttributeMessage(expiration, key, value) == <<expiration, ShowKey(key), value>>

\* expiration_timestamp_ns
AttributesExpire(issued) == issued + AttributeDuration

\* Anchor::prepare_attributes, with the credentials read before the await.
PrepareAttributes(creds, r) ==
    LET attributes == PrepareOpenIdAttributes(creds, ValidatePrepare(r.origin, r.texts))
        seed == AccountSeed(r.origin)
    IN  /\ AddSignatures({Signature("ii-request-attribute", seed,
                              AttributeMessage(AttributesExpire(now), a[1], a[2])) : a \in attributes})
        /\ UpdateRootHash
        /\ answers' = answers \cup
             {[kind |-> "attributes", origin |-> r.origin, at |-> now,
               pairs |-> SetToSeq({<<ShowKey(a[1]), a[2]>> : a \in attributes})]}

\* Anchor::get_attributes: of the pairs in a valid request, those it returns
\* with a signature.
GetAttributes(origin, issued, pairs) ==
    {p \in {<<ParseKey(pairs[i][1]), pairs[i][2]>> : i \in DOMAIN pairs} :
        /\ \E i \in DOMAIN credentials : CredentialScope(credentials[i]) = p[1].scope
        /\ Signed("ii-request-attribute", AccountSeed(origin),
                  AttributeMessage(AttributesExpire(issued), p[1], p[2]))}

-----------------------------------------------------------------------------
(***************************************************************************)
(* The ICRC-3 flow.                                                        *)
(***************************************************************************)

\* The value a spec stands for with these credentials, None if it is refused.
SpecValue(creds, spec) ==
    LET c == IF spec.key.scope = <<>> THEN None ELSE FirstUnder(creds, spec.key.scope)
        stored == IF c = None \/ (IsSso(spec.key) /\ spec.key.name = "verified_email") THEN None
                  ELSE ValueOf(c, spec.key.name)
    IN  IF spec.value \in {None, stored} THEN stored ELSE None

CertifiedKey(spec) == IF spec.omit THEN <<spec.key.name>> ELSE ShowKey(spec.key)

\* Every spec has a value, and no two give the same key.
Icrc3Match(creds, specs) ==
    /\ \A i \in DOMAIN specs : SpecValue(creds, specs[i]) # None
    /\ \A i, j \in DOMAIN specs : CertifiedKey(specs[i]) = CertifiedKey(specs[j]) => i = j

\* icrc3_attribute_message; the random nonce is left out.
Icrc3Message(creds, specs, r) ==
    [pairs |-> {<<CertifiedKey(specs[i]), SpecValue(creds, specs[i])>> : i \in DOMAIN specs},
     origin |-> IF r.unmapped = None THEN r.origin ELSE r.unmapped,
     issued |-> now]

\* Mutant: the new root hash is not certified.
PrepareIcrc3WithoutRoot(creds, r) ==
    LET specs == ValidateIcrc3(r.origin, r.unmapped, TRUE, r.specs)
        message == Icrc3Message(creds, specs, r)
    IN  /\ Icrc3Match(creds, specs)
        /\ AddSignatures({Signature("ic-sender-info", AccountSeed(r.origin), message)})
        /\ UNCHANGED certified
        /\ answers' = answers \cup {[kind |-> "icrc3", origin |-> r.origin, message |-> message,
                                     at |-> now]}

\* Anchor::prepare_icrc3_attributes
PrepareIcrc3(creds, r) ==
    LET specs == ValidateIcrc3(r.origin, r.unmapped, TRUE, r.specs)
        message == Icrc3Message(creds, specs, r)
    IN  /\ Icrc3Match(creds, specs)
        /\ AddSignatures({Signature("ic-sender-info", AccountSeed(r.origin), message)})
        /\ UpdateRootHash
        /\ answers' = answers \cup {[kind |-> "icrc3", origin |-> r.origin, message |-> message,
                                     at |-> now]}

\* Anchor::get_icrc3_attributes
GetIcrc3(origin, message) ==
    ValidGetIcrc3(origin) /\ Signed("ic-sender-info", AccountSeed(origin), message)

\* The attributes of a credential that are listed, by their full key.
ListedOf(c) ==
    LET scope == CredentialScope(c)
    IN  {[scope |-> scope, name |-> n] :
            n \in {n \in Names :
                /\ scope # None
                /\ ~(Head(scope) = "sso" /\ n = "verified_email")
                /\ ValueOf(c, n) # None}}

\* <<i, k>> for every attribute k that credential i lists, of those wanted.
ListedPairs(creds, wanted) ==
    UNION {{<<i, k>> : k \in {k \in ListedOf(creds[i]) : Wanted(wanted, k)}} : i \in DOMAIN creds}

\* Mutant: a later credential overrides an earlier one.
ListLastAttributes(creds, texts) ==
    LET pairs == ListedPairs(creds, ValidateList(texts))
        last(k) == Max({i \in DOMAIN creds : <<i, k>> \in pairs})
    IN  [k \in {p[2] : p \in pairs} |-> ValueOf(creds[last(k)], k.name)]

\* Anchor::list_available_attributes: the first credential that has an
\* attribute gives its value.
ListAttributes(creds, texts) ==
    LET pairs == ListedPairs(creds, ValidateList(texts))
        first(k) == Min({i \in DOMAIN creds : <<i, k>> \in pairs})
    IN  [k \in {p[2] : p \in pairs} |-> ValueOf(creds[first(k)], k.name)]

-----------------------------------------------------------------------------
(***************************************************************************)
(* Delegations and aliases.                                                *)
(***************************************************************************)

Expiration(ttl) ==
    LET duration == IF ttl = None THEN DefaultExpiration ELSE ttl
    IN  now + (IF duration < MaxExpiration THEN duration ELSE MaxExpiration)

\* One more answer for which a delegation to the session key of the caller is
\* signed.
SignDelegation(seed, expiration) ==
    /\ AddSignatures({Signature("ic-request-auth-delegation", seed, <<expiration>>)})
    /\ UpdateRootHash
    /\ answers' = answers \cup {[kind |-> "delegation", seed |-> seed,
                                 expiration |-> expiration, at |-> now]}

\* get_account_delegation, and get_jwt_delegation for a credential that is
\* still the identity's.
GetDelegation(seed, expiration) == Signed("ic-request-auth-delegation", seed, <<expiration>>)

\* prepare_id_alias: two signatures under a random seed, here the number of
\* answers.
PrepareIdAlias ==
    LET seed == <<"alias", prepared>>
    IN  /\ AddSignatures({Signature("iccs_verifiable_credential", seed, <<dapp>>) :
                             dapp \in {"relying party", "issuer"}})
        /\ UpdateRootHash
        /\ answers' = answers \cup {[kind |-> "alias", seed |-> seed, at |-> now]}

\* get_id_alias
GetIdAlias(seed) ==
    \A dapp \in {"relying party", "issuer"} : Signed("iccs_verifiable_credential", seed, <<dapp>>)
-----------------------------------------------------------------------------
(***************************************************************************)
(* Behaviour.                                                              *)
(***************************************************************************)

\* The part of a prepare call after the await, with the identity it has read
\* before it; specs that do not match are refused then.
Perform(creds, r) ==
    /\ prepared' = prepared + 1
    /\ IF r.kind = "attributes" THEN PrepareAttributes(creds, r)
       ELSE IF Icrc3Match(creds, ValidateIcrc3(r.origin, r.unmapped, TRUE, r.specs))
       THEN PrepareIcrc3(creds, r) ELSE UNCHANGED <<sigs, certified, answers>>

Valid(r) ==
    IF r.kind = "attributes" THEN ValidatePrepare(r.origin, r.texts) # None
    ELSE ValidateIcrc3(r.origin, r.unmapped, TRUE, r.specs) # None

\* prepare_attributes and prepare_icrc3_attributes: only the first call ever,
\* which finds no salt, waits.
Prepare(r) ==
    /\ prepared < MaxPrepared /\ Valid(r)
    /\ IF saltSet THEN Perform(credentials, r) /\ UNCHANGED calls
       ELSE /\ Cardinality(calls) < MaxCalls
            /\ calls' = calls \cup {[credentials |-> credentials, request |-> r]}
            /\ UNCHANGED <<sigs, certified, answers, prepared>>
    /\ UNCHANGED <<sso, credentials, saltSet, now, changes, upgrades>>

\* The random bytes arrive.
Resume(c) ==
    /\ c \in calls
    /\ calls' = calls \ {c}
    /\ saltSet' = TRUE
    /\ IF prepared < MaxPrepared THEN Perform(c.credentials, c.request)
       ELSE UNCHANGED <<sigs, certified, answers, prepared>>
    /\ UNCHANGED <<sso, credentials, now, changes, upgrades>>

\* prepare_account_delegation, prepare_jwt_delegation and prepare_id_alias read
\* what they need after the await.
PrepareDelegation ==
    /\ prepared < MaxPrepared
    /\ prepared' = prepared + 1
    /\ saltSet' = TRUE
    /\ \/ \E o \in Origins, ttl \in Ttls :
            /\ o[1] \notin LongOrigins
            /\ SignDelegation(AccountSeed(o[1]), Expiration(ttl))
       \/ \E i \in DOMAIN credentials :
            SignDelegation(JwtSeed(credentials[i]), now + SessionDuration)
       \/ PrepareIdAlias
    /\ UNCHANGED <<sso, credentials, calls, now, changes, upgrades>>

\* openid_credential_add, openid_credential_remove, and the update of a
\* credential when its user signs in.
ChangeCredentials ==
    /\ changes < MaxChanges
    /\ changes' = changes + 1
    /\ \/ \E c \in Credentials :
            /\ Len(credentials) < MaxCredentials
            /\ \A i \in DOMAIN credentials : Key(credentials[i]) # Key(c)
            /\ credentials' = Append(credentials, c)
       \/ \E i \in DOMAIN credentials : credentials' = RemoveAt(credentials, i)
       \/ \E i \in DOMAIN credentials, c \in Credentials :
            /\ c # credentials[i] /\ Key(credentials[i]) = Key(c)
            /\ credentials' = [credentials EXCEPT ![i] = c]
    /\ UNCHANGED <<sso, saltSet, calls, sigs, certified, now, answers, prepared, upgrades>>

\* Discovery learns about the provider: see OpenIdProviders.
Discover ==
    /\ sso' \in SsoProviders \ {sso} /\ ~Pending(sso')
    /\ UNCHANGED <<credentials, saltSet, calls, sigs, certified, now, answers, changes,
                   prepared, upgrades>>

\* The map of signatures, what waits and what was discovered are lost;
\* initialize certifies the empty map.
Upgrade ==
    /\ upgrades < MaxUpgrades
    /\ upgrades' = upgrades + 1
    /\ sso' \in {p \in SsoProviders : Pending(p)}
    /\ calls' = {} /\ sigs' = {} /\ certified' = {} /\ answers' = {}
    /\ UNCHANGED <<credentials, saltSet, now, changes, prepared>>

Tick ==
    /\ now < MaxTime
    /\ now' = now + 1
    /\ UNCHANGED <<sso, credentials, saltSet, calls, sigs, certified, answers, changes,
                   prepared, upgrades>>

\* A provider speaks for a credential: its client, and its issuer with the
\* claims of the credential.
SpeaksFor(p, c) ==
    /\ ~Pending(p) /\ p.client = c.aud /\ Len(p.issuer) = Len(c.iss)
    /\ \A i \in DOMAIN c.iss :
        \/ p.issuer[i] = c.iss[i]
        \/ p.issuer[i] \in Placeholders /\ Metadata(c, p.issuer[i]) = c.iss[i]

\* The attributes that a credential has from a provider, said independently of
\* the code: <<scope, name, value>>.
FactsFrom(p, c) ==
    LET m == c.metadata
        proven == \/ p.scheme = "google" /\ "email_verified" \in DOMAIN m
                     /\ m["email_verified"] = "true"
                  \/ p.scheme = "microsoft" /\ PersonalTenant \in Range(c.iss)
    IN  {<<ScopeText(Scope(p)), k, m[k]>> : k \in {"email", "name"} \cap DOMAIN m}
        \cup {<<ScopeText(Scope(p)), "verified_email", m[k]>> :
                k \in IF proven THEN {"email"} \cap DOMAIN m ELSE {}}

\* With whatever provider speaks for them.
Facts(creds) ==
    UNION {UNION {FactsFrom(p, c) : c \in {c \in creds : SpeaksFor(p, c)}} :
            p \in Range(StaticProviders) \cup SsoProviders}

Init ==
    /\ sso \in {p \in SsoProviders : Pending(p)}
    /\ credentials \in UNION {[1..n -> Credentials] : n \in 0..MaxCredentials}
    /\ \A i, j \in DOMAIN credentials :
            Key(credentials[i]) = Key(credentials[j]) => i = j
    /\ saltSet = FALSE
    /\ calls = {} /\ sigs = {} /\ certified = {}
    /\ now = 0
    /\ held = Range(credentials) /\ answers = {}
    /\ changes = 0 /\ prepared = 0 /\ upgrades = 0

Step ==
    \/ \E o \in Origins, texts \in Requests :
        Prepare([kind |-> "attributes", origin |-> o[1], texts |-> texts])
    \/ \E o \in Origins, specs \in SpecLists :
        Prepare([kind |-> "icrc3", origin |-> o[1], unmapped |-> o[2], specs |-> specs])
    \/ \E c \in calls : Resume(c)
    \/ PrepareDelegation
    \/ ChangeCredentials
    \/ Discover
    \/ Upgrade
    \/ Tick

Next == Step /\ held' = held \cup Range(credentials')

Spec == Init /\ [][Next]_vars

-----------------------------------------------------------------------------
\* Whatever a call has added to the map of signatures is certified when the
\* call ends, so that a query can prove it (update_root_hash, which
\* prepare_attributes_no_root_hash_update leaves to its caller).
RootIsCertified == certified = sigs

\* What a prepare call has answered can be fetched as it was answered, and
\* proved, for as long as the map keeps signatures: keys survive printing and
\* parsing, both sides compute the same message, nothing is pruned early, and
\* nothing is left without its certificate.  A legacy attribute needs a
\* credential that is addressable under its scope still.
PreparedIsReturned ==
    /\ RootIsCertified
    /\ \A a \in answers :
        now < a.at + SignatureLifetime =>
            CASE a.kind = "attributes" ->
                    /\ ValidGet(a.origin, a.pairs)
                    /\ \A i \in DOMAIN a.pairs :
                        LET p == <<ParseKey(a.pairs[i][1]), a.pairs[i][2]>>
                        IN  FirstUnder(credentials, p[1].scope) # None =>
                                p \in GetAttributes(a.origin, a.at, a.pairs)
              [] a.kind = "icrc3" -> GetIcrc3(a.origin, a.message)
              [] a.kind = "delegation" -> GetDelegation(a.seed, a.expiration)
              [] a.kind = "alias" -> GetIdAlias(a.seed)

\* Every attribute that is signed is one the identity has had, under the key it
\* is signed with: with a verified email the provider has vouched for it, and
\* an origin in the message is that of the account, or its form before the
\* remapping (attributes.rs, get_verified_email, remap_to_legacy_domain).
CertifiedIsTrue ==
    \A s \in sigs :
        /\ s.domain = "ii-request-attribute" =>
            \E f \in Facts(held) : s.message[2] = Append(f[1], f[2]) /\ s.message[3] = f[3]
        /\ s.domain = "ic-sender-info" =>
            /\ \A pair \in s.message.pairs :
                \E f \in Facts(held) : pair[1] \in {<<f[2]>>, Append(f[1], f[2])} /\ pair[2] = f[3]
            /\ s.seed[2] \in {s.message.origin, RemapToLegacyDomain(s.message.origin)}

\* Whatever prepare_icrc3_attributes would certify now is in the list of
\* attributes, if asked for, with the same value (list_available_attributes).
CertifiableIsListed ==
    LET scopes == {ScopeText(Scope(Providers[i])) :
                    i \in {i \in DOMAIN Providers : ~Pending(Providers[i])}}
    IN  \A texts \in {None} \cup Requests, k \in [scope : scopes, name : Names] :
            LET listed == ListAttributes(credentials, texts)
                value == SpecValue(credentials, [key |-> k, value |-> None])
            IN  value # None /\ Wanted(ValidateList(texts), k) =>
                    k \in DOMAIN listed /\ listed[k] = value

\* A credential that a token has verified to belongs to the provider that has
\* verified it: its attributes are found under that provider's scope and no
\* other (openid::with_provider, OpenIdCredential::with_provider).
ScopeAgrees ==
    \A t \in Tokens :
        LET i == ProviderOf(Providers, t)
        IN  i > 0 =>
              LET p == Providers[i]
              IN  Verify(p, t, t.caller, t.iat) = "ok" =>
                    MatchedScope(Providers, CredentialOf(p, t)) = Scope(p)
=============================================================================
