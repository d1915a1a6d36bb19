--------------------------- MODULE OpenIdMatching ---------------------------
(***************************************************************************)
(* Matching and verification of JSON web tokens against a sequence of      *)
(* OpenID providers, and the provider a stored credential belongs to       *)
(* (openid.rs, openid/generic.rs).                                         *)
(*                                                                         *)
(* An issuer is a sequence of segments, the first one its host; a segment  *)
(* in Placeholders stands for {key} in a template.  A provider is          *)
(* [kind, issuer, client, keys, domain, scheme], with None for what        *)
(* discovery has not found yet.  A token is                                *)
(* [iss, sub, aud, caller, iat, exp, kid, signer, claims]: aud is a set,   *)
(* caller the principal that its nonce binds, claims a function from       *)
(* the names of its other claims to their values.  Times are in seconds    *)
(* and far from the end of u64.                                            *)
(***************************************************************************)
EXTENDS Naturals, Sequences, SequencesExt, Functions

CONSTANTS
    None,               \* the absent value
    Placeholders,       \* keys that occur in braces in issuer templates
    MaxValidityWindow,  \* MAX_VALIDITY_WINDOW_SECONDS
    PersonalTenant,     \* MICROSOFT_PERSONAL_ACCOUNT_TENANT_ID
    TooLong             \* emails and names beyond their maximal length

NoClaims == [k \in {} |-> None]

\* get_issuer_placeholders; an unclosed brace yields no key at all.
IssuerPlaceholders(template) ==
    IF "{" \in Range(template) THEN {} ELSE Range(template) \cap Placeholders

\* get_all_claims: all of them or nothing.
AllClaims(claims, keys) ==
    IF keys \subseteq DOMAIN claims THEN Restrict(claims, keys) ELSE NoClaims

\* replace_issuer_placeholders
ReplacePlaceholders(template, claims) ==
    [i \in DOMAIN template |->
        IF template[i] \in DOMAIN claims THEN claims[template[i]] ELSE template[i]]

IssuerClaims(p, t) == AllClaims(t.claims, IssuerPlaceholders(p.issuer))
EffectiveIssuer(p, t) == ReplacePlaceholders(p.issuer, IssuerClaims(p, t))

Pending(p) == p.issuer = None \/ p.client = None

\* The providers with_provider would call for this token: the first one counts.
Accepts(p, t) ==
    /\ ~Pending(p)
    /\ EffectiveIssuer(p, t) = t.iss
    /\ p.client \in t.aud

\* with_provider: the index of the provider, 0 if there is none.
ProviderOf(providers, t) ==
    IF t.aud = {} THEN 0 ELSE SelectInSeq(providers, LAMBDA p : Accepts(p, t))

-----------------------------------------------------------------------------

\* verify_claims, in the order of its checks.
VerifyClaims(issuer, client, t, caller, now) ==
    LET foreign == t.iss # issuer \/ client \notin t.aud \/ t.caller # caller
        expired == now > t.exp \/ now > t.iat + MaxValidityWindow
        tooLong == \E k \in {"email", "name"} \cap DOMAIN t.claims : t.claims[k] \in TooLong
        unclear == /\ "email_verified" \in DOMAIN t.claims
                   /\ t.claims["email_verified"] \notin {"true", "false"}
    IN  IF foreign THEN "invalid"
        ELSE IF expired THEN "expired"
        ELSE IF now < t.iat \/ tooLong \/ unclear THEN "invalid" ELSE "ok"

\* The signature: a key the provider has published under the token's kid.
\* Discovered providers report keys that are not there yet apart.
VerifySignature(p, t) ==
    IF p.kind = "sso" /\ p.keys = {} THEN "retry"
    ELSE IF t.kid \in p.keys /\ t.signer = t.kid THEN "ok" ELSE "invalid"

\* OpenIdProvider::verify, of Provider and of DiscoverableProvider: the latter
\* compares the issuer as it is, without placeholders.
Verify(p, t, caller, now) ==
    LET issuer == IF p.kind = "sso" THEN p.issuer ELSE EffectiveIssuer(p, t)
        claims == VerifyClaims(issuer, p.client, t, caller, now)
    IN  IF claims # "ok" THEN claims ELSE VerifySignature(p, t)

\* The credential a verified token gives: a static provider adds the claims in
\* its template, under their own names.
CredentialOf(p, t) ==
    LET own == {"email", "email_verified", "name"}
        kept == IF p.kind = "sso" THEN own ELSE own \cup DOMAIN IssuerClaims(p, t)
    IN  [iss |-> t.iss, sub |-> t.sub, aud |-> p.client,
         metadata |-> Restrict(t.claims, kept \cap DOMAIN t.claims)]

Key(c) == <<c.iss, c.sub, c.aud>>

-----------------------------------------------------------------------------

\* Mutant: the issuer alone decides.
ServesIssuer(p, c) ==
    /\ ~Pending(p)
    /\ IssuerPlaceholders(p.issuer) \subseteq DOMAIN c.metadata
    /\ ReplacePlaceholders(p.issuer, Restrict(c.metadata, IssuerPlaceholders(p.issuer))) = c.iss

\* OpenIdCredential::with_provider: what it looks for.
Serves(p, c) ==
    /\ ~Pending(p)
    /\ p.client = c.aud
    /\ LET keys == IssuerPlaceholders(p.issuer)
       IN  /\ keys \subseteq DOMAIN c.metadata
           /\ ReplacePlaceholders(p.issuer, Restrict(c.metadata, keys)) = c.iss

\* The provider of a stored credential, 0 if there is none.
CredentialProvider(providers, c) == SelectInSeq(providers, LAMBDA p : Serves(p, c))

Scope(p) == IF p.kind = "sso" THEN <<"sso", p.domain>> ELSE <<"openid", p.issuer>>

\* matched_attribute_scope
MatchedScope(providers, c) ==
    LET i == CredentialProvider(providers, c) IN IF i = 0 THEN None ELSE Scope(providers[i])

Metadata(c, k) == IF k \in DOMAIN c.metadata THEN c.metadata[k] ELSE None

\* Mutant: a work account's email counts as verified.
VerifiedEmailOfAnyTenant(providers, c) ==
    LET i == CredentialProvider(providers, c)
        verified == CASE i = 0 -> FALSE
                      [] OTHER -> \/ providers[i].scheme = "microsoft"
                                  \/ /\ providers[i].scheme = "google"
                                     /\ Metadata(c, "email_verified") = "true"
    IN  IF verified THEN Metadata(c, "email") ELSE None

\* get_verified_email with the scheme of the provider.
VerifiedEmail(providers, c) ==
    LET i == CredentialProvider(providers, c)
        scheme == IF i = 0 THEN None ELSE providers[i].scheme
        verified == \/ scheme = "google" /\ Metadata(c, "email_verified") = "true"
                    \/ scheme = "microsoft" /\ Metadata(c, "tid") = PersonalTenant
    IN  IF verified THEN Metadata(c, "email") ELSE None
=============================================================================
