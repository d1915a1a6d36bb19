---------------------------- MODULE AttributeKeys ----------------------------
(***************************************************************************)
(* Keys and requests of attribute sharing: parsing, printing and           *)
(* validation (types/attributes.rs of internet_identity_interface).        *)
(*                                                                         *)
(* A text is the sequence of its segments between colons, so that          *)
(* "openid:https://m:email" is <<"openid", "https", "//m", "email">>.      *)
(* Lengths are counted in segments.  A validated request is None if there  *)
(* is any problem: the messages are left out.                              *)
(***************************************************************************)
EXTENDS OpenIdMatching, FiniteSets

CONSTANTS
    BadIssuerParts,   \* segments with a question mark or a hash sign
    BlankParts,       \* segments with white space
    Lowercase,        \* segment |-> the same in lower case, where it differs
    MaxIssuer,        \* OPENID_ISSUER_MAX_BYTES
    MaxDomain,        \* SSO_DOMAIN_MAX_BYTES
    MaxAttributes,    \* MAX_ATTRIBUTES_PER_REQUEST
    LongOrigins,      \* origins beyond FRONTEND_HOSTNAME_MAX_BYTES
    LongValues        \* values beyond ATTRIBUTE_VALUE_MAX_BYTES

Names == {"email", "name", "verified_email"}

ToLower(text) ==
    [i \in DOMAIN text |-> IF text[i] \in DOMAIN Lowercase THEN Lowercase[text[i]] ELSE text[i]]

\* validate_openid_credential_issuer_identifier
ValidIssuer(issuer) ==
    /\ issuer # <<"">>
    /\ Len(issuer) <= MaxIssuer
    /\ \/ Len(issuer) > 1 /\ issuer[1] = "https"
       \/ Len(issuer) > 2 /\ issuer[1] = "http" /\ issuer[2] = "//localhost"
    /\ Range(issuer) \cap BadIssuerParts = {}

\* validate_sso_domain
ValidDomain(domain) ==
    domain # <<"">> /\ Len(domain) <= MaxDomain /\ Range(domain) \cap BlankParts = {}

\* AttributeScope::try_from: the prefix ends at the first colon.
ParseScope(text) ==
    CASE Head(text) = "openid" /\ Len(text) > 1 /\ ValidIssuer(Tail(text)) -> text
      [] Head(text) = "sso" /\ Len(text) > 1 /\ ValidDomain(Tail(text)) ->
            <<"sso">> \o ToLower(Tail(text))
      [] OTHER -> None

\* AttributeKey::try_from: the name begins after the last colon; <<>> is no scope.
ParseKey(text) ==
    LET scope == IF Len(text) = 1 THEN <<>> ELSE ParseScope(Front(text))
    IN  IF Last(text) \notin Names \/ scope = None THEN None
        ELSE [scope |-> scope, name |-> Last(text)]

\* Display of AttributeKey
ShowKey(key) == Append(key.scope, key.name)

IsSso(key) == key.scope # <<>> /\ Head(key.scope) = "sso"

\* What the three validators of the legacy flow ask of a key.
LegacyKey(text) == ParseKey(text) # None /\ ~IsSso(ParseKey(text))

-----------------------------------------------------------------------------

\* remap_to_legacy_domain; an origin is [base, raw, domain], with an empty
\* base if it has no form that is remapped.
RemapToLegacyDomain(origin) ==
    IF origin.domain = "icp0.io" /\ origin.base # "" THEN [origin EXCEPT !.domain = "ic0.app"]
    ELSE origin

\* ValidatedPrepareAttributeRequest: the names wanted of each scope.
ValidatePrepare(origin, texts) ==
    IF origin \in LongOrigins \/ Len(texts) > MaxAttributes
        \/ \E i \in DOMAIN texts : ~LegacyKey(texts[i])
    THEN None
    ELSE [s \in {ParseKey(texts[i]).scope : i \in DOMAIN texts} |->
            {k.name : k \in {k \in {ParseKey(texts[i]) : i \in DOMAIN texts} : k.scope = s}}]

\* ValidatedGetAttributesRequest: the pairs of key and value are accepted.
ValidGet(origin, pairs) ==
    /\ origin \notin LongOrigins
    /\ Len(pairs) <= MaxAttributes
    /\ \A i \in DOMAIN pairs : LegacyKey(pairs[i][1]) /\ pairs[i][2] \notin LongValues

\* ValidatedPrepareIcrc3AttributeRequest; a spec is [text, value, omit].
ValidateIcrc3(origin, unmapped, nonceFits, specs) ==
    IF \/ ~nonceFits
       \/ origin \in LongOrigins
       \/ unmapped # None /\ (unmapped \in LongOrigins \/ RemapToLegacyDomain(unmapped) # origin)
       \/ Len(specs) > MaxAttributes
       \/ \E i \in DOMAIN specs : ParseKey(specs[i].text) = None \/ specs[i].value \in LongValues
    THEN None
    ELSE [i \in DOMAIN specs |->
            [key |-> ParseKey(specs[i].text), value |-> specs[i].value, omit |-> specs[i].omit]]

\* ValidatedGetIcrc3AttributeRequest; no message of prepare is beyond its
\* limit, ICRC3_MESSAGE_MAX_BYTES.
ValidGetIcrc3(origin) == origin \notin LongOrigins

\* ValidatedListAvailableAttributesRequest: None asks for everything, which is
\* the absent list here too; a refused list asks for nothing.
ValidateList(texts) ==
    IF texts = None THEN None
    ELSE IF Len(texts) > MaxAttributes \/ \E i \in DOMAIN texts : ~LegacyKey(texts[i]) THEN <<>>
    ELSE [i \in DOMAIN texts |-> ParseKey(texts[i])]

\* What list_available_attributes answers with of it: a key without a scope
\* asks for every scope.
Wanted(keys, k) ==
    \/ keys = None
    \/ \E i \in DOMAIN keys : keys[i].name = k.name /\ keys[i].scope \in {<<>>, k.scope}
=============================================================================
