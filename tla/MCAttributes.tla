---------------------------- MODULE MCAttributes ----------------------------
(***************************************************************************)
(* Values for Attributes: a provider with a fixed issuer, one with a       *)
(* templated issuer, and a discoverable one with the issuer of the first   *)
(* and another client; credentials of one user at each, two at the         *)
(* templated one.                                                          *)
(***************************************************************************)
EXTENDS Attributes, TLC

Fixed == <<"https", "//g">>
Templated == <<"https", "//m", "tid">>
Issuer(tenant) == <<"https", "//m", tenant>>

MCStaticProviders ==
    <<[kind |-> "static", issuer |-> Fixed, client |-> "c1", keys |-> {"k"},
       domain |-> None, scheme |-> "google"],
      [kind |-> "static", issuer |-> Templated, client |-> "c1", keys |-> {"k"},
       domain |-> None, scheme |-> "microsoft"]>>

Sso(issuer, client) ==
    [kind |-> "sso", issuer |-> issuer, client |-> client, keys |-> {"k"},
     domain |-> <<"localhost", "1">>, scheme |-> None]

MCSsoProviders == {Sso(None, None), Sso(Fixed, "c2")}

Credential(iss, aud, metadata) == [iss |-> iss, sub |-> "s", aud |-> aud, metadata |-> metadata]

MCCredentials ==
    {Credential(Fixed, "c1", [email |-> "e1", email_verified |-> "true"]),
     Credential(Fixed, "c1", [email |-> "e2", email_verified |-> "false"]),
     Credential(Issuer("work"), "c1", [email |-> "e1", tid |-> "work"]),
     Credential(Issuer("personal"), "c1", [email |-> "e2", tid |-> "personal"]),
     Credential(Fixed, "c2", [name |-> "n"])}

MCTokens ==
    {[iss |-> iss, sub |-> "s", aud |-> aud, caller |-> "p", iat |-> 0, exp |-> 1,
      kid |-> "k", signer |-> "k", claims |-> [email |-> "e1", tid |-> "work"]] :
        iss \in {Fixed, Issuer("work")}, aud \in {{"c1"}, {"c2"}, {"c1", "c2"}}}

MCRequests ==
    {<<Append(<<"openid">> \o Fixed, "email"), Append(<<"openid">> \o Fixed, "verified_email"),
       Append(<<"openid">> \o Templated, "verified_email")>>}

MCSpecLists ==
    {<<[text |-> Append(<<"openid">> \o Fixed, "verified_email"), value |-> "e1", omit |-> TRUE],
       [text |-> <<"sso", "LOCALHOST", "1", "name">>, value |-> None, omit |-> FALSE]>>}

App(domain) == [base |-> "app", raw |-> FALSE, domain |-> domain]
MCOrigins == {<<App("ic0.app"), App("icp0.io")>>}

MCLowercase == [LOCALHOST |-> "localhost"]
=============================================================================
