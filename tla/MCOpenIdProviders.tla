------------------------- MODULE MCOpenIdProviders -------------------------
(***************************************************************************)
(* Values for OpenIdProviders: a static provider with a templated issuer,  *)
(* and a domain whose provider moves to other keys, and once to a document *)
(* of another host, which must not count.                                  *)
(***************************************************************************)
EXTENDS OpenIdProviders, TLC

MCStaticConfigs ==
    <<[issuer |-> <<"m", "tid">>, client |-> "c1", uri |-> "keysX", scheme |-> "microsoft"]>>

MCDocuments ==
    [d     |-> <<[client |-> "c1", conf |-> "conf", name |-> "D"]>>,
     conf  |-> <<[issuer |-> <<"m", "t1">>, uri |-> "keysM"],
                 [issuer |-> <<"x", "t1">>, uri |-> "keysM"],
                 [issuer |-> <<"m", "t1">>, uri |-> "keysX"]>>,
     keysM |-> <<{"k1"}, {"k2"}>>,
     keysX |-> <<{"k3"}>>]

MCHostOf == [conf |-> "m"]
MCHttpHost == [keysM |-> "d"]

=============================================================================
