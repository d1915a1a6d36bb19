------------------------ MODULE MCLegacyRegistration ------------------------
(***************************************************************************)
(* Values for LegacyRegistration: a captcha that is always required, and   *)
(* dynamic ones whose current interval gets longer and shorter.            *)
(***************************************************************************)
EXTENDS LegacyRegistration, TLC

MCConfigs ==
    {[trigger |-> "enabled", maxUnsolved |-> 1, current |-> 1, reference |-> 1,
      threshold |-> 0],
     [trigger |-> "dynamic", maxUnsolved |-> 2, current |-> 1, reference |-> 3,
      threshold |-> 20],
     [trigger |-> "dynamic", maxUnsolved |-> 2, current |-> 2, reference |-> 3,
      threshold |-> 20]}

Symmetry == Permutations(ChallengeKeys) \cup Permutations(Devices)

=============================================================================
