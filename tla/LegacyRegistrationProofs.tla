---------------------- MODULE LegacyRegistrationProofs ----------------------
(***************************************************************************)
(* For any captcha configurations, intervals, lifetimes and limits: a      *)
(* challenge buys one attempt, no registration is missing from the rates   *)
(* that decide whether a captcha is required, and temporary keys go with   *)
(* their devices and in time.                                              *)
(*                                                                         *)
(* The rates are not inductive as they are stated, for the interval that   *)
(* ends now: time goes on while a registration prunes and appends. IInv    *)
(* states them for every interval that begins no earlier (Complete).       *)
(***************************************************************************)
EXTENDS LegacyRegistration, IntegerLemmas, FiniteSetTheorems, SequenceTheorems, TLAPS

Typed ==
    /\ config \in Configs
    /\ now \in Nat
    /\ reference \in Seq(Int) /\ current \in Seq(Int) /\ registrations \in Seq(Int)
    /\ issued \in Nat /\ attempts \in Nat
    /\ IsFiniteSet(DOMAIN challenges)

\* The heap has every registration since any time in the interval.
Complete(data, interval) ==
    \A t \in Int : t >= now - interval =>
        CountSince(data, t) >= CountSince(registrations, t)

RatesInv ==
    Dynamic => Complete(reference, config.reference) /\ Complete(current, config.current)

IInv == Typed /\ AttemptsArePaid /\ RatesInv

-----------------------------------------------------------------------------
(***************************************************************************)
(* Counting time stamps.                                                   *)
(***************************************************************************)

Since(data, t) == {j \in 1..Len(data) : data[j] > t}

LEMMA SinceIsFinite ==
    ASSUME NEW data \in Seq(Int), NEW t \in Int
    PROVE  /\ IsFiniteSet(Since(data, t))
           /\ CountSince(data, t) = Cardinality(Since(data, t))
           /\ CountSince(data, t) \in Nat
<1>1. IsFiniteSet(1..Len(data))
  BY FS_Interval
<1>2. Since(data, t) \in SUBSET (1..Len(data))
  BY DEF Since
<1>3. IsFiniteSet(Since(data, t))
  BY <1>1, <1>2, FS_Subset
<1> QED
  BY <1>3, FS_CardinalityType DEF CountSince, Since

LEMMA CountAppend ==
    ASSUME NEW data \in Seq(Int), NEW x \in Int, NEW t \in Int
    PROVE  CountSince(Append(data, x), t) =
               CountSince(data, t) + (IF x > t THEN 1 ELSE 0)
<1> DEFINE more == Append(data, x)
           last == Len(data) + 1
<1>1. more \in Seq(Int) /\ Len(more) = last /\ more[last] = x
      /\ \A j \in 1..Len(data) : more[j] = data[j]
  BY AppendProperties
<1>2. Len(data) \in Nat
  OBVIOUS
<1> HIDE DEF more
<1>3. /\ IsFiniteSet(Since(data, t)) /\ CountSince(data, t) = Cardinality(Since(data, t))
      /\ CountSince(data, t) \in Nat
      /\ CountSince(more, t) = Cardinality(Since(more, t))
  BY <1>1, SinceIsFinite
<1>4. CASE x > t
  <2>1. Since(more, t) = Since(data, t) \cup {last}
    BY <1>1, <1>2, <1>4 DEF Since
  <2>2. last \notin Since(data, t)
    BY <1>2 DEF Since
  <2>3. Cardinality(Since(data, t) \cup {last}) = Cardinality(Since(data, t)) + 1
    BY <1>3, <2>2, FS_AddElement
  <2> QED
    BY <1>3, <1>4, <2>1, <2>3 DEF more
<1>5. CASE ~(x > t)
  <2>1. Since(more, t) = Since(data, t)
    BY <1>1, <1>2, <1>5 DEF Since
  <2> QED
    BY <1>3, <1>5, <2>1 DEF more
<1> QED
  BY <1>4, <1>5

\* Pruning takes nothing that is counted.
LEMMA CountRest ==
    ASSUME NEW data \in Seq(Int), NEW t \in Int, NEW n \in 0..Len(data),
           \A j \in 1..n : data[j] <= t
    PROVE  /\ Rest(data, n) \in Seq(Int)
           /\ CountSince(Rest(data, n), t) = CountSince(data, t)
<1> DEFINE rest == Rest(data, n)
           S == Since(rest, t)
           T == Since(data, t)
           f == [j \in S |-> j + n]
<1>2. Len(data) \in Nat /\ n \in Nat /\ n <= Len(data)
  OBVIOUS
<1>3. \A i \in 1..Len(data) : data[i] \in Int
  BY ElementOfSeq
<1>1. /\ rest \in Seq(Int) /\ Len(rest) = Len(data) - n
      /\ \A j \in 1..(Len(data) - n) : rest[j] = data[n + j]
  <2>1. \A i \in (n + 1)..Len(data) : data[i] \in Int
    BY <1>2, <1>3
  <2>2. /\ rest \in Seq(Int)
        /\ Len(rest) = IF n + 1 <= Len(data) THEN Len(data) - (n + 1) + 1 ELSE 0
        /\ \A i \in 1..(Len(data) - (n + 1) + 1) : rest[i] = data[n + 1 + i - 1]
    BY <1>2, <2>1, SubSeqProperties DEF Rest
  <2> HIDE DEF rest
  <2>3. ASSUME NEW i \in 1..(Len(data) - n)
        PROVE  rest[i] = data[n + i]
    <3>1. i \in 1..(Len(data) - (n + 1) + 1) /\ n + 1 + i - 1 = n + i
      BY <1>2
    <3> QED
      BY <2>2, <3>1
  <2>4. Len(rest) = Len(data) - n
    BY <1>2, <2>2
  <2> QED
    BY <2>2, <2>3, <2>4
<1> HIDE DEF rest
<1>4. ASSUME NEW k \in T
      PROVE  k - n \in S
  <2>1. k \in 1..Len(data) /\ data[k] > t
    BY DEF Since
  <2>2. ~(k <= n)
    BY <2>1, <1>2, <1>3
  <2>3. k - n \in 1..(Len(data) - n) /\ n + (k - n) = k
    BY <2>1, <2>2, <1>2
  <2>4. rest[k - n] = data[k]
    BY <1>1, <2>3
  <2> QED
    BY <1>1, <2>1, <2>3, <2>4 DEF Since
<1>5. ASSUME NEW j \in S
      PROVE  j \in Nat /\ j + n \in T
  <2>1. j \in 1..(Len(data) - n) /\ rest[j] > t
    BY <1>1 DEF Since
  <2>2. rest[j] = data[n + j] /\ n + j = j + n
    BY <1>1, <1>2, <2>1
  <2>3. j + n \in 1..Len(data)
    BY <1>2, <2>1
  <2> QED
    BY <2>1, <2>2, <2>3 DEF Since
<1>6. \A k \in T : k \in Nat
  BY DEF Since
<1> HIDE DEF S, T
<1>7. f \in Bijection(S, T)
  <2>1. f \in [S -> T]
    BY <1>5
  <2>2. f \in Injection(S, T)
    BY <2>1, <1>2, <1>5 DEF Injection, IsInjective
  <2>3. \A k \in T : \E j \in S : f[j] = k
    <3> SUFFICES ASSUME NEW k \in T PROVE \E j \in S : f[j] = k
      OBVIOUS
    <3>1. k - n \in S /\ (k - n) + n = k
      BY <1>2, <1>4, <1>6
    <3> QED
      BY <3>1
  <2> QED
    BY <2>1, <2>2, <2>3 DEF Bijection, Surjection
<1>8. IsFiniteSet(S) /\ CountSince(rest, t) = Cardinality(S) /\ CountSince(data, t) = Cardinality(T)
  BY <1>1, SinceIsFinite DEF S, T
<1>9. Cardinality(T) = Cardinality(S)
  BY <1>7, <1>8, FS_Bijection DEF ExistsBijection
<1> QED
  BY <1>1, <1>8, <1>9 DEF rest

LEMMA PruneDataBound ==
    ASSUME NEW data \in Seq(Int), NEW interval \in Nat, now \in Nat
    PROVE  /\ PruneData(data, interval) \in 0..Len(data)
           /\ \A j \in 1..PruneData(data, interval) : data[j] <= now - interval
<1> DEFINE m == Min({RatesMaxToPrune, Len(data)})
           S == {n \in 0..m : \A j \in 1..n : data[j] <= now - interval}
<1>1. m \in {RatesMaxToPrune, Len(data)} /\ m <= Len(data) /\ m \in Nat
  <2>1. {RatesMaxToPrune, Len(data)} \in SUBSET Nat
    BY LegacyRegistrationAssumption
  <2> QED
    BY <2>1, MinNat
<1> HIDE DEF m
<1>2. 0 \in S /\ S \in SUBSET (0..m)
  BY <1>1
<1>3. PruneData(data, interval) = Max(S)
  BY DEF PruneData, m
<1>4. ASSUME NEW n \in S
      PROVE  n \in 0..Len(data) /\ \A j \in 1..n : data[j] <= now - interval
  BY <1>1
<1> HIDE DEF S
<1>5. Max(S) \in S
  <2>1. m \in Int /\ S # {}
    BY <1>1, <1>2
  <2> QED
    BY <1>2, <2>1, MaxNat
<1> QED
  BY <1>3, <1>4, <1>5

\* A registration prunes and is counted.
LEMMA RegistrationKeepsComplete ==
    ASSUME NEW data \in Seq(Int), NEW interval \in Nat,
           now \in Nat, registrations \in Seq(Int), Complete(data, interval)
    PROVE  LET after == Append(Rest(data, PruneData(data, interval)), now)
           IN  /\ after \in Seq(Int)
               /\ \A t \in Int : t >= now - interval =>
                     CountSince(after, t) >= CountSince(Append(registrations, now), t)
<1> DEFINE n == PruneData(data, interval)
           rest == Rest(data, n)
<1>1. n \in 0..Len(data) /\ \A j \in 1..n : data[j] <= now - interval
  BY PruneDataBound
<1> HIDE DEF n
<1>2. ASSUME NEW t \in Int, t >= now - interval
      PROVE  rest \in Seq(Int) /\ CountSince(rest, t) = CountSince(data, t)
  <2>1. \A j \in 1..n : data[j] <= t
    <3> SUFFICES ASSUME NEW j \in 1..n PROVE data[j] <= t
      OBVIOUS
    <3>1. data[j] \in Int
      BY <1>1, ElementOfSeq
    <3> QED
      BY <1>1, <1>2, <3>1
  <2> QED
    BY <1>1, <2>1, CountRest
<1>3. rest \in Seq(Int)
  <2>1. now - interval \in Int /\ now - interval >= now - interval
    OBVIOUS
  <2> HIDE DEF rest
  <2> QED
    BY <1>2, <2>1
<1> HIDE DEF rest
<1>4. ASSUME NEW t \in Int, t >= now - interval
      PROVE  CountSince(Append(rest, now), t) >= CountSince(Append(registrations, now), t)
  <2>1. CountSince(rest, t) >= CountSince(registrations, t)
    BY <1>2, <1>4 DEF Complete
  <2>2. CountSince(rest, t) \in Nat /\ CountSince(registrations, t) \in Nat
    BY <1>3, SinceIsFinite
  <2>3. /\ CountSince(Append(rest, now), t) = CountSince(rest, t) + (IF now > t THEN 1 ELSE 0)
        /\ CountSince(Append(registrations, now), t)
             = CountSince(registrations, t) + (IF now > t THEN 1 ELSE 0)
    BY <1>3, CountAppend
  <2> QED
    BY <2>1, <2>2, <2>3
<1>5. Append(rest, now) \in Seq(Int)
  BY <1>3
<1> QED
  BY <1>4, <1>5 DEF rest, n

-----------------------------------------------------------------------------
(***************************************************************************)
(* Challenges.                                                             *)
(***************************************************************************)

Paid == IsFiniteSet(DOMAIN challenges) /\ AttemptsArePaid

LEMMA UnexpiredIsPaid ==
    ASSUME IInv
    PROVE  /\ IsFiniteSet(DOMAIN Unexpired)
           /\ Cardinality(DOMAIN Unexpired) \in Nat
           /\ attempts + Cardinality(DOMAIN Unexpired) <= issued
           /\ Cardinality(DOMAIN Unexpired) <= config.maxUnsolved
<1>1. DOMAIN Unexpired \in SUBSET DOMAIN challenges
  BY DEF Unexpired, Restrict
<1>2. /\ IsFiniteSet(DOMAIN Unexpired)
      /\ Cardinality(DOMAIN Unexpired) <= Cardinality(DOMAIN challenges)
  BY <1>1, FS_Subset DEF IInv, Typed
<1>3. Cardinality(DOMAIN Unexpired) \in Nat /\ Cardinality(DOMAIN challenges) \in Nat
  BY <1>2, FS_CardinalityType DEF IInv, Typed
<1>4. config.maxUnsolved \in Nat /\ attempts \in Nat /\ issued \in Nat
  BY LegacyRegistrationAssumption DEF IInv, Typed
<1> QED
  BY <1>2, <1>3, <1>4 DEF IInv, AttemptsArePaid

LEMMA CheckChallengeIsPaid ==
    ASSUME IInv, NEW c, NEW solved, CheckChallenge(c, solved), UNCHANGED <<config, issued>>
    PROVE  Paid' /\ attempts' \in Nat
<1>1. DOMAIN challenges' = DOMAIN Unexpired \ {c} /\ c \in DOMAIN Unexpired
  BY DEF CheckChallenge, Restrict
<1>2. /\ IsFiniteSet(DOMAIN challenges')
      /\ Cardinality(DOMAIN challenges') = Cardinality(DOMAIN Unexpired) - 1
  BY <1>1, UnexpiredIsPaid, FS_RemoveElement
<1>3. attempts' = attempts + 1 /\ attempts \in Nat /\ issued \in Nat /\ config.maxUnsolved \in Nat
  BY LegacyRegistrationAssumption DEF CheckChallenge, IInv, Typed
<1> QED
  BY <1>2, <1>3, UnexpiredIsPaid DEF Paid, AttemptsArePaid

LEMMA CreateChallengeStep ==
    ASSUME IInv, NEW c, CreateChallenge(c)
    PROVE  IInv'
<1>1. DOMAIN challenges' = DOMAIN Unexpired \cup {c} /\ c \notin DOMAIN Unexpired
  BY DEF CreateChallenge, TK!Put
<1>2. /\ IsFiniteSet(DOMAIN challenges')
      /\ Cardinality(DOMAIN challenges') = Cardinality(DOMAIN Unexpired) + 1
  BY <1>1, UnexpiredIsPaid, FS_AddElement
<1>3. /\ issued' = issued + 1 /\ attempts' = attempts /\ config' = config
      /\ Cardinality(DOMAIN Unexpired) < config.maxUnsolved
      /\ config.maxUnsolved \in Nat /\ attempts \in Nat /\ issued \in Nat
  BY LegacyRegistrationAssumption DEF CreateChallenge, IInv, Typed
<1>4. AttemptsArePaid'
  BY <1>2, <1>3, UnexpiredIsPaid DEF AttemptsArePaid
<1>5. Typed'
  BY <1>2, <1>3 DEF CreateChallenge, rateVars, IInv, Typed
<1>6. RatesInv'
  BY DEF CreateChallenge, rateVars, IInv, RatesInv, Complete, CountSince, Dynamic
<1> QED
  BY <1>4, <1>5, <1>6 DEF IInv

LEMMA BadChallengeStep ==
    ASSUME IInv, BadChallenge
    PROVE  IInv'
<1>1. Paid' /\ attempts' \in Nat
  <2>1. CASE \E c \in ChallengeKeys : CheckChallenge(c, FALSE)
    BY <2>1, CheckChallengeIsPaid DEF BadChallenge
  <2>2. CASE challenges' = Unexpired /\ UNCHANGED attempts
    BY <2>2, UnexpiredIsPaid DEF BadChallenge, Paid, AttemptsArePaid, IInv, Typed
  <2> QED
    BY <2>1, <2>2 DEF BadChallenge
<1>2. Typed'
  BY <1>1 DEF BadChallenge, rateVars, Paid, IInv, Typed
<1>3. RatesInv'
  BY DEF BadChallenge, rateVars, IInv, RatesInv, Complete, CountSince, Dynamic
<1> QED
  BY <1>1, <1>2, <1>3 DEF IInv, Paid

-----------------------------------------------------------------------------
(***************************************************************************)
(* Registrations, upgrades, and what does not concern them.                *)
(***************************************************************************)

LEMMA RegisteredStep ==
    ASSUME IInv, Registered, now' = now
    PROVE  IInv'
<1>1. Paid' /\ attempts' \in Nat
  <2>1. CASE \E c \in ChallengeKeys : CheckChallenge(c, TRUE)
    BY <2>1, CheckChallengeIsPaid DEF Registered
  <2>2. CASE UNCHANGED <<challenges, attempts>>
    BY <2>2 DEF Registered, Paid, AttemptsArePaid, IInv, Typed
  <2> QED
    BY <2>1, <2>2 DEF Registered, ChallengePassed
<1>2. /\ config \in Configs /\ config' = config /\ issued' = issued
      /\ now \in Nat /\ registrations \in Seq(Int)
      /\ reference \in Seq(Int) /\ current \in Seq(Int)
      /\ config.reference \in Nat /\ config.current \in Nat
      /\ registrations' = Append(registrations, now)
  BY LegacyRegistrationAssumption DEF Registered, IInv, Typed
<1>3. registrations' \in Seq(Int)
  BY <1>2
<1>4. CASE Dynamic
  <2>1. /\ Complete(reference, config.reference) /\ Complete(current, config.current)
        /\ reference' = Append(Rest(reference, PruneData(reference, config.reference)), now)
        /\ current' = Append(Rest(current, PruneData(current, config.current)), now)
    BY <1>4 DEF Registered, NewRegistration, IInv, RatesInv
  <2>2. /\ reference' \in Seq(Int)
        /\ \A t \in Int : t >= now - config.reference =>
              CountSince(reference', t) >= CountSince(registrations', t)
    BY <1>2, <2>1, RegistrationKeepsComplete
  <2>3. /\ current' \in Seq(Int)
        /\ \A t \in Int : t >= now - config.current =>
              CountSince(current', t) >= CountSince(registrations', t)
    BY <1>2, <2>1, RegistrationKeepsComplete
  <2>4. RatesInv'
    BY <1>2, <2>2, <2>3 DEF RatesInv, Complete, CountSince
  <2>5. Typed'
    BY <1>1, <1>2, <1>3, <2>2, <2>3 DEF Paid, IInv, Typed
  <2> QED
    BY <1>1, <2>4, <2>5 DEF Paid, IInv
<1>5. CASE ~Dynamic
  <2>1. UNCHANGED <<reference, current>> /\ ~Dynamic'
    BY <1>2, <1>5 DEF Registered, NewRegistration, rateVars, Dynamic
  <2>2. Typed'
    BY <1>1, <1>2, <1>3, <2>1 DEF Paid, IInv, Typed
  <2> QED
    BY <1>1, <2>1, <2>2 DEF Paid, IInv, RatesInv
<1> QED
  BY <1>4, <1>5

\* After a change of the configuration the count starts again.
LEMMA UpgradeStep ==
    ASSUME IInv, NEW new \in Configs, Upgrade(new)
    PROVE  IInv'
<1>1. /\ config' = new /\ now' = now /\ reference' = reference /\ current' = current
      /\ challenges' = NoChallenges /\ issued' = 0 /\ attempts' = 0
      /\ registrations' = IF new = config THEN registrations ELSE <<>>
  BY DEF Upgrade, TK!Upgrade
<1>2. DOMAIN challenges' = {}
  BY <1>1 DEF NoChallenges
<1>3. Typed'
  BY <1>1, <1>2, FS_EmptySet DEF IInv, Typed
<1>4. AttemptsArePaid'
  <2>1. Cardinality(DOMAIN challenges') = 0 /\ new.maxUnsolved \in Nat
    BY <1>2, FS_EmptySet, LegacyRegistrationAssumption
  <2> QED
    BY <1>1, <2>1 DEF AttemptsArePaid
<1>5. RatesInv'
  <2>1. CASE new = config
    BY <1>1, <2>1 DEF IInv, RatesInv, Complete, CountSince, Dynamic
  <2>2. CASE new # config
    <3>1. registrations' = <<>>
      BY <1>1, <2>2
    <3>2. ASSUME NEW data \in Seq(Int), NEW t \in Int
          PROVE  CountSince(data, t) >= CountSince(<<>>, t)
      <4>1. Since(<<>>, t) = {} /\ <<>> \in Seq(Int)
        BY DEF Since
      <4>2. CountSince(<<>>, t) = 0 /\ CountSince(data, t) \in Nat
        BY <4>1, SinceIsFinite, FS_EmptySet
      <4> QED
        BY <4>2
    <3>3. reference' \in Seq(Int) /\ current' \in Seq(Int)
      BY <1>3 DEF Typed
    <3> QED
      BY <3>1, <3>2, <3>3 DEF RatesInv, Complete, CountSince
  <2> QED
    BY <2>1, <2>2
<1> QED
  BY <1>3, <1>4, <1>5 DEF IInv

LEMMA UnrelatedStep ==
    ASSUME IInv, Unrelated, now' = now \/ now' = now + 1
    PROVE  IInv'
<1>1. UNCHANGED <<config, challenges, reference, current, issued, attempts, registrations>>
  BY DEF Unrelated, rateVars, history
<1>2. now \in Nat /\ now' \in Nat /\ now' >= now
  BY DEF IInv, Typed
<1>3. Typed' /\ AttemptsArePaid'
  <2>1. DOMAIN challenges' = DOMAIN challenges
    BY <1>1
  <2>2. Typed'
    BY <1>1, <1>2, <2>1 DEF IInv, Typed
  <2>3. AttemptsArePaid'
    BY <1>1, <2>1 DEF IInv, AttemptsArePaid
  <2> QED
    BY <2>2, <2>3
<1>4. ASSUME NEW interval \in Nat, NEW t \in Int, t >= now' - interval
      PROVE  t >= now - interval
  <2>1. \A m, n \in Nat : \A i, u \in Int : n >= m /\ u >= n - i => u >= m - i
    OBVIOUS
  <2>2. interval \in Int
    OBVIOUS
  <2> QED
    BY <1>2, <1>4, <2>1, <2>2
<1>5. config.reference \in Nat /\ config.current \in Nat
  BY LegacyRegistrationAssumption DEF IInv, Typed
<1>6. RatesInv'
  BY <1>1, <1>4, <1>5 DEF IInv, RatesInv, Complete, CountSince, Dynamic
<1> QED
  BY <1>3, <1>6 DEF IInv

-----------------------------------------------------------------------------

LEMMA InitEstablishes == Init => IInv
<1> SUFFICES ASSUME Init PROVE IInv
  OBVIOUS
<1>1. /\ config \in Configs /\ now = 0 /\ issued = 0 /\ attempts = 0
      /\ reference = <<>> /\ current = <<>> /\ registrations = <<>>
  BY DEF Init, TK!Init
<1>2. DOMAIN challenges = {} /\ IsFiniteSet(DOMAIN challenges)
      /\ Cardinality(DOMAIN challenges) = 0
  BY FS_EmptySet DEF Init, NoChallenges
<1>3. Typed
  BY <1>1, <1>2 DEF Typed
<1>4. AttemptsArePaid
  BY <1>1, <1>2, LegacyRegistrationAssumption DEF AttemptsArePaid
<1>5. RatesInv
  <2>1. \A t \in Int : CountSince(<<>>, t) \in Nat
    BY EmptySeq, SinceIsFinite
  <2> QED
    BY <1>1, <2>1 DEF RatesInv, Complete
<1> QED
  BY <1>3, <1>4, <1>5 DEF IInv

LEMMA NextPreserves == IInv /\ [Next]_vars => IInv'
<1> SUFFICES ASSUME IInv, [Next]_vars PROVE IInv'
  OBVIOUS
<1>1. CASE \E c \in ChallengeKeys : CreateChallenge(c)
  BY <1>1, CreateChallengeStep
<1>2. CASE BadChallenge
  BY <1>2, BadChallengeStep
<1>3. CASE RegisterWithDevice
  BY <1>3, RegisteredStep DEF RegisterWithDevice
<1>4. CASE \E d \in Devices, p \in Principals : RegisterWithTempKey(d, p)
  BY <1>4, RegisteredStep DEF RegisterWithTempKey, TK!Register
<1>5. CASE \E new \in Configs : Upgrade(new)
  BY <1>5, UpgradeStep
<1>6. CASE Tick
  BY <1>6, UnrelatedStep DEF Tick, TK!Tick
<1>7. CASE Authenticate
  BY <1>7, UnrelatedStep DEF Authenticate, TK!Authenticate
<1>8. CASE ChangeDevices
  <2>1. now' = now
    BY <1>8 DEF ChangeDevices, TK!ExitRegistrationMode, TK!AddDevice,
                TK!RemoveDevice, TK!ReplaceDevice
  <2> QED
    BY <1>8, <2>1, UnrelatedStep DEF ChangeDevices
<1>9. CASE UNCHANGED vars
  <2>1. Unrelated /\ now' = now
    BY <1>9 DEF vars, Unrelated, rateVars, history
  <2> QED
    BY <2>1, UnrelatedStep
<1> QED
  BY <1>1, <1>2, <1>3, <1>4, <1>5, <1>6, <1>7, <1>8, <1>9 DEF Next

THEOREM Invariance == Spec => []IInv
<1> QED
  BY InitEstablishes, NextPreserves, PTL DEF Spec

\* create_challenge and check_challenge: no sequence of calls, expirations and
\* upgrades gets a second attempt out of a challenge, or more challenges in
\* flight than max_unsolved_captchas.
THEOREM ChallengesBuyOneAttempt == Spec => []AttemptsArePaid
<1>1. IInv => AttemptsArePaid
  BY DEF IInv
<1> QED
  BY <1>1, Invariance, PTL

\* new_registration and registration_rates: whatever the pruning limit, the
\* heaps miss no registration of their intervals.
THEOREM NoRegistrationIsMissed == Spec => []RatesAreComplete
<1>1. IInv => RatesAreComplete
  <2> SUFFICES ASSUME IInv, Dynamic
               PROVE  /\ CountSince(reference, now - config.reference)
                           >= CountSince(registrations, now - config.reference)
                      /\ CountSince(current, now - config.current)
                           >= CountSince(registrations, now - config.current)
    BY DEF RatesAreComplete
  <2>1. now - config.reference \in Int /\ now - config.current \in Int
    BY LegacyRegistrationAssumption DEF IInv, Typed
  <2> QED
    BY <2>1 DEF IInv, RatesInv, Complete
<1> QED
  BY <1>1, Invariance, PTL

-----------------------------------------------------------------------------
(***************************************************************************)
(* Temporary keys.                                                         *)
(*                                                                         *)
(* For any principals, devices, lifetimes and limits: a temporary key goes *)
(* with the device it stands for, and it expires.  An identity is          *)
(* registered under the next number.  That this number is new, so that its *)
(* first device takes nobody's keys over, needs that the identities are    *)
(* numbered from 1 without a gap (Numbered).                               *)
(***************************************************************************)

Entries == [key : TK!Keys, expiration : Nat]

Numbered == \E n \in 0..MaxIdentities : DOMAIN devices = 1..n

\* A key belongs to an identity that there is.
Owned == \A k \in DOMAIN tempKeys : k[1] \in DOMAIN devices

KeysInv == TK!TypeOK /\ Numbered /\ Owned /\ TK!KeyNeedsDevice /\ TK!EveryKeyExpires

\* Every key of the map is in the queue.
Queued(keys, queue) ==
    \A k \in DOMAIN keys : \E j \in 1..Len(queue) :
        queue[j] = [key |-> k, expiration |-> keys[k].expiration]

QueueAfter(pruned) == IF pruned THEN TK!QueueAfterPrune ELSE keyExpirations

-----------------------------------------------------------------------------
(***************************************************************************)
(* What pruning leaves.                                                    *)
(***************************************************************************)

LEMMA PruneCountBound ==
    ASSUME KeysInv
    PROVE  TK!PruneCount \in 0..Len(keyExpirations)
<1> DEFINE m == Min({MaxToPrune, Len(keyExpirations)})
           S == {n \in 0..m : \A j \in 1..n : keyExpirations[j].expiration <= now}
<1>1. m \in {MaxToPrune, Len(keyExpirations)} /\ m <= Len(keyExpirations) /\ m \in Nat
  <2>1. {MaxToPrune, Len(keyExpirations)} \in SUBSET Nat
    <3>1. keyExpirations \in Seq(Entries)
      BY DEF KeysInv, TK!TypeOK, Entries
    <3> QED
      BY <3>1, LenProperties, LegacyRegistrationAssumption
  <2> QED
    BY <2>1, MinNat
<1> HIDE DEF m
<1>2. 0 \in S /\ S \in SUBSET (0..m)
  BY <1>1
<1>3. TK!PruneCount = Max(S)
  BY DEF TK!PruneCount, TK!Max, TK!Min, Max, Min, m
<1> HIDE DEF S
<1>4. Max(S) \in S
  <2>1. m \in Int /\ S # {}
    BY <1>1, <1>2
  <2> QED
    BY <1>2, <2>1, MaxNat
<1>5. Max(S) \in 0..m
  BY <1>2, <1>4
<1>6. Len(keyExpirations) \in Int
  BY <1>1, LenProperties DEF KeysInv, TK!TypeOK
<1> QED
  BY <1>1, <1>3, <1>5, <1>6

\* A key whose entry is pruned goes with it, another one keeps its entry.
LEMMA PruningKeepsQueued ==
    ASSUME KeysInv, NEW pruned \in BOOLEAN
    PROVE  /\ DOMAIN TK!Authorized(pruned) \subseteq DOMAIN tempKeys
           /\ \A k \in DOMAIN TK!Authorized(pruned) : TK!Authorized(pruned)[k] = tempKeys[k]
           /\ QueueAfter(pruned) \in Seq(Entries)
           /\ Queued(TK!Authorized(pruned), QueueAfter(pruned))
<1>1. keyExpirations \in Seq(Entries)
  BY DEF KeysInv, TK!TypeOK, Entries
<1>2. CASE ~pruned
  BY <1>1, <1>2 DEF TK!Authorized, QueueAfter, Queued, KeysInv, TK!EveryKeyExpires
<1>3. CASE pruned
  <2> DEFINE n == TK!PruneCount
             queue == TK!QueueAfterPrune
             len == Len(keyExpirations)
  <2>1. TK!Authorized(pruned) = TK!KeysAfterPrune /\ QueueAfter(pruned) = queue
    BY <1>3 DEF TK!Authorized, QueueAfter
  <2>2. /\ DOMAIN TK!KeysAfterPrune = DOMAIN tempKeys \ {keyExpirations[j].key : j \in 1..n}
        /\ \A k \in DOMAIN TK!KeysAfterPrune : TK!KeysAfterPrune[k] = tempKeys[k]
    BY DEF TK!KeysAfterPrune, TK!Restrict
  <2>3. n \in 0..len /\ len \in Nat
    BY <1>1, PruneCountBound, LenProperties
  <2> HIDE DEF n
  <2>4. \A i \in (n + 1)..len : keyExpirations[i] \in Entries
    <3> SUFFICES ASSUME NEW i \in (n + 1)..len PROVE keyExpirations[i] \in Entries
      OBVIOUS
    <3>1. i \in 1..len
      BY <2>3
    <3> QED
      BY <1>1, <3>1, ElementOfSeq
  <2>5. /\ queue \in Seq(Entries)
        /\ Len(queue) = IF n + 1 <= len THEN len - (n + 1) + 1 ELSE 0
        /\ \A i \in 1..(len - (n + 1) + 1) : queue[i] = keyExpirations[n + 1 + i - 1]
    BY <2>3, <2>4, SubSeqProperties DEF TK!QueueAfterPrune, n
  <2> HIDE DEF queue
  <2>6. ASSUME NEW k \in DOMAIN TK!KeysAfterPrune
        PROVE  \E j \in 1..Len(queue) :
                  queue[j] = [key |-> k, expiration |-> TK!KeysAfterPrune[k].expiration]
    <3>1. PICK j \in 1..len :
              keyExpirations[j] = [key |-> k, expiration |-> tempKeys[k].expiration]
      BY <2>2 DEF KeysInv, TK!EveryKeyExpires
    <3>2. ~(j <= n)
      <4> SUFFICES ASSUME j <= n PROVE FALSE
        OBVIOUS
      <4>1. j \in 1..n /\ keyExpirations[j].key = k
        BY <2>3, <3>1
      <4> QED
        BY <2>2, <4>1
    <3>3. /\ j - n \in 1..Len(queue)
          /\ j - n \in 1..(len - (n + 1) + 1)
          /\ n + 1 + (j - n) - 1 = j
      BY <2>3, <2>5, <3>2
    <3>4. queue[j - n] = keyExpirations[j]
      BY <2>5, <3>3
    <3> QED
      BY <2>2, <3>1, <3>3, <3>4
  <2> QED
    BY <2>1, <2>2, <2>5, <2>6 DEF Queued
<1> QED
  BY <1>2, <1>3

-----------------------------------------------------------------------------
(***************************************************************************)
(* The operations on keys.                                                 *)
(***************************************************************************)

\* Keys are dropped, and none of them loses its device.
LEMMA DropKeys ==
    ASSUME KeysInv, NEW pruned \in BOOLEAN, NEW D, now' \in Nat,
           DOMAIN tempKeys' = DOMAIN TK!Authorized(pruned) \ D,
           \A k \in DOMAIN tempKeys' : tempKeys'[k] = TK!Authorized(pruned)[k],
           keyExpirations' = QueueAfter(pruned),
           DOMAIN devices' = DOMAIN devices,
           \A i \in DOMAIN devices : devices'[i] \subseteq Devices,
           \A k \in DOMAIN tempKeys \ D : k[2] \in devices'[k[1]]
    PROVE  KeysInv'
<1>1. /\ DOMAIN TK!Authorized(pruned) \subseteq DOMAIN tempKeys
      /\ \A k \in DOMAIN TK!Authorized(pruned) : TK!Authorized(pruned)[k] = tempKeys[k]
      /\ QueueAfter(pruned) \in Seq(Entries)
      /\ Queued(TK!Authorized(pruned), QueueAfter(pruned))
  BY PruningKeepsQueued
<1>2. DOMAIN tempKeys' = DOMAIN TK!Authorized(pruned) \ D
      /\ \A k \in DOMAIN tempKeys' : tempKeys'[k] = tempKeys[k]
  BY <1>1
<1>3. TK!EveryKeyExpires'
  <2> SUFFICES ASSUME NEW k \in DOMAIN tempKeys'
               PROVE  \E j \in 1..Len(keyExpirations') :
                         keyExpirations'[j] = [key |-> k, expiration |-> tempKeys'[k].expiration]
    BY DEF TK!EveryKeyExpires
  <2>1. k \in DOMAIN TK!Authorized(pruned) /\ tempKeys'[k] = TK!Authorized(pruned)[k]
    BY <1>1, <1>2
  <2> QED
    BY <1>1, <2>1 DEF Queued
<1>4. TK!KeyNeedsDevice'
  BY <1>1, <1>2 DEF TK!KeyNeedsDevice
<1>5. Numbered' /\ Owned'
  BY <1>1, <1>2 DEF KeysInv, Numbered, Owned
<1>6. TK!TypeOK'
  <2>1. /\ DOMAIN devices \subseteq TK!Identities
        /\ DOMAIN tempKeys \subseteq TK!Keys
        /\ \A k \in DOMAIN tempKeys :
              tempKeys[k] \in [principal : Principals, expiration : Nat]
    BY DEF KeysInv, TK!TypeOK
  <2>2. keyExpirations' \in Seq([key : TK!Keys, expiration : Nat])
    BY <1>1 DEF Entries
  <2> QED
    BY <1>1, <1>2, <2>1, <2>2 DEF TK!TypeOK, TK!Identities, TK!Keys
<1> QED
  BY <1>3, <1>4, <1>5, <1>6 DEF KeysInv

\* A key is added together with its device.
LEMMA AddKey ==
    ASSUME KeysInv, now' = now, NEW i \in TK!Identities, NEW d \in Devices, NEW p \in Principals,
           TK!AddTempKey(i, d, p), Numbered',
           DOMAIN devices \subseteq DOMAIN devices', i \in DOMAIN devices',
           \A j \in DOMAIN devices' : devices'[j] \subseteq Devices,
           \A j \in DOMAIN devices : devices[j] \subseteq devices'[j],
           d \in devices'[i]
    PROVE  KeysInv'
<1> DEFINE key == <<i, d>>
           entry == [key |-> key, expiration |-> now + KeyExpiration]
<1>1. /\ DOMAIN tempKeys' = DOMAIN tempKeys \cup {key}
      /\ tempKeys'[key] = [principal |-> p, expiration |-> now + KeyExpiration]
      /\ \A k \in DOMAIN tempKeys : k # key => tempKeys'[k] = tempKeys[k]
  BY DEF TK!AddTempKey, TK!Put
<1>2. /\ now \in Nat /\ now + KeyExpiration \in Nat /\ keyExpirations \in Seq(Entries)
      /\ key \in TK!Keys /\ entry \in Entries
  BY LegacyRegistrationAssumption DEF KeysInv, TK!TypeOK, Entries, TK!Keys
<1>3. keyExpirations' = Append(keyExpirations, entry)
  BY DEF TK!AddTempKey
<1> HIDE DEF entry
<1>4. /\ keyExpirations' \in Seq(Entries) /\ Len(keyExpirations') = Len(keyExpirations) + 1
      /\ \A j \in 1..Len(keyExpirations) : keyExpirations'[j] = keyExpirations[j]
      /\ keyExpirations'[Len(keyExpirations) + 1] = entry
      /\ Len(keyExpirations) \in Nat
  BY <1>2, <1>3, AppendProperties, LenProperties
<1>5. TK!EveryKeyExpires'
  <2> SUFFICES ASSUME NEW k \in DOMAIN tempKeys'
               PROVE  \E j \in 1..Len(keyExpirations') :
                         keyExpirations'[j] = [key |-> k, expiration |-> tempKeys'[k].expiration]
    BY DEF TK!EveryKeyExpires
  <2>1. CASE k = key
    <3>1. tempKeys'[k].expiration = now + KeyExpiration
      BY <1>1, <2>1
    <3>2. Len(keyExpirations) + 1 \in 1..Len(keyExpirations')
      BY <1>4
    <3> QED
      BY <1>4, <2>1, <3>1, <3>2 DEF entry
  <2>2. CASE k # key
    <3>1. k \in DOMAIN tempKeys /\ tempKeys'[k] = tempKeys[k]
      BY <1>1, <2>2
    <3>2. PICK j \in 1..Len(keyExpirations) :
              keyExpirations[j] = [key |-> k, expiration |-> tempKeys[k].expiration]
      BY <3>1 DEF KeysInv, TK!EveryKeyExpires
    <3>3. j \in 1..Len(keyExpirations')
      BY <1>4
    <3> QED
      BY <1>4, <3>1, <3>2, <3>3
  <2> QED
    BY <2>1, <2>2
<1>6. TK!KeyNeedsDevice'
  <2>1. \A k \in DOMAIN tempKeys : k[2] \in devices'[k[1]]
    BY DEF KeysInv, Owned, TK!KeyNeedsDevice
  <2>2. key[1] = i /\ key[2] = d
    OBVIOUS
  <2> HIDE DEF key
  <2>3. \A k \in DOMAIN tempKeys' : k[2] \in devices'[k[1]]
    BY <1>1, <2>1, <2>2
  <2> QED
    BY <2>3 DEF TK!KeyNeedsDevice
<1>7. Owned'
  BY <1>1 DEF KeysInv, Owned
<1>8. TK!TypeOK'
  <2>1. keyExpirations' \in Seq([key : TK!Keys, expiration : Nat])
    BY <1>4 DEF Entries
  <2>2. DOMAIN devices' \subseteq TK!Identities
    BY LegacyRegistrationAssumption DEF Numbered, TK!Identities
  <2> DEFINE value == [principal |-> p, expiration |-> now + KeyExpiration]
  <2>3. value \in [principal : Principals, expiration : Nat]
    BY <1>2
  <2> HIDE DEF key, value
  <2>4. /\ DOMAIN tempKeys' = DOMAIN tempKeys \cup {key} /\ tempKeys'[key] = value
        /\ \A k \in DOMAIN tempKeys : k # key => tempKeys'[k] = tempKeys[k]
    BY <1>1 DEF key, value
  <2>5. key \in TK!Keys /\ DOMAIN tempKeys \subseteq TK!Keys
        /\ \A k \in DOMAIN tempKeys :
              tempKeys[k] \in [principal : Principals, expiration : Nat]
    BY <1>2 DEF KeysInv, TK!TypeOK
  <2>6. /\ DOMAIN tempKeys' \subseteq TK!Keys
        /\ \A k \in DOMAIN tempKeys' :
              tempKeys'[k] \in [principal : Principals, expiration : Nat]
    BY <2>3, <2>4, <2>5
  <2> QED
    BY <1>2, <2>1, <2>2, <2>6 DEF TK!TypeOK, TK!Identities, TK!Keys
<1> QED
  BY <1>5, <1>6, <1>7, <1>8 DEF KeysInv

-----------------------------------------------------------------------------
(***************************************************************************)
(* The methods.                                                            *)
(***************************************************************************)

\* The number of a new identity is not in use.
LEMMA RegisterKeeps ==
    ASSUME KeysInv, NEW d \in Devices, NEW p \in Principals, TK!Register(d, p)
    PROVE  KeysInv'
<1>1. PICK n \in 0..MaxIdentities : DOMAIN devices = 1..n
  BY DEF KeysInv, Numbered
<1>2. Cardinality(DOMAIN devices) = n /\ n \in Nat
  BY <1>1, FS_Interval, LegacyRegistrationAssumption
<1>3. /\ n + 1 <= MaxIdentities
      /\ devices' = TK!Put(devices, n + 1, {d})
      /\ TK!AddTempKey(n + 1, d, p)
      /\ now' = now
  <2>1. TK!Cardinality(DOMAIN devices) = Cardinality(DOMAIN devices)
    BY DEF TK!Cardinality, Cardinality
  <2> QED
    BY <1>2, <2>1 DEF TK!Register
<1>4. /\ DOMAIN devices' = DOMAIN devices \cup {n + 1}
      /\ devices'[n + 1] = {d}
      /\ \A j \in DOMAIN devices : devices'[j] = devices[j]
  BY <1>1, <1>2, <1>3 DEF TK!Put
<1>5. DOMAIN devices' = 1..(n + 1)
  BY <1>1, <1>2, <1>4
<1>6. Numbered' /\ n + 1 \in TK!Identities
  BY <1>2, <1>3, <1>5, LegacyRegistrationAssumption DEF Numbered, TK!Identities
<1>7. \A j \in DOMAIN devices' : devices'[j] \subseteq Devices
  BY <1>4 DEF KeysInv, TK!TypeOK
<1>8. /\ DOMAIN devices \subseteq DOMAIN devices' /\ n + 1 \in DOMAIN devices'
      /\ \A j \in DOMAIN devices : devices[j] \subseteq devices'[j]
      /\ d \in devices'[n + 1]
  BY <1>4
<1> QED
  BY <1>3, <1>6, <1>7, <1>8, AddKey

LEMMA ExitRegistrationModeKeeps ==
    ASSUME KeysInv, NEW i \in DOMAIN devices, NEW d \in Devices, NEW p \in Principals,
           TK!ExitRegistrationMode(i, d, p)
    PROVE  KeysInv'
<1>1. /\ devices' = [devices EXCEPT ![i] = @ \cup {d}]
      /\ TK!AddTempKey(i, d, p) /\ now' = now
  BY DEF TK!ExitRegistrationMode
<1>2. /\ DOMAIN devices' = DOMAIN devices
      /\ \A j \in DOMAIN devices :
            devices'[j] = IF j = i THEN devices[j] \cup {d} ELSE devices[j]
  BY <1>1
<1>3. i \in TK!Identities /\ \A j \in DOMAIN devices : devices[j] \subseteq Devices
  BY DEF KeysInv, TK!TypeOK
<1>4. Numbered'
  BY <1>2 DEF KeysInv, Numbered
<1> QED
  BY <1>1, <1>2, <1>3, <1>4, AddKey

\* Nothing but pruning happens to the keys.
LEMMA AuthorizeKeeps ==
    ASSUME KeysInv, NEW pruned \in BOOLEAN, TK!Authorize(pruned), now' \in Nat,
           DOMAIN devices' = DOMAIN devices,
           \A i \in DOMAIN devices :
               devices[i] \subseteq devices'[i] /\ devices'[i] \subseteq Devices
    PROVE  KeysInv'
<1>1. tempKeys' = TK!Authorized(pruned) /\ keyExpirations' = QueueAfter(pruned)
  BY DEF TK!Authorize, TK!Authorized, QueueAfter
<1>2. /\ DOMAIN tempKeys' = DOMAIN TK!Authorized(pruned) \ {}
      /\ \A k \in DOMAIN tempKeys' : tempKeys'[k] = TK!Authorized(pruned)[k]
  BY <1>1
<1>3. \A k \in DOMAIN tempKeys \ {} : k[2] \in devices'[k[1]]
  BY DEF KeysInv, Owned, TK!KeyNeedsDevice
<1> QED
  BY <1>1, <1>2, <1>3, DropKeys

LEMMA AddDeviceKeeps ==
    ASSUME KeysInv, NEW i \in DOMAIN devices, NEW d \in Devices, NEW pruned \in BOOLEAN,
           TK!AddDevice(i, d, pruned)
    PROVE  KeysInv'
<1>1. /\ devices' = [devices EXCEPT ![i] = @ \cup {d}]
      /\ TK!Authorize(pruned) /\ now' = now
  BY DEF TK!AddDevice
<1>2. now' \in Nat /\ \A j \in DOMAIN devices : devices[j] \subseteq Devices
  BY <1>1 DEF KeysInv, TK!TypeOK
<1>3. DOMAIN devices' = DOMAIN devices
      /\ \A j \in DOMAIN devices :
            devices[j] \subseteq devices'[j] /\ devices'[j] \subseteq Devices
  BY <1>1, <1>2
<1> QED
  BY <1>1, <1>2, <1>3, AuthorizeKeeps

\* The key goes before its device may come back.
LEMMA ReplaceDeviceKeeps ==
    ASSUME KeysInv, NEW i \in DOMAIN devices, NEW old \in Devices, NEW added \in SUBSET Devices,
           NEW pruned \in BOOLEAN, now' = now,
           devices' = [devices EXCEPT ![i] = (@ \ {old}) \cup added],
           tempKeys' = TK!RemoveTempKey(TK!Authorized(pruned), <<i, old>>),
           keyExpirations' = QueueAfter(pruned)
    PROVE  KeysInv'
<1>1. /\ DOMAIN tempKeys' = DOMAIN TK!Authorized(pruned) \ {<<i, old>>}
      /\ \A k \in DOMAIN tempKeys' : tempKeys'[k] = TK!Authorized(pruned)[k]
  BY DEF TK!RemoveTempKey, TK!Restrict
<1>2. now' \in Nat /\ \A j \in DOMAIN devices : devices[j] \subseteq Devices
  BY DEF KeysInv, TK!TypeOK
<1>3. /\ DOMAIN devices' = DOMAIN devices
      /\ \A j \in DOMAIN devices :
            devices'[j] = IF j = i THEN (devices[j] \ {old}) \cup added ELSE devices[j]
  OBVIOUS
<1>4. \A j \in DOMAIN devices : devices'[j] \subseteq Devices
  BY <1>2, <1>3
<1>5. ASSUME NEW k \in DOMAIN tempKeys \ {<<i, old>>}
      PROVE  k[2] \in devices'[k[1]]
  <2>1. /\ k \in TK!Keys /\ k[1] \in DOMAIN devices /\ k[2] \in devices[k[1]]
    BY DEF KeysInv, TK!TypeOK, Owned, TK!KeyNeedsDevice
  <2>2. k[1] = i => k[2] # old
    BY <2>1 DEF TK!Keys
  <2> QED
    BY <1>3, <2>1, <2>2
<1> QED
  BY <1>1, <1>2, <1>3, <1>4, <1>5, DropKeys

LEMMA ChangeDevicesKeeps ==
    ASSUME KeysInv, ChangeDevices
    PROVE  KeysInv'
<1>1. PICK i \in DOMAIN devices, d \in Devices :
          \/ \E p \in Principals : TK!ExitRegistrationMode(i, d, p)
          \/ \E pruned \in BOOLEAN :
                \/ TK!AddDevice(i, d, pruned)
                \/ TK!RemoveDevice(i, d, pruned)
                \/ \E new \in Devices : TK!ReplaceDevice(i, d, new, pruned)
  BY DEF ChangeDevices
<1>2. CASE \E p \in Principals : TK!ExitRegistrationMode(i, d, p)
  BY <1>2, ExitRegistrationModeKeeps
<1>3. ASSUME NEW pruned \in BOOLEAN, TK!AddDevice(i, d, pruned)
      PROVE  KeysInv'
  BY <1>3, AddDeviceKeeps
<1>4. ASSUME NEW pruned \in BOOLEAN, TK!RemoveDevice(i, d, pruned)
      PROVE  KeysInv'
  <2>1. /\ devices' = [devices EXCEPT ![i] = (@ \ {d}) \cup {}] /\ now' = now
        /\ tempKeys' = TK!RemoveTempKey(TK!Authorized(pruned), <<i, d>>)
        /\ keyExpirations' = QueueAfter(pruned)
    BY <1>4 DEF TK!RemoveDevice, QueueAfter
  <2> QED
    BY <2>1, ReplaceDeviceKeeps
<1>5. ASSUME NEW pruned \in BOOLEAN, NEW new \in Devices, TK!ReplaceDevice(i, d, new, pruned)
      PROVE  KeysInv'
  <2>1. /\ devices' = [devices EXCEPT ![i] = (@ \ {d}) \cup {new}] /\ now' = now
        /\ tempKeys' = TK!RemoveTempKey(TK!Authorized(pruned), <<i, d>>)
        /\ keyExpirations' = QueueAfter(pruned)
    BY <1>5 DEF TK!ReplaceDevice, QueueAfter
  <2> QED
    BY <2>1, ReplaceDeviceKeeps
<1> QED
  BY <1>1, <1>2, <1>3, <1>4, <1>5

LEMMA OthersKeep ==
    ASSUME KeysInv, now \in Nat,
           \/ TK!Authenticate
           \/ UNCHANGED keyVars /\ now' \in Nat
           \/ TK!Upgrade
    PROVE  KeysInv'
<1>1. \A j \in DOMAIN devices : devices[j] \subseteq Devices
  BY DEF KeysInv, TK!TypeOK
<1>2. CASE TK!Authenticate
  <2>1. TK!Authorize(TRUE) /\ now' = now /\ devices' = devices
    BY <1>2 DEF TK!Authenticate
  <2> QED
    BY <1>1, <2>1, AuthorizeKeeps
<1>3. CASE UNCHANGED keyVars /\ now' \in Nat
  <2>1. devices' = devices /\ tempKeys' = tempKeys /\ keyExpirations' = keyExpirations
    BY <1>3 DEF keyVars
  <2> QED
    BY <1>3, <2>1 DEF KeysInv, TK!TypeOK, Numbered, Owned, TK!KeyNeedsDevice,
                      TK!EveryKeyExpires, TK!Identities, TK!Keys
<1>4. CASE TK!Upgrade
  <2>1. /\ DOMAIN tempKeys' = {} /\ keyExpirations' = <<>> /\ now' = now
        /\ devices' = devices
    BY <1>4 DEF TK!Upgrade, TK!NoKeys
  <2>2. <<>> \in Seq([key : TK!Keys, expiration : Nat])
    BY EmptySeq
  <2> QED
    BY <2>1, <2>2 DEF KeysInv, TK!TypeOK, Numbered, Owned, TK!KeyNeedsDevice,
                      TK!EveryKeyExpires, TK!Identities, TK!Keys
<1> QED
  BY <1>2, <1>3, <1>4

-----------------------------------------------------------------------------
(***************************************************************************)
(* The types of LegacyRegistration: challenges, and heaps in order.        *)
(***************************************************************************)

Heap(data, time) ==
    /\ data \in Seq(Int)
    /\ \A i \in 1..Len(data) : data[i] \in 0..time
    /\ \A i, j \in 1..Len(data) : i < j => data[i] <= data[j]

Pruned == {Unknown} \cup 0..now

Types ==
    /\ DOMAIN challenges \subseteq ChallengeKeys
    /\ \A c \in DOMAIN challenges : challenges[c] \in 0..now
    /\ Heap(reference, now) /\ Heap(current, now)
    /\ referencePruned \in Pruned /\ currentPruned \in Pruned

LEMMA HeapAfterPrune ==
    ASSUME now \in Nat, NEW data, Heap(data, now), NEW n \in 0..Len(data),
           NEW before \in Pruned
    PROVE  /\ Heap(Append(Rest(data, n), now), now)
           /\ LastPruned(data, n, before) \in Pruned
<1> DEFINE rest == Rest(data, n)
           len == Len(data)
<1>1. data \in Seq(Int) /\ len \in Nat /\ n \in Nat /\ n <= len
  BY LenProperties DEF Heap
<1>2. \A i \in (n + 1)..len : data[i] \in Int
  BY <1>1 DEF Heap
<1>3. /\ rest \in Seq(Int)
      /\ Len(rest) = IF n + 1 <= len THEN len - (n + 1) + 1 ELSE 0
      /\ \A i \in 1..(len - (n + 1) + 1) : rest[i] = data[n + 1 + i - 1]
  BY SMTT(30), <1>1, <1>2, SubSeqProperties DEF Rest
<1> HIDE DEF rest
<1>4. /\ Len(rest) = len - n /\ Len(rest) \in Nat
      /\ \A i \in 1..Len(rest) : rest[i] = data[n + i]
  <2>1. Len(rest) = len - n
    BY <1>1, <1>3
  <2>2. ASSUME NEW i \in 1..Len(rest) PROVE rest[i] = data[n + i]
    <3>1. i \in 1..(len - (n + 1) + 1) /\ n + 1 + i - 1 = n + i
      BY <1>1, <2>1
    <3> QED
      BY <1>3, <3>1
  <2> QED
    BY <1>1, <2>1, <2>2
<1> DEFINE more == Append(rest, now)
<1>5. /\ more \in Seq(Int) /\ Len(more) = Len(rest) + 1
      /\ \A i \in 1..Len(rest) : more[i] = rest[i]
      /\ more[Len(rest) + 1] = now
  BY <1>3, AppendProperties
<1> HIDE DEF more
<1>6. ASSUME NEW i \in 1..Len(rest)
      PROVE  more[i] = data[n + i] /\ n + i \in 1..len
  BY <1>1, <1>4, <1>5
<1>7. \A i \in 1..Len(more) : more[i] \in 0..now
  <2> SUFFICES ASSUME NEW i \in 1..Len(more) PROVE more[i] \in 0..now
    OBVIOUS
  <2>1. CASE i \in 1..Len(rest)
    BY <1>6, <2>1 DEF Heap
  <2>2. CASE i = Len(rest) + 1
    BY <1>5, <2>2
  <2> QED
    BY <1>4, <1>5, <2>1, <2>2
<1>8. ASSUME NEW i \in 1..Len(more), NEW j \in 1..Len(more), i < j
      PROVE  more[i] <= more[j]
  <2>1. i \in 1..Len(rest)
    BY <1>4, <1>5, <1>8
  <2>2. CASE j \in 1..Len(rest)
    <3>1. n + i < n + j
      BY <1>1, <1>8
    <3> QED
      BY <1>6, <2>1, <2>2, <3>1 DEF Heap
  <2>3. CASE j = Len(rest) + 1
    BY <1>5, <1>7, <2>3
  <2>4. j \in 1..Len(rest) \/ j = Len(rest) + 1
    BY <1>4, <1>5
  <2> QED
    BY <2>2, <2>3, <2>4
<1>9. Heap(more, now)
  BY <1>5, <1>7, <1>8 DEF Heap
<1>10. LastPruned(data, n, before) \in Pruned
  <2>1. CASE n = 0
    BY <2>1 DEF LastPruned
  <2>2. CASE n # 0
    <3>1. data[n] \in 0..now
      BY <1>1, <2>2 DEF Heap
    <3>2. now - data[n] \in 0..now
      BY <3>1
    <3> QED
      BY <2>2, <3>2 DEF LastPruned, Pruned
  <2> QED
    BY <2>1, <2>2
<1> QED
  BY <1>9, <1>10 DEF more, rest

\* Challenges are pruned and tried, and new ones are created now.
LEMMA ChallengesKeepTypes ==
    ASSUME now \in Nat, Types,
           \/ challenges' \in {challenges, Unexpired}
           \/ \E c \in DOMAIN Unexpired : challenges' = Restrict(Unexpired, DOMAIN Unexpired \ {c})
           \/ \E c \in ChallengeKeys : challenges' = TK!Put(Unexpired, c, now)
    PROVE  /\ DOMAIN challenges' \subseteq ChallengeKeys
           /\ \A c \in DOMAIN challenges' : challenges'[c] \in 0..now
<1>1. /\ DOMAIN Unexpired \subseteq DOMAIN challenges
      /\ \A c \in DOMAIN Unexpired : Unexpired[c] = challenges[c]
  BY DEF Unexpired, Restrict
<1>2. /\ DOMAIN challenges \subseteq ChallengeKeys
      /\ \A c \in DOMAIN challenges : challenges[c] \in 0..now
  BY DEF Types
<1>3. CASE challenges' \in {challenges, Unexpired}
  BY <1>1, <1>2, <1>3
<1>4. ASSUME NEW c \in DOMAIN Unexpired,
             challenges' = Restrict(Unexpired, DOMAIN Unexpired \ {c})
      PROVE  /\ DOMAIN challenges' \subseteq ChallengeKeys
             /\ \A e \in DOMAIN challenges' : challenges'[e] \in 0..now
  BY <1>1, <1>2, <1>4 DEF Restrict
<1>5. ASSUME NEW c \in ChallengeKeys, challenges' = TK!Put(Unexpired, c, now)
      PROVE  /\ DOMAIN challenges' \subseteq ChallengeKeys
             /\ \A e \in DOMAIN challenges' : challenges'[e] \in 0..now
  <2>1. /\ DOMAIN challenges' = DOMAIN Unexpired \cup {c}
        /\ \A e \in DOMAIN challenges' : challenges'[e] = IF e = c THEN now ELSE Unexpired[e]
    BY <1>5 DEF TK!Put
  <2>2. now \in 0..now
    OBVIOUS
  <2> QED
    BY <1>1, <1>2, <2>1, <2>2
<1> QED
  BY <1>3, <1>4, <1>5

\* Time stamps stay in order: a registration appends the greatest one.
LEMMA RatesKeepTypes ==
    ASSUME IInv, Types, Registered
    PROVE  /\ Heap(reference', now) /\ Heap(current', now)
           /\ referencePruned' \in Pruned /\ currentPruned' \in Pruned
<1>1. /\ now \in Nat /\ config.reference \in Nat /\ config.current \in Nat
      /\ reference \in Seq(Int) /\ current \in Seq(Int)
  BY LegacyRegistrationAssumption DEF IInv, Typed
<1>2. /\ Heap(reference, now) /\ Heap(current, now)
      /\ referencePruned \in Pruned /\ currentPruned \in Pruned
  BY DEF Types
<1>3. CASE Dynamic
  <2> DEFINE r == PruneData(reference, config.reference)
             c == PruneData(current, config.current)
  <2>1. r \in 0..Len(reference) /\ c \in 0..Len(current)
    BY <1>1, PruneDataBound
  <2>2. /\ reference' = Append(Rest(reference, r), now)
        /\ current' = Append(Rest(current, c), now)
        /\ referencePruned' = LastPruned(reference, r, referencePruned)
        /\ currentPruned' = LastPruned(current, c, currentPruned)
    BY <1>3 DEF Registered, NewRegistration
  <2> HIDE DEF r, c
  <2> QED
    BY <1>1, <1>2, <2>1, <2>2, HeapAfterPrune
<1>4. CASE ~Dynamic
  BY <1>2, <1>4 DEF Registered, NewRegistration, rateVars
<1> QED
  BY <1>3, <1>4

LEMMA TypesUntouched ==
    ASSUME now \in Nat, Types, now' \in Nat, now' >= now,
           UNCHANGED <<reference, current>>,
           \/ UNCHANGED <<referencePruned, currentPruned>>
           \/ referencePruned' = Unknown /\ currentPruned' = Unknown,
           /\ DOMAIN challenges' \subseteq ChallengeKeys
           /\ \A c \in DOMAIN challenges' : challenges'[c] \in 0..now
    PROVE  Types'
<1>1. \A x \in 0..now : x \in 0..now'
  OBVIOUS
<1>2. Heap(reference', now') /\ Heap(current', now')
  BY <1>1 DEF Types, Heap
<1>3. referencePruned' \in Pruned' /\ currentPruned' \in Pruned'
  BY <1>1 DEF Types, Pruned
<1> QED
  BY <1>1, <1>2, <1>3 DEF Types

-----------------------------------------------------------------------------

KInv == IInv /\ Types /\ KeysInv

LEMMA InitEstablishesKeys == Init => KInv
<1> SUFFICES ASSUME Init PROVE KInv
  OBVIOUS
<1>1. now = 0 /\ devices = [i \in {} |-> {}] /\ DOMAIN tempKeys = {} /\ keyExpirations = <<>>
  BY DEF Init, TK!Init, TK!NoKeys
<1>2. KeysInv
  <2>1. <<>> \in Seq([key : TK!Keys, expiration : Nat])
    BY EmptySeq
  <2>2. DOMAIN devices = {} /\ DOMAIN devices = 1..0 /\ 0 \in 0..MaxIdentities
    BY <1>1, LegacyRegistrationAssumption
  <2> QED
    BY <1>1, <2>1, <2>2 DEF KeysInv, TK!TypeOK, Numbered, Owned, TK!KeyNeedsDevice,
                            TK!EveryKeyExpires
<1>3. Types
  <2>1. /\ DOMAIN challenges = {} /\ reference = <<>> /\ current = <<>>
        /\ referencePruned = Unknown /\ currentPruned = Unknown
    BY DEF Init, NoChallenges
  <2>2. Heap(<<>>, now)
    BY EmptySeq DEF Heap
  <2> QED
    BY <2>1, <2>2 DEF Types, Pruned
<1> QED
  BY <1>2, <1>3, InitEstablishes DEF KInv

LEMMA NextPreservesKeys == KInv /\ [Next]_vars => KInv'
<1> SUFFICES ASSUME KInv, [Next]_vars PROVE Types' /\ KeysInv'
  BY NextPreserves DEF KInv
<1>1. IInv /\ Types /\ KeysInv /\ now \in Nat
  BY DEF KInv, IInv, Typed
<1>2. CASE \E c \in ChallengeKeys : CreateChallenge(c)
  <2>1. /\ \E c \in ChallengeKeys : challenges' = TK!Put(Unexpired, c, now)
        /\ now' = now /\ UNCHANGED keyVars
        /\ UNCHANGED <<reference, current, referencePruned, currentPruned>>
    BY <1>2 DEF CreateChallenge, rateVars
  <2>2. Types'
    BY <1>1, <2>1, ChallengesKeepTypes, TypesUntouched
  <2> QED
    BY <1>1, <2>1, <2>2, OthersKeep
<1>3. CASE BadChallenge
  <2>1. /\ \/ \E c \in DOMAIN Unexpired : challenges' = Restrict(Unexpired, DOMAIN Unexpired \ {c})
           \/ challenges' \in {challenges, Unexpired}
        /\ now' = now /\ UNCHANGED keyVars
        /\ UNCHANGED <<reference, current, referencePruned, currentPruned>>
    BY <1>3 DEF BadChallenge, CheckChallenge, rateVars
  <2>2. Types'
    BY <1>1, <2>1, ChallengesKeepTypes, TypesUntouched
  <2> QED
    BY <1>1, <2>1, <2>2, OthersKeep
<1>4. ASSUME Registered, now' = now
      PROVE  Types'
  <2>1. \/ \E c \in DOMAIN Unexpired : challenges' = Restrict(Unexpired, DOMAIN Unexpired \ {c})
        \/ challenges' \in {challenges, Unexpired}
    BY <1>4 DEF Registered, ChallengePassed, CheckChallenge
  <2>2. /\ DOMAIN challenges' \subseteq ChallengeKeys
        /\ \A c \in DOMAIN challenges' : challenges'[c] \in 0..now
    BY <1>1, <2>1, ChallengesKeepTypes
  <2>3. /\ Heap(reference', now) /\ Heap(current', now)
        /\ referencePruned' \in Pruned /\ currentPruned' \in Pruned
    BY <1>1, <1>4, RatesKeepTypes
  <2> QED
    BY <1>4, <2>2, <2>3 DEF Types, Pruned
<1>5. CASE RegisterWithDevice
  <2>1. Registered /\ now' = now /\ UNCHANGED keyVars
    BY <1>5 DEF RegisterWithDevice
  <2> QED
    BY <1>1, <1>4, <2>1, OthersKeep
<1>6. CASE \E d \in Devices, p \in Principals : RegisterWithTempKey(d, p)
  <2>1. PICK d \in Devices, p \in Principals : Registered /\ TK!Register(d, p)
    BY <1>6 DEF RegisterWithTempKey
  <2>2. now' = now
    BY <2>1 DEF TK!Register
  <2> QED
    BY <1>1, <1>4, <2>1, <2>2, RegisterKeeps
<1>7. CASE \E new \in Configs : Upgrade(new)
  <2>1. /\ TK!Upgrade /\ challenges' = NoChallenges
        /\ UNCHANGED <<reference, current>>
        /\ referencePruned' = Unknown /\ currentPruned' = Unknown
    BY <1>7 DEF Upgrade
  <2>2. now' = now /\ DOMAIN challenges' = {}
    BY <2>1 DEF TK!Upgrade, NoChallenges
  <2>3. Types'
    BY <1>1, <2>1, <2>2, TypesUntouched
  <2> QED
    BY <1>1, <2>1, <2>3, OthersKeep
<1>8. ASSUME Unrelated, now' = now \/ now' = now + 1
      PROVE  Types'
  <2>1. UNCHANGED <<challenges, reference, current, referencePruned, currentPruned>>
    BY <1>8 DEF Unrelated, rateVars
  <2>2. now' \in Nat /\ now' >= now
    BY <1>1, <1>8
  <2>3. /\ DOMAIN challenges' \subseteq ChallengeKeys
        /\ \A c \in DOMAIN challenges' : challenges'[c] \in 0..now
    BY <1>1, <2>1 DEF Types
  <2> QED
    BY <1>1, <2>1, <2>2, <2>3, TypesUntouched
<1>9. CASE Tick
  <2>1. now' = now + 1 /\ now' \in Nat /\ UNCHANGED keyVars
    BY <1>1, <1>9 DEF Tick, TK!Tick, keyVars
  <2> QED
    BY <1>1, <1>8, <1>9, <2>1, OthersKeep DEF Tick
<1>10. CASE Authenticate
  BY <1>1, <1>8, <1>10, OthersKeep DEF Authenticate, TK!Authenticate
<1>11. CASE ChangeDevices
  <2>1. now' = now
    BY <1>11 DEF ChangeDevices, TK!ExitRegistrationMode, TK!AddDevice,
                 TK!RemoveDevice, TK!ReplaceDevice
  <2> QED
    BY <1>1, <1>8, <1>11, <2>1, ChangeDevicesKeeps DEF ChangeDevices
<1>12. CASE UNCHANGED vars
  <2>1. Unrelated /\ now' = now /\ UNCHANGED keyVars
    BY <1>12 DEF vars, Unrelated, rateVars, history, keyVars
  <2> QED
    BY <1>1, <1>8, <2>1, OthersKeep
<1> QED
  BY <1>2, <1>3, <1>5, <1>6, <1>7, <1>9, <1>10, <1>11, <1>12 DEF Next

\* add_temp_key, remove_temp_key and prune_expired_keys: whatever the order of
\* registrations, removals, replacements and checks, a key belongs to a device
\* its identity still has, and the queue will expire it.
THEOREM KeysAreTemporary == Spec => []KeysLeave
<1>1. KInv => KeysLeave
  <2> SUFFICES ASSUME KInv PROVE KeysLeave
    OBVIOUS
  <2>1. ASSUME NEW data \in {reference, current}
        PROVE  /\ Range(data) \subseteq 0..now
               /\ \A i, j \in DOMAIN data : i < j => data[i] <= data[j]
    <3>1. Heap(data, now)
      BY DEF KInv, Types
    <3>2. DOMAIN data = 1..Len(data)
      BY <3>1, LenProperties DEF Heap
    <3> QED
      BY <3>1, <3>2 DEF Heap, Range
  <2>2. {referencePruned, currentPruned} \subseteq {Unknown} \cup 0..now
    BY DEF KInv, Types, Pruned
  <2>3. TypeOK
    BY <2>1, <2>2 DEF TypeOK, KInv, IInv, Typed, Types, KeysInv
  <2> QED
    BY <2>3 DEF KeysLeave, KInv, KeysInv
<1> QED
  BY <1>1, InitEstablishesKeys, NextPreservesKeys, PTL DEF Spec

=============================================================================
