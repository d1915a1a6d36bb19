-------------------------- MODULE StatisticsProofs --------------------------
(***************************************************************************)
(* Proofs about MCStatistics: the running totals of the events             *)
(* (EventStats), and the periods of the activity statistics                *)
(* (ActivityStats), for all events, keys, anchors, limits and lengths of   *)
(* the periods.                                                            *)
(***************************************************************************)
EXTENDS MCStatistics, IntegerLemmas, FiniteSetTheorems, SequenceTheorems, TLAPS

-----------------------------------------------------------------------------
(***************************************************************************)
(* Sums over finite sets.  MapThenSumSet is a recursive function on the    *)
(* subsets of a set; that there is one, and that it does not depend on the *)
(* order in which the members are chosen, is by induction on how many      *)
(* members there are.                                                      *)
(***************************************************************************)

SumOf(f, S) == MapThenSumSet(LAMBDA k : f[k], S)
One(s) == CHOOSE x \in s : TRUE
SumsUp(f, S, g) ==
    g = [s \in SUBSET S |-> IF s = {} THEN 0 ELSE f[One(s)] + g[s \ {One(s)}]]

LEMMA OneIsIn == ASSUME NEW s, s # {} PROVE One(s) \in s
  BY DEF One

LEMMA FewerWithoutOne ==
    ASSUME NEW s, IsFiniteSet(s), s # {}
    PROVE  /\ Cardinality(s) \in Nat \ {0}
           /\ IsFiniteSet(s \ {One(s)})
           /\ Cardinality(s \ {One(s)}) = Cardinality(s) - 1
  BY OneIsIn, FS_RemoveElement, FS_CardinalityType, FS_EmptySet

\* There is a function that sums up, for a set that is finite.
LEMMA SumExists ==
    ASSUME NEW f, NEW S, IsFiniteSet(S)
    PROVE  \E g : SumsUp(f, S, g)
<1> DEFINE Right(g, s) == g[s] = IF s = {} THEN 0 ELSE f[One(s)] + g[s \ {One(s)}]
           B == {n \in Nat : \E g : \A s \in SUBSET S : Cardinality(s) <= n => Right(g, s)}
<1>1. \A s \in SUBSET S : IsFiniteSet(s) /\ Cardinality(s) \in Nat
  BY FS_Subset, FS_CardinalityType
<1>2. 0 \in B
  <2>1. \A s \in SUBSET S : Cardinality(s) <= 0 => s = {}
    BY <1>1, FS_EmptySet
  <2>2. \A s \in SUBSET S : Cardinality(s) <= 0 => Right([t \in SUBSET S |-> 0], s)
    BY <2>1
  <2> QED
    BY <2>2
<1>3. ASSUME NEW n \in Nat, n \in B PROVE n + 1 \in B
  <2>1. PICK g : \A s \in SUBSET S : Cardinality(s) <= n => Right(g, s)
    BY <1>3
  <2> DEFINE h == [s \in SUBSET S |-> IF s = {} THEN 0 ELSE f[One(s)] + g[s \ {One(s)}]]
  <2>2. ASSUME NEW s \in SUBSET S, Cardinality(s) <= n + 1 PROVE Right(h, s)
    <3>1. CASE s = {}
      BY <3>1
    <3>2. CASE s # {}
      <4> DEFINE t == s \ {One(s)}
      <4>1. t \in SUBSET S /\ Cardinality(t) <= n
        BY <1>1, <2>2, <3>2, FewerWithoutOne
      <4>2. Right(g, t)
        BY <2>1, <4>1
      <4>3. h[t] = IF t = {} THEN 0 ELSE f[One(t)] + g[t \ {One(t)}]
        BY <4>1
      <4>4. h[t] = g[t]
        BY <4>2, <4>3
      <4>5. h[s] = f[One(s)] + g[t]
        BY <3>2
      <4> QED
        BY <3>2, <4>4, <4>5
    <3> QED
      BY <3>1, <3>2
  <2>3. \A s \in SUBSET S : Cardinality(s) <= n + 1 => Right(h, s)
    BY <2>2
  <2> HIDE DEF h
  <2> QED
    BY <2>3
<1> HIDE DEF B
<1>4. Cardinality(S) \in B
  <2>1. B \in SUBSET Nat
    BY DEF B
  <2> QED
    BY <1>2, <1>3, <2>1, FS_CardinalityType, NatInd
<1>5. PICK g : \A s \in SUBSET S : Cardinality(s) <= Cardinality(S) => Right(g, s)
  BY <1>4 DEF B
<1>6. \A s \in SUBSET S : Right(g, s)
  BY <1>5, FS_Subset
<1> DEFINE h == [s \in SUBSET S |-> g[s]]
<1>7. \A s \in SUBSET S : s \ {One(s)} \in SUBSET S
  OBVIOUS
<1>8. SumsUp(f, S, h)
  BY <1>6, <1>7 DEF SumsUp
<1> QED
  BY <1>8

\* It is the only one, also on the subsets of a set.
LEMMA SumIsUnique ==
    ASSUME NEW f, NEW S, IsFiniteSet(S), NEW T \in SUBSET S,
           NEW g, SumsUp(f, S, g), NEW h, SumsUp(f, T, h)
    PROVE  g[T] = h[T]
<1> DEFINE B == {n \in Nat : \A s \in SUBSET T : Cardinality(s) <= n => g[s] = h[s]}
<1>1. \A s \in SUBSET T : IsFiniteSet(s) /\ Cardinality(s) \in Nat
  BY FS_Subset, FS_CardinalityType
<1>2. /\ \A s \in SUBSET S : g[s] = IF s = {} THEN 0 ELSE f[One(s)] + g[s \ {One(s)}]
      /\ \A s \in SUBSET T : h[s] = IF s = {} THEN 0 ELSE f[One(s)] + h[s \ {One(s)}]
  BY DEF SumsUp
<1>3. 0 \in B
  <2>1. \A s \in SUBSET T : Cardinality(s) <= 0 => s = {}
    BY <1>1, FS_EmptySet
  <2>2. g[{}] = 0 /\ h[{}] = 0
    BY <1>2
  <2> QED
    BY <2>1, <2>2
<1>4. ASSUME NEW n \in Nat, n \in B PROVE n + 1 \in B
  <2>1. ASSUME NEW s \in SUBSET T, Cardinality(s) <= n + 1 PROVE g[s] = h[s]
    <3>1. CASE s = {}
      BY <1>2, <3>1
    <3>2. CASE s # {}
      <4>1. s \ {One(s)} \in SUBSET T /\ Cardinality(s \ {One(s)}) <= n
        BY <1>1, <2>1, <3>2, FewerWithoutOne
      <4>2. g[s \ {One(s)}] = h[s \ {One(s)}]
        BY <1>4, <4>1
      <4>3. s \in SUBSET S
        OBVIOUS
      <4> QED
        BY <1>2, <3>2, <4>2, <4>3
    <3> QED
      BY <3>1, <3>2
  <2> QED
    BY <2>1
<1> HIDE DEF B
<1>5. B \in SUBSET Nat
  BY DEF B
<1>6. Cardinality(T) \in B
  BY <1>1, <1>3, <1>4, <1>5, NatInd
<1>7. Cardinality(T) <= Cardinality(T)
  BY <1>1
<1> QED
  BY <1>6, <1>7 DEF B

LEMMA SumIsIt ==
    ASSUME NEW f, NEW S, IsFiniteSet(S), NEW g, SumsUp(f, S, g)
    PROVE  SumOf(f, S) = g[S]
<1> DEFINE h == CHOOSE i : SumsUp(f, S, i)
<1>1. SumsUp(f, S, h)
  OBVIOUS
<1>2. SumOf(f, S) = h[S]
  BY DEF SumOf, SumsUp, One, MapThenSumSet, MapThenFoldSet
<1> HIDE DEF h
<1>3. S \in SUBSET S
  OBVIOUS
<1> QED
  BY <1>1, <1>2, <1>3, SumIsUnique

LEMMA SumEmpty == ASSUME NEW f PROVE SumOf(f, {}) = 0
<1>1. IsFiniteSet({})
  BY FS_EmptySet
<1>2. PICK g : SumsUp(f, {}, g)
  BY <1>1, SumExists
<1> QED
  BY <1>1, <1>2, SumIsIt, ZenonT(40) DEF SumsUp

LEMMA SumUnfolds ==
    ASSUME NEW f, NEW S, IsFiniteSet(S), S # {}
    PROVE  SumOf(f, S) = f[One(S)] + SumOf(f, S \ {One(S)})
<1> DEFINE T == S \ {One(S)}
<1>1. IsFiniteSet(T) /\ T \in SUBSET S
  BY FewerWithoutOne
<1>2. PICK g : SumsUp(f, S, g)
  BY SumExists
<1>3. PICK h : SumsUp(f, T, h)
  BY <1>1, SumExists
<1>4. g[T] = h[T]
  BY <1>1, <1>2, <1>3, SumIsUnique
<1>5. g[S] = f[One(S)] + g[T]
  BY <1>2 DEF SumsUp
<1> QED
  BY <1>1, <1>2, <1>3, <1>4, <1>5, SumIsIt

\* Sums of natural numbers are natural numbers.
LEMMA SumNat ==
    ASSUME NEW S, IsFiniteSet(S), NEW f, \A x \in S : f[x] \in Nat
    PROVE  SumOf(f, S) \in Nat
<1> DEFINE B == {n \in Nat : \A s \in SUBSET S : Cardinality(s) <= n => SumOf(f, s) \in Nat}
<1>1. \A s \in SUBSET S : IsFiniteSet(s) /\ Cardinality(s) \in Nat
  BY FS_Subset, FS_CardinalityType
<1>2. 0 \in B
  BY <1>1, FS_EmptySet, SumEmpty
<1>3. ASSUME NEW n \in Nat, n \in B PROVE n + 1 \in B
  <2>1. ASSUME NEW s \in SUBSET S, Cardinality(s) <= n + 1, s # {} PROVE SumOf(f, s) \in Nat
    <3>1. s \ {One(s)} \in SUBSET S /\ Cardinality(s \ {One(s)}) <= n
      BY <1>1, <2>1, FewerWithoutOne
    <3>2. SumOf(f, s \ {One(s)}) \in Nat
      BY <1>3, <3>1
    <3>3. f[One(s)] \in Nat
      BY <2>1, OneIsIn
    <3>4. SumOf(f, s) = f[One(s)] + SumOf(f, s \ {One(s)})
      BY <1>1, <2>1, SumUnfolds
    <3> QED
      BY <3>2, <3>3, <3>4
  <2> QED
    BY <2>1, SumEmpty
<1> HIDE DEF B
<1>4. B \in SUBSET Nat
  BY DEF B
<1>5. Cardinality(S) \in B
  BY <1>1, <1>2, <1>3, <1>4, NatInd
<1>6. Cardinality(S) <= Cardinality(S)
  BY <1>1
<1> QED
  BY <1>5, <1>6 DEF B

\* A member adds what it stands for, in whatever order they are summed up.
LEMMA SumAdds ==
    ASSUME NEW S, IsFiniteSet(S), NEW f, \A x \in S : f[x] \in Nat
    PROVE  \A s \in SUBSET S : \A x \in S \ s : SumOf(f, s \cup {x}) = f[x] + SumOf(f, s)
<1> DEFINE B == {n \in Nat : \A s \in SUBSET S : \A x \in S \ s :
                    Cardinality(s) <= n => SumOf(f, s \cup {x}) = f[x] + SumOf(f, s)}
<1>1. \A s \in SUBSET S : IsFiniteSet(s) /\ Cardinality(s) \in Nat /\ SumOf(f, s) \in Nat
  <2> SUFFICES ASSUME NEW s \in SUBSET S
               PROVE  IsFiniteSet(s) /\ Cardinality(s) \in Nat /\ SumOf(f, s) \in Nat
    OBVIOUS
  <2>1. IsFiniteSet(s) /\ \A x \in s : f[x] \in Nat
    BY FS_Subset
  <2> QED
    BY <2>1, FS_CardinalityType, SumNat
<1>2. ASSUME NEW s \in SUBSET S, NEW x \in S \ s,
             \A t \in SUBSET S : \A y \in S \ t :
                Cardinality(t) < Cardinality(s) => SumOf(f, t \cup {y}) = f[y] + SumOf(f, t)
      PROVE  SumOf(f, s \cup {x}) = f[x] + SumOf(f, s)
  <2> DEFINE t == s \cup {x}
             c == One(t)
  <2>1. t # {} /\ t \in SUBSET S /\ c \in t /\ IsFiniteSet(t)
    BY <1>1, OneIsIn
  <2>2. SumOf(f, t) = f[c] + SumOf(f, t \ {c})
    BY <2>1, SumUnfolds
  <2>3. CASE c = x
    BY <2>2, <2>3
  <2>4. CASE c # x
    <3> DEFINE r == s \ {c}
    <3>1. c \in s /\ r \in SUBSET S /\ t \ {c} = r \cup {x} /\ s = r \cup {c}
          /\ x \in S \ r /\ c \in S \ r /\ r = s \ {c}
      BY <2>1, <2>4
    <3>0. SumOf(f, t) = f[c] + SumOf(f, r \cup {x})
      BY <2>2, <3>1
    <3> HIDE DEF r, c, t
    <3>2. Cardinality(r) < Cardinality(s)
      <4>1. IsFiniteSet(s) /\ Cardinality(s) \in Nat
        BY <1>1
      <4>2. Cardinality(s \ {c}) = Cardinality(s) - 1
        BY <3>1, <4>1, FS_RemoveElement
      <4> QED
        BY <3>1, <4>1, <4>2
    <3>3. SumOf(f, r \cup {x}) = f[x] + SumOf(f, r)
      BY <1>2, <3>1, <3>2
    <3>4. SumOf(f, r \cup {c}) = f[c] + SumOf(f, r)
      BY <1>2, <3>1, <3>2
    <3>5. SumOf(f, r) \in Nat /\ f[x] \in Nat /\ f[c] \in Nat
      BY <1>1, <3>1
    <3>6. SumOf(f, s) = f[c] + SumOf(f, r)
      BY <3>1, <3>4
    <3>7. SumOf(f, t) = f[x] + SumOf(f, s)
      BY <3>0, <3>3, <3>5, <3>6
    <3> QED
      BY <3>7 DEF t
  <2> QED
    BY <2>3, <2>4
<1>3. 0 \in B
  <2>1. \A t \in SUBSET S : ~(Cardinality(t) < 0)
    BY <1>1
  <2>2. ASSUME NEW s \in SUBSET S, NEW x \in S \ s, Cardinality(s) <= 0
        PROVE  SumOf(f, s \cup {x}) = f[x] + SumOf(f, s)
    BY <1>1, <1>2, <2>2
  <2> QED
    BY <2>2
<1>4. ASSUME NEW n \in Nat, n \in B PROVE n + 1 \in B
  <2>1. ASSUME NEW s \in SUBSET S, NEW x \in S \ s, Cardinality(s) <= n + 1
        PROVE  SumOf(f, s \cup {x}) = f[x] + SumOf(f, s)
    <3>1. \A t \in SUBSET S : Cardinality(t) < Cardinality(s) => Cardinality(t) <= n
      BY <1>1, <2>1
    <3>2. \A t \in SUBSET S : \A y \in S \ t :
             Cardinality(t) < Cardinality(s) => SumOf(f, t \cup {y}) = f[y] + SumOf(f, t)
      BY <1>4, <3>1
    <3> QED
      BY <1>2, <3>2
  <2> QED
    BY <2>1
<1> HIDE DEF B
<1>5. B \in SUBSET Nat
  BY DEF B
<1>6. \A n \in Nat : n \in B
  BY <1>3, <1>4, <1>5, NatInd
<1> SUFFICES ASSUME NEW s \in SUBSET S, NEW x \in S \ s
             PROVE  SumOf(f, s \cup {x}) = f[x] + SumOf(f, s)
  OBVIOUS
<1>7. Cardinality(s) \in B /\ Cardinality(s) <= Cardinality(s)
  BY <1>1, <1>6
<1> QED
  BY <1>7 DEF B

\* A sum is that of a part and that of the rest.
LEMMA SumSplits ==
    ASSUME NEW S, IsFiniteSet(S), NEW f, \A x \in S : f[x] \in Nat, NEW T \in SUBSET S
    PROVE  SumOf(f, S) = SumOf(f, T) + SumOf(f, S \ T)
<1> DEFINE B == {n \in Nat : \A s \in SUBSET T :
                    Cardinality(s) <= n => SumOf(f, S) = SumOf(f, s) + SumOf(f, S \ s)}
<1>1. \A s \in SUBSET S : IsFiniteSet(s) /\ Cardinality(s) \in Nat /\ SumOf(f, s) \in Nat
  <2> SUFFICES ASSUME NEW s \in SUBSET S
               PROVE  IsFiniteSet(s) /\ Cardinality(s) \in Nat /\ SumOf(f, s) \in Nat
    OBVIOUS
  <2>1. IsFiniteSet(s) /\ \A x \in s : f[x] \in Nat
    BY FS_Subset
  <2> QED
    BY <2>1, FS_CardinalityType, SumNat
<1>2. 0 \in B
  <2>1. ASSUME NEW s \in SUBSET T, Cardinality(s) <= 0 PROVE s = {}
    BY <1>1, <2>1, FS_EmptySet
  <2>2. SumOf(f, S) = SumOf(f, {}) + SumOf(f, S \ {})
    <3>1. S \ {} = S /\ SumOf(f, S) \in Nat
      BY <1>1
    <3> QED
      BY <3>1, SumEmpty
  <2> QED
    BY <2>1, <2>2
<1>3. ASSUME NEW n \in Nat, n \in B PROVE n + 1 \in B
  <2>1. ASSUME NEW s \in SUBSET T, Cardinality(s) <= n + 1
        PROVE  SumOf(f, S) = SumOf(f, s) + SumOf(f, S \ s)
    <3>1. CASE Cardinality(s) <= n
      BY <1>3, <3>1
    <3>2. CASE Cardinality(s) = n + 1
      <4>1. s # {} /\ IsFiniteSet(s)
        BY <1>1, <3>2, FS_EmptySet
      <4> DEFINE c == One(s)
                 r == s \ {c}
      <4>2. c \in s /\ Cardinality(r) <= n
        <5>1. Cardinality(r) = Cardinality(s) - 1
          BY <4>1, FewerWithoutOne
        <5> QED
          BY <3>2, <4>1, <5>1, OneIsIn
      <4>3. r \in SUBSET T /\ r \in SUBSET S /\ S \ s \in SUBSET S /\ s = r \cup {c}
            /\ c \in S \ r /\ c \in S \ (S \ s) /\ S \ r = (S \ s) \cup {c}
        BY <4>2
      <4> HIDE DEF r, c
      <4>4. SumOf(f, S) = SumOf(f, r) + SumOf(f, S \ r)
        BY <1>3, <4>2, <4>3
      <4>5. SumOf(f, r \cup {c}) = f[c] + SumOf(f, r)
        BY <4>3, SumAdds
      <4>6. SumOf(f, (S \ s) \cup {c}) = f[c] + SumOf(f, S \ s)
        BY <4>3, SumAdds
      <4>7. f[c] \in Nat /\ SumOf(f, r) \in Nat /\ SumOf(f, S \ s) \in Nat
        BY <1>1, <4>3
      <4>8. SumOf(f, s) = f[c] + SumOf(f, r) /\ SumOf(f, S \ r) = f[c] + SumOf(f, S \ s)
        BY <4>3, <4>5, <4>6
      <4> QED
        BY <4>4, <4>7, <4>8
    <3> QED
      BY <1>1, <2>1, <3>1, <3>2
  <2> QED
    BY <2>1
<1> HIDE DEF B
<1>4. B \in SUBSET Nat
  BY DEF B
<1>5. Cardinality(T) \in B /\ Cardinality(T) <= Cardinality(T)
  BY <1>1, <1>2, <1>3, <1>4, NatInd
<1> QED
  BY <1>5 DEF B

\* A sum depends on what the members stand for only.
LEMMA SumSame ==
    ASSUME NEW S, IsFiniteSet(S), NEW f, NEW g, \A x \in S : f[x] = g[x]
    PROVE  SumOf(f, S) = SumOf(g, S)
<1>1. PICK h : SumsUp(f, S, h)
  BY SumExists
<1>2. \A s \in SUBSET S : s # {} => f[One(s)] = g[One(s)]
  BY OneIsIn
<1>3. SumsUp(g, S, h)
  BY <1>1, <1>2 DEF SumsUp
<1> QED
  BY <1>1, <1>3, SumIsIt

-----------------------------------------------------------------------------
(***************************************************************************)
(* What events add to the totals.                                          *)
(***************************************************************************)

Evs == Delegations \cup {Event!PruneEvent}

\* The total weight of some events, by what they are.
TotalOf(evs, key, K) == SumOf([k \in K |-> Event!WeightIn(key, evs[k])], K)

LEMMA TotalIsSum ==
    ASSUME NEW evs, NEW key, NEW K, IsFiniteSet(K)
    PROVE  MapThenSumSet(LAMBDA k : Event!WeightIn(key, evs[k]), K) = TotalOf(evs, key, K)
<1> DEFINE f == [k \in K |-> Event!WeightIn(key, evs[k])]
           h == CHOOSE g : g = [s \in SUBSET K |->
                   IF s = {} THEN 0
                   ELSE Event!WeightIn(key, evs[CHOOSE x \in s : TRUE]) + g[s \ {CHOOSE x \in s : TRUE}]]
<1>1. PICK g : SumsUp(f, K, g)
  BY SumExists
<1>2. \A s \in SUBSET K : s # {} => f[One(s)] = Event!WeightIn(key, evs[One(s)])
  BY OneIsIn
<1>3. g = [s \in SUBSET K |->
              IF s = {} THEN 0
              ELSE Event!WeightIn(key, evs[CHOOSE x \in s : TRUE]) + g[s \ {CHOOSE x \in s : TRUE}]]
  BY <1>1, <1>2 DEF SumsUp, One
<1>4. h = [s \in SUBSET K |->
              IF s = {} THEN 0
              ELSE Event!WeightIn(key, evs[CHOOSE x \in s : TRUE]) + h[s \ {CHOOSE x \in s : TRUE}]]
  BY <1>3
<1>5. MapThenSumSet(LAMBDA k : Event!WeightIn(key, evs[k]), K) = h[K]
  BY DEF MapThenSumSet, MapThenFoldSet
<1> HIDE DEF h
<1>6. SumsUp(f, K, h)
  BY <1>2, <1>4 DEF SumsUp, One
<1> HIDE DEF f
<1>7. SumOf(f, K) = h[K]
  BY <1>6, SumIsIt
<1> QED
  BY <1>5, <1>7 DEF TotalOf, f

LEMMA WeightIsSum ==
    ASSUME NEW A, IsFiniteSet(A)
    PROVE  MapThenSumSet(LAMBDA a : a.weight, A) = SumOf([a \in A |-> a.weight], A)
<1> DEFINE f == [a \in A |-> a.weight]
           h == CHOOSE g : g = [s \in SUBSET A |->
                   IF s = {} THEN 0
                   ELSE (CHOOSE x \in s : TRUE).weight + g[s \ {CHOOSE x \in s : TRUE}]]
<1>1. PICK g : SumsUp(f, A, g)
  BY SumExists
<1>2. \A s \in SUBSET A : s # {} => f[One(s)] = One(s).weight
  BY OneIsIn
<1>3. g = [s \in SUBSET A |->
              IF s = {} THEN 0
              ELSE (CHOOSE x \in s : TRUE).weight + g[s \ {CHOOSE x \in s : TRUE}]]
  BY <1>1, <1>2 DEF SumsUp, One
<1>4. h = [s \in SUBSET A |->
              IF s = {} THEN 0
              ELSE (CHOOSE x \in s : TRUE).weight + h[s \ {CHOOSE x \in s : TRUE}]]
  BY <1>3
<1>5. MapThenSumSet(LAMBDA a : a.weight, A) = h[A]
  BY DEF MapThenSumSet, MapThenFoldSet
<1> HIDE DEF h
<1>6. SumsUp(f, A, h)
  BY <1>2, <1>4 DEF SumsUp, One
<1> HIDE DEF f
<1>7. SumOf(f, A) = h[A]
  BY <1>6, SumIsIt
<1> QED
  BY <1>5, <1>7 DEF f

\* What an event adds to a window is finite, and to keys of that window.
LEMMA ProcessFact ==
    ASSUME Event!EventStatsAssumption, NEW window \in Event!Range(Event!Windows),
           NEW event \in Evs
    PROVE  /\ IsFiniteSet(Event!ProcessEvent(window, event))
           /\ \A a \in Event!ProcessEvent(window, event) :
                 a.weight \in Nat /\ a.key \in Event!AggregationKeys /\ a.key.window = window
<1>1. \A x : IsFiniteSet({x})
  BY FS_Singleton
<1>2. IsFiniteSet({})
  BY FS_EmptySet
<1>3. /\ IsFiniteSet(Event!CountOf(window, event))
      /\ IsFiniteSet(Event!SessionSecondsOf(window, event))
      /\ IsFiniteSet(Event!PruneCountOf(window, event))
  BY <1>1, <1>2 DEF Event!CountOf, Event!SessionSecondsOf, Event!PruneCountOf,
                    Event!PrepareDelegationAggregation
<1>4. IsFiniteSet(Event!ProcessEvent(window, event))
  BY <1>3, FS_Union DEF Event!ProcessEvent
<1>5. "PrepareDelegationCount" \in Event!Range(Event!Kinds)
      /\ "PrepareDelegationSessionSeconds" \in Event!Range(Event!Kinds)
      /\ "PruneEventCount" \in Event!Range(Event!Kinds)
  <2>1. DOMAIN Event!Kinds = 1..3 /\ 1 \in 1..3 /\ 2 \in 1..3 /\ 3 \in 1..3
    BY DEF Event!Kinds
  <2> QED
    BY <2>1 DEF Event!Range, Event!Kinds
<1>6. "None" \in Event!Domains
  BY DEF Event!Domains
<1>7. event # Event!PruneEvent =>
         event.domain \in Event!Domains /\ event.frontend \in Hostnames /\ event.seconds \in Nat
  BY DEF Evs, Event!EventStatsAssumption
<1>8. \A a \in Event!ProcessEvent(window, event) :
         a.weight \in Nat /\ a.key \in Event!AggregationKeys /\ a.key.window = window
  BY <1>5, <1>6, <1>7 DEF Event!ProcessEvent, Event!CountOf, Event!SessionSecondsOf,
     Event!PruneCountOf, Event!PrepareDelegationAggregation, Event!AggregationKeys
<1> QED
  BY <1>4, <1>8

LEMMA WeightFact ==
    ASSUME Event!EventStatsAssumption, NEW key \in Event!AggregationKeys, NEW event \in Evs
    PROVE  /\ Event!WeightIn(key, event) \in Nat
           /\ key \notin Event!Changed(key.window, event) => Event!WeightIn(key, event) = 0
<1> DEFINE A == {a \in Event!ProcessEvent(key.window, event) : a.key = key}
<1>0. key.window \in Event!Range(Event!Windows)
  BY DEF Event!AggregationKeys
<1>1. IsFiniteSet(A) /\ \A a \in A : a.weight \in Nat
  BY <1>0, ProcessFact, FS_Subset
<1>2. Event!WeightIn(key, event) = MapThenSumSet(LAMBDA a : a.weight, A)
  BY DEF Event!WeightIn, Event!MapThenSumSet, Event!MapThenFoldSet, MapThenSumSet,
         MapThenFoldSet
<1>3. key \notin Event!Changed(key.window, event) => A = {}
  BY DEF Event!Changed
<1> HIDE DEF A
<1>4. Event!WeightIn(key, event) = SumOf([a \in A |-> a.weight], A)
  BY <1>1, <1>2, WeightIsSum
<1>5. SumOf([a \in A |-> a.weight], A) \in Nat
  BY <1>1, SumNat
<1> QED
  BY <1>3, <1>4, <1>5, SumEmpty

-----------------------------------------------------------------------------
(***************************************************************************)
(* Keys and windows.                                                       *)
(***************************************************************************)

LEMMA Quotient ==
    ASSUME NEW k \in Nat, NEW w \in Nat \ {0}
    PROVE  \E q, r \in Nat : q = k \div w /\ k = q * w + r /\ r < w
  OBVIOUS

LEMMA Monotone ==
    ASSUME NEW a \in Int, NEW b \in Int, NEW w \in Nat
    PROVE  a <= b => a * w <= b * w
  OBVIOUS

\* The keys of a time are between its least and its greatest one.
LEMMA KeyOrder ==
    ASSUME Event!EventStatsAssumption, NEW k \in Nat, NEW t \in Int
    PROVE  /\ Event!TimeOf(k) \in Nat
           /\ k <= Event!MaxKey(t) <=> Event!TimeOf(k) <= t
           /\ Event!MinKey(t) <= k <=> t <= Event!TimeOf(k)
<1> DEFINE w == CounterMax + 1
<1>1. w \in Nat \ {0} /\ CounterMax = w - 1
  BY DEF Event!EventStatsAssumption
<1> HIDE DEF w
<1>2. PICK q \in Nat, r \in Nat : q = k \div w /\ k = q * w + r /\ r < w
  BY <1>1, Quotient
<1>3. /\ Event!TimeOf(k) = q
      /\ Event!MaxKey(t) = t * w + (w - 1)
      /\ Event!MinKey(t) = t * w
  <2>1. CounterMax + 1 = w
    BY DEF w
  <2>2. t * w + 0 = t * w
    BY <1>1
  <2> QED
    BY <1>1, <1>2, <2>1, <2>2 DEF Event!TimeOf, Event!MaxKey, Event!MinKey, Event!KeyOf
<1>4. ASSUME q <= t PROVE q * w <= t * w
  BY <1>1, <1>4, Monotone
<1>5. ASSUME ~(q <= t) PROVE t * w + w <= q * w
  <2>1. (t + 1) * w <= q * w
    BY <1>1, <1>5, Monotone
  <2>2. (t + 1) * w = t * w + w
    BY <1>1
  <2> QED
    BY <2>1, <2>2
<1>6. ASSUME t <= q PROVE t * w <= q * w
  BY <1>1, <1>6, Monotone
<1>7. ASSUME ~(t <= q) PROVE q * w + w <= t * w
  <2>1. (q + 1) * w <= t * w
    BY <1>1, <1>7, Monotone
  <2>2. (q + 1) * w = q * w + w
    BY <1>1
  <2> QED
    BY <2>1, <2>2
<1> DEFINE qw == q * w
           tw == t * w
<1>8. qw \in Int /\ tw \in Int
  BY <1>1
<1>9. /\ k = qw + r
      /\ Event!MaxKey(t) = tw + (w - 1) /\ Event!MinKey(t) = tw
      /\ q <= t => qw <= tw
      /\ ~(q <= t) => tw + w <= qw
      /\ t <= q => tw <= qw
      /\ ~(t <= q) => qw + w <= tw
  BY <1>2, <1>3, <1>4, <1>5, <1>6, <1>7
<1> HIDE DEF qw, tw
<1> QED
  BY <1>1, <1>2, <1>3, <1>8, <1>9

LEMMA KeyTime ==
    ASSUME Event!EventStatsAssumption, NEW t \in Nat, NEW c \in 0..CounterMax
    PROVE  /\ Event!KeyOf(t, c) \in Nat
           /\ Event!TimeOf(Event!KeyOf(t, c)) = t
<1>1. CounterMax \in Nat
  BY DEF Event!EventStatsAssumption
<1>2. Event!KeyOf(t, c) \in Nat
  BY <1>1 DEF Event!KeyOf
<1>3. Event!MinKey(t) <= Event!KeyOf(t, c) /\ Event!KeyOf(t, c) <= Event!MaxKey(t)
  BY <1>1 DEF Event!MinKey, Event!MaxKey, Event!KeyOf
<1> QED
  BY <1>2, <1>3, KeyOrder

LEMMA SameCardinality ==
    ASSUME NEW S PROVE Event!Cardinality(S) = Cardinality(S)
BY DEF Event!Cardinality, Cardinality

Smaller(K, k) == {j \in K : j < k}

\* The first ones are a beginning: all there are, or as many as one call may.
LEMMA FirstOnesFact ==
    ASSUME Event!EventStatsAssumption, NEW K \in SUBSET Nat, IsFiniteSet(K)
    PROVE  /\ Event!FirstOnes(K) \subseteq K
           /\ IsFiniteSet(Event!FirstOnes(K))
           /\ \A k \in Event!FirstOnes(K), j \in K : j < k => j \in Event!FirstOnes(K)
           /\ \/ Event!FirstOnes(K) = K
              \/ Cardinality(Event!FirstOnes(K)) >= MaxToProcess
           /\ K # {} => Event!FirstOnes(K) # {}
<1> DEFINE F == Event!FirstOnes(K)
<1>0. MaxToProcess \in Nat \ {0}
  BY DEF Event!EventStatsAssumption
<1>1. /\ F = {k \in K : Cardinality(Smaller(K, k)) < MaxToProcess}
      /\ F \subseteq K /\ IsFiniteSet(F)
  <2>1. F = {k \in K : Cardinality(Smaller(K, k)) < MaxToProcess}
    BY SameCardinality DEF Event!FirstOnes, Smaller
  <2>2. F \in SUBSET K
    BY DEF Event!FirstOnes
  <2> QED
    BY <2>1, <2>2, FS_Subset
<1>2. \A k \in K : IsFiniteSet(Smaller(K, k)) /\ Cardinality(Smaller(K, k)) \in Nat
  <2> SUFFICES ASSUME NEW k \in K PROVE IsFiniteSet(Smaller(K, k)) /\ Cardinality(Smaller(K, k)) \in Nat
    OBVIOUS
  <2>1. Smaller(K, k) \in SUBSET K
    BY DEF Smaller
  <2> QED
    BY <2>1, FS_Subset, FS_CardinalityType
<1> HIDE DEF F
<1>3. ASSUME NEW k \in F, NEW j \in K, j < k PROVE j \in F
  <2>1. Smaller(K, j) \in SUBSET Smaller(K, k)
    <3>1. ASSUME NEW i \in Smaller(K, j) PROVE i \in Smaller(K, k)
      <4>1. i \in Nat /\ j \in Nat /\ k \in Nat /\ i \in K /\ i < j
        BY <1>1, <1>3 DEF Smaller
      <4>2. i < k
        BY <1>3, <4>1
      <4> QED
        BY <4>1, <4>2 DEF Smaller
    <3> QED
      BY <3>1
  <2>2. Cardinality(Smaller(K, j)) <= Cardinality(Smaller(K, k))
    BY <1>1, <1>2, <2>1, FS_Subset
  <2>3. Cardinality(Smaller(K, k)) < MaxToProcess
    BY <1>1
  <2> QED
    BY <1>0, <1>1, <1>2, <1>3, <2>2, <2>3
<1>4. ASSUME F # K PROVE Cardinality(F) >= MaxToProcess
  <2> DEFINE m == Min(K \ F)
  <2>1. m \in K \ F /\ \A j \in K \ F : m <= j
    BY <1>1, <1>4, MinNat
  <2> HIDE DEF m
  <2>2. Smaller(K, m) \in SUBSET F
    <3>1. ASSUME NEW i \in Smaller(K, m) PROVE i \in F
      <4>1. i \in Nat /\ m \in Nat /\ i \in K /\ i < m
        BY <2>1 DEF Smaller
      <4>2. ~(m <= i)
        BY <4>1
      <4> QED
        BY <2>1, <4>1, <4>2
    <3> QED
      BY <3>1
  <2>3. Cardinality(Smaller(K, m)) <= Cardinality(F) /\ Cardinality(F) \in Nat
    BY <1>1, <2>2, FS_Subset, FS_CardinalityType
  <2>4. ~(Cardinality(Smaller(K, m)) < MaxToProcess)
    BY <1>1, <2>1
  <2> QED
    BY <1>0, <1>2, <2>1, <2>3, <2>4
<1>5. K # {} => F # {}
  BY <1>0, <1>4, FS_EmptySet
<1> QED
  BY <1>1, <1>3, <1>4, <1>5 DEF F

-----------------------------------------------------------------------------
(***************************************************************************)
(* The update of the totals.                                               *)
(***************************************************************************)

LEMMA MaxOfZero ==
    ASSUME NEW x \in Int
    PROVE  Event!Max({0, x}) = IF x < 0 THEN 0 ELSE x
<1> DEFINE v == IF x < 0 THEN 0 ELSE x
<1>1. v \in {0, x} /\ \A y \in {0, x} : v >= y
  OBVIOUS
<1>2. \A z \in {0, x} : (\A y \in {0, x} : z >= y) => z = v
  OBVIOUS
<1> HIDE DEF v
<1>3. Event!Max({0, x}) = v
  BY <1>1, <1>2 DEF Event!Max
<1> QED
  BY <1>3 DEF v

LEMMA UpdatedFact ==
    ASSUME NEW current \in Nat, NEW added \in Nat, NEW pruned \in Nat
    PROVE  /\ Event!Updated(current, added, pruned) \in Nat
           /\ pruned <= current => Event!Updated(current, added, pruned) = current - pruned + added
<1>1. current - (pruned - added) \in Int
  OBVIOUS
<1> QED
  BY <1>1, MaxOfZero DEF Event!Updated

GoodTotals(aggs) ==
    /\ DOMAIN aggs \subseteq Event!AggregationKeys
    /\ \A key \in DOMAIN aggs : aggs[key] \in Nat \ {0}

LEMMA UpdateFact ==
    ASSUME Event!EventStatsAssumption, NEW aggs, GoodTotals(aggs),
           NEW window \in Event!Range(Event!Windows), NEW event \in Evs, NEW pruned,
           \A key \in Event!AggregationKeys : Event!TotalWeight(key, pruned) \in Nat
    PROVE  /\ GoodTotals(Event!UpdateAggregations(aggs, window, event, pruned))
           /\ \A key \in Event!AggregationKeys :
                 Event!Stored(Event!UpdateAggregations(aggs, window, event, pruned), key)
                    = IF /\ key.window = window
                         /\ key \in DOMAIN aggs \cup Event!Changed(window, event)
                      THEN Event!Updated(Event!Stored(aggs, key), Event!WeightIn(key, event),
                                         Event!TotalWeight(key, pruned))
                      ELSE Event!Stored(aggs, key)
<1> DEFINE New(key) ==
               IF key.window # window THEN Event!Stored(aggs, key)
               ELSE Event!Updated(Event!Stored(aggs, key), Event!WeightIn(key, event),
                                  Event!TotalWeight(key, pruned))
           keys1 == DOMAIN aggs \cup Event!Changed(window, event)
           r == [key \in {key \in keys1 : New(key) > 0} |-> New(key)]
<1>1. Event!UpdateAggregations(aggs, window, event, pruned) = r
  BY DEF Event!UpdateAggregations, Event!Restrict
<1>2. keys1 \subseteq Event!AggregationKeys
  BY ProcessFact DEF Event!Changed, GoodTotals
<1>3. \A key \in Event!AggregationKeys : Event!Stored(aggs, key) \in Nat
  BY DEF Event!Stored, GoodTotals
<1>4. \A key \in Event!AggregationKeys : New(key) \in Nat
  BY <1>3, UpdatedFact, WeightFact
<1> HIDE DEF New, keys1
<1>5. GoodTotals(r)
  BY <1>2, <1>4 DEF GoodTotals
<1>6. ASSUME NEW key \in Event!AggregationKeys
      PROVE  Event!Stored(r, key)
                = IF key.window = window /\ key \in keys1
                  THEN Event!Updated(Event!Stored(aggs, key), Event!WeightIn(key, event),
                                     Event!TotalWeight(key, pruned))
                  ELSE Event!Stored(aggs, key)
  <2>1. Event!Stored(r, key) = IF key \in keys1 /\ New(key) > 0 THEN New(key) ELSE 0
    BY DEF Event!Stored
  <2>2. key \in keys1 => Event!Stored(r, key) = New(key)
    BY <1>4, <2>1
  <2>3. key \notin keys1 => Event!Stored(aggs, key) = 0
    BY DEF keys1, Event!Stored
  <2> QED
    BY <2>1, <2>2, <2>3 DEF New
<1> QED
  BY <1>1, <1>5, <1>6 DEF keys1

-----------------------------------------------------------------------------
(***************************************************************************)
(* The inductive invariant of the events.                                  *)
(*                                                                         *)
(* As long as the start of the day is not known, all events are within a   *)
(* day of each other, so that the start that is then computed from the     *)
(* last one is before them all.                                            *)
(***************************************************************************)

\* What DOMAIN eventData is like.
KeysInv ==
    /\ IsFiniteSet(DOMAIN eventData)
    /\ \A k \in DOMAIN eventData :
          /\ k \in Nat /\ Retention <= Event!TimeOf(k) /\ Event!TimeOf(k) <= now
          /\ eventData[k] \in Evs
    /\ \/ windowStart = Event!NoKey
       \/ windowStart \in Nat /\ windowStart <= Event!MinKey(now)
    /\ counter \in 0..CounterMax
    /\ now \in Nat /\ Retention <= now
    /\ windowStart = Event!NoKey =>
          \A j, k \in DOMAIN eventData : Event!TimeOf(j) - Event!TimeOf(k) < Day

SumsInv ==
    \A key \in Event!AggregationKeys :
        Event!Stored(aggregations, key)
            = TotalOf(eventData, key,
                      IF key.window = "Day" THEN Event!InDay ELSE DOMAIN eventData)

EventsInv == KeysInv /\ GoodTotals(aggregations) /\ SumsInv

LEMMA MaxKeyBefore ==
    ASSUME Event!EventStatsAssumption, NEW t \in Int, NEW u \in Int, t < u
    PROVE  Event!MaxKey(t) \in Int /\ Event!MinKey(u) \in Int /\ Event!MaxKey(t) < Event!MinKey(u)
<1> DEFINE w == CounterMax + 1
<1>1. w \in Nat /\ CounterMax = w - 1 /\ t + 1 \in Int
  BY DEF Event!EventStatsAssumption
<1> HIDE DEF w
<1>2. (t + 1) * w <= u * w
  BY <1>1, Monotone
<1>3. (t + 1) * w = t * w + w /\ t * w \in Int /\ u * w \in Int
  BY <1>1
<1>4. Event!MaxKey(t) = t * w + (w - 1) /\ Event!MinKey(u) = u * w
  <2>1. CounterMax + 1 = w
    BY DEF w
  <2>2. u * w + 0 = u * w
    BY <1>1
  <2> QED
    BY <1>1, <2>1, <2>2 DEF Event!MaxKey, Event!MinKey, Event!KeyOf
<1> DEFINE tw == t * w
           uw == u * w
<1>5. tw \in Int /\ uw \in Int /\ tw + w <= uw
      /\ Event!MaxKey(t) = tw + (w - 1) /\ Event!MinKey(u) = uw
  BY <1>2, <1>3, <1>4
<1> HIDE DEF tw, uw
<1> QED
  BY <1>1, <1>5

LEMMA GreatestEvent ==
    ASSUME NEW K \in SUBSET Nat, K # {}, NEW n \in Int, \A k \in K : k <= n
    PROVE  Event!Max(K) \in K /\ \A k \in K : k <= Event!Max(K)
<1>1. K \subseteq 0..n
  OBVIOUS
<1>2. Max(K) \in K /\ \A k \in K : k <= Max(K)
  BY <1>1, MaxNat
<1> QED
  BY <1>2 DEF Event!Max, Max

\* The events of the day that are over.
Over == {k \in Event!InDay : k <= Event!MaxKey(now - Day)}

LEMMA NewKeyFact ==
    ASSUME Event!EventStatsAssumption, KeysInv
    PROVE  /\ Event!NewKey \in Nat /\ Event!TimeOf(Event!NewKey) = now
           /\ Event!MinKey(now) <= Event!NewKey
<1>1. Event!NewKey \in Nat /\ Event!TimeOf(Event!NewKey) = now
  BY KeyTime DEF KeysInv, Event!NewKey
<1>2. now \in Int /\ now <= Event!TimeOf(Event!NewKey)
  BY <1>1 DEF KeysInv
<1> QED
  BY <1>1, <1>2, KeyOrder

LEMMA RemovedFromDayIs ==
    ASSUME Event!EventStatsAssumption, KeysInv
    PROVE  Event!RemovedFromDay(Event!NewKey) = Event!FirstOnes(Over)
<1> DEFINE key == Event!NewKey
           before == {k \in DOMAIN eventData : k < key}
<1>0. /\ Day \in Nat \ {0} /\ Retention \in Nat /\ Day < Retention /\ now \in Nat
      /\ now - Day \in Int /\ Event!NoKey = -1
      /\ key \in Nat /\ Event!TimeOf(key) = now
  BY NewKeyFact DEF Event!EventStatsAssumption, KeysInv, Event!NoKey
<1>1. CASE windowStart # Event!NoKey
  <2>1. Event!WindowStart(key) = windowStart
    BY <1>1 DEF Event!WindowStart
  <2>2. Over = {k \in DOMAIN eventData : windowStart <= k /\ k <= Event!MaxKey(now - Day)}
    BY <1>1 DEF Over, Event!InDay, KeysInv
  <2> QED
    BY <1>1, <2>1, <2>2 DEF Event!RemovedFromDay
<1>2. CASE windowStart = Event!NoKey /\ before = {}
  <2>1. Event!WindowStart(key) = Event!NoKey
    BY <1>2 DEF Event!WindowStart
  <2>2. ASSUME NEW k \in Over PROVE FALSE
    <3>1. k \in Nat /\ ~(k < key) /\ k <= Event!MaxKey(now - Day)
      BY <1>2 DEF Over, Event!InDay, KeysInv
    <3>2. Event!TimeOf(k) <= now - Day /\ Event!TimeOf(k) \in Nat
      BY <1>0, <3>1, KeyOrder
    <3>3. Event!MinKey(now) <= key /\ Event!MinKey(now) \in Int
      <4>1. now - 1 \in Int /\ now \in Int /\ now - 1 < now
        BY <1>0
      <4> QED
        BY <4>1, NewKeyFact, MaxKeyBefore
    <3>4. Event!MinKey(now) <= k
      BY <1>0, <3>1, <3>3
    <3>5. now <= Event!TimeOf(k)
      BY <1>0, <3>1, <3>4, KeyOrder
    <3> QED
      BY <1>0, <3>2, <3>5
  <2>3. Over = {}
    BY <2>2
  <2>4. Event!FirstOnes({}) = {}
    BY DEF Event!FirstOnes
  <2> QED
    BY <2>1, <2>3, <2>4 DEF Event!RemovedFromDay
<1>3. CASE windowStart = Event!NoKey /\ before # {}
  <2> DEFINE b == Event!Max(before)
             start == Event!MinKey(Event!TimeOf(b) - Day)
  <2>1. before \in SUBSET Nat /\ before # {} /\ key \in Int /\ \A k \in before : k <= key
    BY <1>0, <1>3 DEF KeysInv
  <2>3. Event!WindowStart(key) = start
    BY <1>3 DEF Event!WindowStart
  <2>0. before \subseteq DOMAIN eventData
    OBVIOUS
  <2> HIDE DEF before, key
  <2>2. b \in before
    BY <2>1, GreatestEvent
  <2> HIDE DEF b
  <2>4. b \in DOMAIN eventData /\ Event!TimeOf(b) \in Nat /\ Retention <= Event!TimeOf(b)
    BY <2>0, <2>1, <2>2, KeyOrder DEF KeysInv
  <2>5. start # Event!NoKey
    <3>1. 0 <= Event!TimeOf(b) - Day /\ Event!TimeOf(b) - Day \in Int
      BY <1>0, <2>4
    <3>2. CounterMax \in Nat
      BY DEF Event!EventStatsAssumption
    <3>3. Event!MinKey(Event!TimeOf(b) - Day) = (Event!TimeOf(b) - Day) * (CounterMax + 1) + 0
      BY DEF Event!MinKey, Event!KeyOf
    <3>4. 0 * (CounterMax + 1) <= (Event!TimeOf(b) - Day) * (CounterMax + 1)
      BY <3>1, <3>2, Monotone
    <3> DEFINE tw == (Event!TimeOf(b) - Day) * (CounterMax + 1)
    <3>5. tw \in Int /\ 0 <= tw /\ start = tw + 0
      BY <3>1, <3>2, <3>3, <3>4
    <3> HIDE DEF tw
    <3> QED
      BY <1>0, <3>5
  <2>6. ASSUME NEW k \in DOMAIN eventData PROVE start <= k
    <3>1. k \in Nat /\ Event!TimeOf(k) \in Nat /\ Event!TimeOf(b) - Event!TimeOf(k) < Day
      BY <1>3, <2>4, KeyOrder DEF KeysInv
    <3>2. Event!TimeOf(b) - Day <= Event!TimeOf(k) /\ Event!TimeOf(b) - Day \in Int
      BY <1>0, <2>4, <3>1
    <3> QED
      BY <3>1, <3>2, KeyOrder
  <2>7. Over = {k \in DOMAIN eventData : start <= k /\ k <= Event!MaxKey(now - Day)}
    BY <1>3, <2>6 DEF Over, Event!InDay
  <2> HIDE DEF start
  <2> QED
    BY <2>3, <2>5, <2>7 DEF Event!RemovedFromDay, key
<1> QED
  BY <1>1, <1>2, <1>3


Late(start) ==
    {k \in DOMAIN eventData : start = Event!NoKey \/ k >= start}

\* The step of the window of a day: what is removed is what it no longer has.
LEMMA DayStep ==
    ASSUME Event!EventStatsAssumption, KeysInv, Event!NewKey \notin DOMAIN eventData
    PROVE  LET removed == Event!RemovedFromDay(Event!NewKey)
               start == Event!NextStart(removed)
           IN  /\ removed \subseteq Event!InDay /\ IsFiniteSet(removed)
               /\ Late(start) = Event!InDay \ removed
               /\ \/ start = Event!NoKey
                  \/ start \in Nat /\ start <= Event!MinKey(now)
               /\ start = Event!NoKey =>
                     /\ windowStart = Event!NoKey
                     /\ \A k \in DOMAIN eventData : now - Event!TimeOf(k) < Day
               /\ \/ \A k \in Event!InDay \ removed : Event!TimeOf(k) > now - Day
                  \/ Cardinality(removed) >= MaxToProcess
<1> DEFINE removed == Event!FirstOnes(Over)
           start == Event!NextStart(removed)
           end == Event!MaxKey(now - Day)
<1>0. /\ Day \in Nat \ {0} /\ now \in Nat /\ now - Day \in Int /\ now - Day < now
      /\ Event!NoKey = -1
      /\ IsFiniteSet(DOMAIN eventData) /\ \A k \in DOMAIN eventData : k \in Nat
      /\ windowStart = Event!NoKey \/ (windowStart \in Nat /\ windowStart <= Event!MinKey(now))
  BY DEF Event!EventStatsAssumption, KeysInv, Event!NoKey
<1>1. end \in Int /\ Event!MinKey(now) \in Int /\ end < Event!MinKey(now)
  BY <1>0, MaxKeyBefore
<1>2. /\ Over \in SUBSET Nat /\ Over \subseteq Event!InDay
      /\ Event!InDay \subseteq DOMAIN eventData
      /\ Over = {k \in Event!InDay : k <= end}
  BY <1>0 DEF Over, Event!InDay
<1>3. IsFiniteSet(Over)
  BY <1>0, <1>2, FS_Subset
<1>4. /\ removed \subseteq Over /\ IsFiniteSet(removed)
      /\ \A k \in removed, j \in Over : j < k => j \in removed
      /\ removed = Over \/ Cardinality(removed) >= MaxToProcess
      /\ Over # {} => removed # {}
  BY <1>2, <1>3, FirstOnesFact
<1>5. Event!InDay = Late(windowStart)
  BY DEF Event!InDay, Late
<1>6. \A k \in DOMAIN eventData :
         /\ Event!TimeOf(k) \in Nat
         /\ ~(k <= end) <=> Event!TimeOf(k) > now - Day
  <2> SUFFICES ASSUME NEW k \in DOMAIN eventData
               PROVE  /\ Event!TimeOf(k) \in Nat
                      /\ ~(k <= end) <=> Event!TimeOf(k) > now - Day
    OBVIOUS
  <2>1. k \in Nat
    BY <1>0
  <2>2. Event!TimeOf(k) \in Nat /\ (k <= end <=> Event!TimeOf(k) <= now - Day)
    BY <1>0, <2>1, KeyOrder
  <2> QED
    BY <1>0, <2>2
<1> HIDE DEF end
<1>7. /\ Late(start) = Event!InDay \ removed
      /\ start = Event!NoKey \/ (start \in Nat /\ start <= Event!MinKey(now))
      /\ start = Event!NoKey => windowStart = Event!NoKey /\ removed = {}
  <2>1. CASE removed = {}
    <3>1. start = windowStart
      BY <2>1 DEF Event!NextStart
    <3> HIDE DEF start
    <3> QED
      BY <1>0, <1>5, <2>1, <3>1
  <2>2. CASE removed # {}
    <3> DEFINE m == Event!Max(removed)
    <3>1. removed \in SUBSET Nat /\ \A k \in removed : k <= end
      BY <1>2, <1>4
    <3>2. start = m + 1
      BY <2>2 DEF Event!NextStart, Event!NextKey
    <3> HIDE DEF removed, start
    <3>3. m \in removed /\ \A k \in removed : k <= m
      BY <1>1, <2>2, <3>1, GreatestEvent
    <3> HIDE DEF m
    <3>4. m \in Nat /\ m \in Event!InDay /\ m <= end
      BY <1>2, <1>4, <3>1, <3>3
    <3>5. ASSUME NEW k \in DOMAIN eventData, k >= m + 1 PROVE k \in Event!InDay \ removed
      <4>1. k \in Nat /\ k \notin removed /\ k >= m
        BY <1>0, <3>3, <3>4, <3>5
      <4>2. windowStart = Event!NoKey \/ (windowStart \in Nat /\ m >= windowStart)
        BY <1>0, <3>4 DEF Event!InDay
      <4>3. windowStart = Event!NoKey \/ k >= windowStart
        BY <3>4, <4>1, <4>2
      <4> QED
        BY <4>1, <4>3 DEF Event!InDay
    <3>6. ASSUME NEW k \in Event!InDay \ removed PROVE k \in DOMAIN eventData /\ k >= m + 1
      <4>1. k \in DOMAIN eventData /\ k \in Nat /\ k # m
        BY <1>0, <1>2, <3>3
      <4>2. ASSUME k < m PROVE FALSE
        <5>1. k <= end
          BY <1>1, <3>4, <4>1, <4>2
        <5>2. k \in Over
          BY <1>2, <5>1
        <5> QED
          BY <1>4, <3>3, <3>6, <4>2, <5>2
      <4> QED
        BY <3>4, <4>1, <4>2
    <3>7. start # Event!NoKey /\ start \in Nat /\ start <= Event!MinKey(now)
      BY <1>0, <1>1, <3>2, <3>4
    <3>8. Late(start) = Event!InDay \ removed
      BY <3>2, <3>5, <3>6, <3>7 DEF Late
    <3> QED
      BY <3>7, <3>8
  <2> QED
    BY <2>1, <2>2
<1> HIDE DEF removed, start
<1>8. ASSUME start = Event!NoKey, NEW k \in DOMAIN eventData PROVE now - Event!TimeOf(k) < Day
  <2>1. Over = {} /\ Event!InDay = DOMAIN eventData
    BY <1>4, <1>7, <1>8 DEF Event!InDay
  <2>2. ~(k <= end)
    BY <1>2, <2>1
  <2> QED
    BY <1>0, <1>6, <2>2
<1>9. removed = Over => \A k \in Event!InDay \ removed : Event!TimeOf(k) > now - Day
  BY <1>2, <1>6
<1>10. Event!RemovedFromDay(Event!NewKey) = removed
       /\ Event!NextStart(Event!RemovedFromDay(Event!NewKey)) = start
  BY RemovedFromDayIs DEF removed, start
<1> QED
  BY <1>2, <1>4, <1>7, <1>8, <1>9, <1>10

\* What the month deletes has left the day before.
LEMMA MonthStep ==
    ASSUME Event!EventStatsAssumption, KeysInv
    PROVE  /\ Event!Pruned \subseteq DOMAIN eventData /\ IsFiniteSet(Event!Pruned)
           /\ Event!Pruned \cap Event!InDay \subseteq Event!RemovedFromDay(Event!NewKey)
           /\ \/ \A k \in DOMAIN eventData \ Event!Pruned : Event!TimeOf(k) > now - Retention
              \/ Cardinality(Event!Pruned) >= MaxToProcess
<1> DEFINE old == {k \in DOMAIN eventData : k <= Event!MaxKey(now - Retention)}
<1>0. /\ Day \in Nat \ {0} /\ Retention \in Nat /\ Day < Retention /\ now \in Nat
      /\ now - Day \in Int /\ now - Retention \in Int /\ now - Retention < now - Day
      /\ MaxToProcess \in Nat
      /\ IsFiniteSet(DOMAIN eventData) /\ \A k \in DOMAIN eventData : k \in Nat
  BY DEF Event!EventStatsAssumption, KeysInv
<1>1. Event!Pruned = Event!FirstOnes(old)
  BY DEF Event!Pruned
<1>2. old \in SUBSET Nat /\ old \in SUBSET DOMAIN eventData /\ IsFiniteSet(old)
  <2>1. old \in SUBSET DOMAIN eventData
    OBVIOUS
  <2> QED
    BY <1>0, <2>1, FS_Subset
<1>3. Event!MaxKey(now - Retention) \in Int /\ Event!MaxKey(now - Day) \in Int
      /\ Event!MaxKey(now - Retention) <= Event!MaxKey(now - Day)
  <2>1. /\ Event!MaxKey(now - Retention) < Event!MinKey(now - Day)
        /\ Event!MinKey(now - Day) \in Int /\ Event!MaxKey(now - Retention) \in Int
    BY <1>0, MaxKeyBefore
  <2>2. Event!MaxKey(now - Day) \in Int
    <3>1. now - Day + 1 \in Int /\ now - Day < now - Day + 1
      BY <1>0
    <3> QED
      BY <1>0, <3>1, MaxKeyBefore
  <2>3. Event!MinKey(now - Day) <= Event!MaxKey(now - Day)
    <3>1. CounterMax \in Nat
      BY DEF Event!EventStatsAssumption
    <3> DEFINE tw == (now - Day) * (CounterMax + 1)
    <3>2. tw \in Int
      BY <1>0, <3>1
    <3>3. Event!MinKey(now - Day) = tw + 0 /\ Event!MaxKey(now - Day) = tw + CounterMax
      BY DEF Event!MinKey, Event!MaxKey, Event!KeyOf
    <3> HIDE DEF tw
    <3> QED
      BY <3>1, <3>2, <3>3
  <2> QED
    BY <2>1, <2>2, <2>3
<1>4. ASSUME NEW k \in Event!FirstOnes(old), k \in Event!InDay
      PROVE  k \in Event!FirstOnes(Over)
  <2>1. k \in old /\ k \in Nat /\ k <= Event!MaxKey(now - Retention)
        /\ Cardinality(Smaller(old, k)) < MaxToProcess
    BY <1>2, SameCardinality DEF Event!FirstOnes, Smaller
  <2>2. k \in Over
    BY <1>3, <1>4, <2>1 DEF Over
  <2>3. Smaller(Over, k) \in SUBSET Smaller(old, k)
    <3>1. ASSUME NEW j \in Smaller(Over, k) PROVE j \in Smaller(old, k)
      <4>1. j \in DOMAIN eventData /\ j \in Nat /\ j < k
        BY <1>0 DEF Smaller, Over, Event!InDay
      <4>2. j <= Event!MaxKey(now - Retention)
        BY <1>3, <2>1, <4>1
      <4> QED
        BY <4>1, <4>2 DEF Smaller
    <3> QED
      BY <3>1
  <2>4. Smaller(old, k) \in SUBSET old
    BY DEF Smaller
  <2>5. /\ IsFiniteSet(Smaller(old, k)) /\ IsFiniteSet(Smaller(Over, k))
        /\ Cardinality(Smaller(Over, k)) <= Cardinality(Smaller(old, k))
        /\ Cardinality(Smaller(Over, k)) \in Nat /\ Cardinality(Smaller(old, k)) \in Nat
    BY <1>2, <2>3, <2>4, FS_Subset, FS_CardinalityType
  <2>6. Cardinality(Smaller(Over, k)) < MaxToProcess
    BY <1>0, <2>1, <2>5
  <2> QED
    BY <2>2, <2>6, SameCardinality DEF Event!FirstOnes, Smaller
<1>5. ASSUME NEW k \in DOMAIN eventData \ old PROVE Event!TimeOf(k) > now - Retention
  <2>1. k \in Nat /\ ~(k <= Event!MaxKey(now - Retention))
    BY <1>0
  <2>2. Event!TimeOf(k) \in Nat /\ ~(Event!TimeOf(k) <= now - Retention)
    BY <1>0, <2>1, KeyOrder
  <2> QED
    BY <1>0, <2>2
<1> HIDE DEF old
<1>6. /\ Event!FirstOnes(old) \subseteq old /\ IsFiniteSet(Event!FirstOnes(old))
      /\ Event!FirstOnes(old) = old \/ Cardinality(Event!FirstOnes(old)) >= MaxToProcess
  BY <1>2, FirstOnesFact
<1> QED
  BY <1>1, <1>2, <1>4, <1>5, <1>6, RemovedFromDayIs

-----------------------------------------------------------------------------
(***************************************************************************)
(* The steps of the events.                                                *)
(***************************************************************************)

LEMMA TotalFact ==
    ASSUME Event!EventStatsAssumption, NEW key \in Event!AggregationKeys,
           NEW S, IsFiniteSet(S), NEW evs, \A k \in S : evs[k] \in Evs, NEW T \in SUBSET S
    PROVE  /\ TotalOf(evs, key, S) \in Nat /\ TotalOf(evs, key, T) \in Nat
           /\ TotalOf(evs, key, S \ T) \in Nat
           /\ TotalOf(evs, key, S) = TotalOf(evs, key, T) + TotalOf(evs, key, S \ T)
<1> DEFINE f(K) == [k \in K |-> Event!WeightIn(key, evs[k])]
           R == S \ T
<1>1. \A k \in S : f(S)[k] \in Nat
  BY WeightFact
<1>2. IsFiniteSet(T) /\ IsFiniteSet(R) /\ R \in SUBSET S
  BY FS_Subset
<1>3. \A k \in T : f(S)[k] \in Nat /\ f(T)[k] = f(S)[k]
  BY <1>1
<1>4. \A k \in R : f(S)[k] \in Nat /\ f(R)[k] = f(S)[k]
  BY <1>1
<1>5. /\ TotalOf(evs, key, S) = SumOf(f(S), S)
      /\ TotalOf(evs, key, T) = SumOf(f(T), T)
      /\ TotalOf(evs, key, R) = SumOf(f(R), R)
  BY DEF TotalOf
<1> HIDE DEF f, R
<1>6. SumOf(f(T), T) = SumOf(f(S), T)
  BY <1>2, <1>3, SumSame
<1>7. SumOf(f(R), R) = SumOf(f(S), R)
  BY <1>2, <1>4, SumSame
<1>8. SumOf(f(S), S) \in Nat /\ SumOf(f(S), T) \in Nat /\ SumOf(f(S), R) \in Nat
  BY <1>1, <1>2, <1>3, <1>4, SumNat
<1>9. SumOf(f(S), S) = SumOf(f(S), T) + SumOf(f(S), S \ T)
  BY <1>1, SumSplits
<1> QED
  BY <1>5, <1>6, <1>7, <1>8, <1>9 DEF R

\* A new event beside those of before.
LEMMA TotalAdds ==
    ASSUME Event!EventStatsAssumption, NEW key \in Event!AggregationKeys,
           NEW S, IsFiniteSet(S), NEW evs, NEW new, NEW x, x \notin S, new[x] \in Evs,
           \A k \in S : evs[k] \in Evs /\ new[k] = evs[k]
    PROVE  TotalOf(new, key, S \cup {x}) = TotalOf(evs, key, S) + Event!WeightIn(key, new[x])
<1> DEFINE T == S \cup {x}
           f == [k \in T |-> Event!WeightIn(key, new[k])]
           g == [k \in S |-> Event!WeightIn(key, evs[k])]
<1>1. IsFiniteSet(T) /\ S \in SUBSET T /\ x \in T \ S
  BY FS_AddElement
<1>2. \A k \in T : f[k] \in Nat
  BY WeightFact
<1>3. \A k \in S : f[k] = g[k]
  OBVIOUS
<1>4. f[x] = Event!WeightIn(key, new[x])
  OBVIOUS
<1>5. TotalOf(new, key, T) = SumOf(f, T) /\ TotalOf(evs, key, S) = SumOf(g, S)
  BY DEF TotalOf
<1>6. \A k \in S : f[k] \in Nat
  BY <1>1, <1>2
<1> HIDE DEF f, g
<1>7. SumOf(f, S \cup {x}) = f[x] + SumOf(f, S)
  <2> HIDE DEF T
  <2> QED
    BY <1>1, <1>2, SumAdds
<1>8. SumOf(f, S) = SumOf(g, S)
  BY <1>3, SumSame
<1>9. SumOf(f, S) \in Nat /\ f[x] \in Nat
  BY <1>1, <1>2, <1>6, SumNat
<1> QED
  BY <1>4, <1>5, <1>7, <1>8, <1>9

LEMMA TotalWeightIs ==
    ASSUME NEW key, NEW K, IsFiniteSet(K)
    PROVE  Event!TotalWeight(key, K) = TotalOf(eventData, key, K)
<1>1. Event!TotalWeight(key, K)
         = MapThenSumSet(LAMBDA k : Event!WeightIn(key, eventData[k]), K)
  BY DEF Event!TotalWeight, Event!MapThenSumSet, Event!MapThenFoldSet, MapThenSumSet,
         MapThenFoldSet
<1> QED
  BY <1>1, TotalIsSum

\* An update of the totals of a window.
LEMMA TotalsStep ==
    ASSUME Event!EventStatsAssumption, KeysInv, NEW aggs, GoodTotals(aggs),
           NEW window \in Event!Range(Event!Windows), NEW event \in Evs,
           NEW S \in SUBSET DOMAIN eventData, NEW pruned \in SUBSET S,
           \A key \in Event!AggregationKeys :
              key.window = window => Event!Stored(aggs, key) = TotalOf(eventData, key, S)
    PROVE  LET new == Event!UpdateAggregations(aggs, window, event, pruned)
           IN  /\ GoodTotals(new)
               /\ \A key \in Event!AggregationKeys :
                     Event!Stored(new, key)
                        = IF key.window = window
                          THEN TotalOf(eventData, key, S \ pruned) + Event!WeightIn(key, event)
                          ELSE Event!Stored(aggs, key)
<1>1. /\ IsFiniteSet(S) /\ IsFiniteSet(pruned) /\ \A k \in S : eventData[k] \in Evs
  BY FS_Subset DEF KeysInv
<1>2. \A key \in Event!AggregationKeys :
         /\ TotalOf(eventData, key, pruned) \in Nat
         /\ TotalOf(eventData, key, S) \in Nat /\ TotalOf(eventData, key, S \ pruned) \in Nat
         /\ TotalOf(eventData, key, S)
               = TotalOf(eventData, key, pruned) + TotalOf(eventData, key, S \ pruned)
         /\ Event!TotalWeight(key, pruned) = TotalOf(eventData, key, pruned)
  BY <1>1, TotalFact, TotalWeightIs
<1> DEFINE new == Event!UpdateAggregations(aggs, window, event, pruned)
<1>3. /\ GoodTotals(new)
      /\ \A key \in Event!AggregationKeys :
            Event!Stored(new, key)
                = IF /\ key.window = window
                     /\ key \in DOMAIN aggs \cup Event!Changed(window, event)
                  THEN Event!Updated(Event!Stored(aggs, key), Event!WeightIn(key, event),
                                     Event!TotalWeight(key, pruned))
                  ELSE Event!Stored(aggs, key)
  BY <1>2, UpdateFact
<1> HIDE DEF new
<1>4. ASSUME NEW key \in Event!AggregationKeys, key.window = window
      PROVE  Event!Stored(new, key)
                = TotalOf(eventData, key, S \ pruned) + Event!WeightIn(key, event)
  <2> DEFINE all == TotalOf(eventData, key, S)
             gone == TotalOf(eventData, key, pruned)
             rest == TotalOf(eventData, key, S \ pruned)
             added == Event!WeightIn(key, event)
  <2>1. added \in Nat /\ (key \notin Event!Changed(window, event) => added = 0)
    BY <1>4, WeightFact
  <2>2. /\ all \in Nat /\ gone \in Nat /\ rest \in Nat /\ all = gone + rest
        /\ Event!Stored(aggs, key) = all /\ Event!TotalWeight(key, pruned) = gone
    BY <1>2, <1>4
  <2> HIDE DEF all, gone, rest, added
  <2>3. Event!Updated(all, added, gone) = rest + added
    <3>1. gone <= all /\ all - gone + added = rest + added
      BY <2>1, <2>2
    <3> QED
      BY <2>1, <2>2, <3>1, UpdatedFact
  <2>4. CASE key \in DOMAIN aggs \cup Event!Changed(window, event)
    BY <1>3, <1>4, <2>2, <2>3, <2>4 DEF added, rest
  <2>5. CASE key \notin DOMAIN aggs \cup Event!Changed(window, event)
    <3>1. Event!Stored(aggs, key) = 0
      BY <2>5 DEF Event!Stored
    <3>2. Event!Stored(new, key) = 0 /\ all = 0 /\ added = 0
      BY <1>3, <2>1, <2>2, <2>5, <3>1
    <3>3. Event!Stored(new, key) = rest + added
      BY <2>2, <3>2
    <3> QED
      BY <3>3 DEF rest, added
  <2> QED
    BY <2>4, <2>5
<1> QED
  BY <1>3, <1>4 DEF new

LEMMA WindowNames ==
    /\ "Day" \in Event!Range(Event!Windows) /\ "Month" \in Event!Range(Event!Windows)
    /\ \A window \in Event!Range(Event!Windows) : window \in {"Day", "Month"}
<1>1. DOMAIN Event!Windows = 1..2 /\ 1 \in 1..2 /\ 2 \in 1..2
  BY DEF Event!Windows
<1>2. \A i \in 1..2 : i = 1 \/ i = 2
  OBVIOUS
<1>3. Event!Windows[1] = "Day" /\ Event!Windows[2] = "Month"
  BY DEF Event!Windows
<1> QED
  BY <1>1, <1>2, <1>3 DEF Event!Range

\* A delegation: the day is updated before the month deletes.
LEMMA PrepareStep ==
    ASSUME Event!EventStatsAssumption, EventsInv, NEW event \in Delegations,
           Event!PrepareDelegation(event)
    PROVE  /\ EventsInv'
           /\ Event!InDay' = (Event!InDay \ Event!RemovedFromDay(Event!NewKey))
                                 \cup {Event!NewKey}
           /\ DOMAIN eventData' = (DOMAIN eventData \ Event!Pruned) \cup {Event!NewKey}
<1> DEFINE new == Event!NewKey
           removed == Event!RemovedFromDay(new)
           start == Event!NextStart(removed)
           D == DOMAIN eventData
           daily == Event!UpdateAggregations(aggregations, "Day", event, removed)
           last == Event!UpdateAggregations(daily, "Month", event, Event!Pruned)
<1>0. KeysInv /\ GoodTotals(aggregations) /\ SumsInv
  BY DEF EventsInv
<1>1. /\ new \notin D /\ now' = now /\ windowStart' = start /\ aggregations' = last
      /\ eventData' = [k \in (D \ Event!Pruned) \cup {new} |->
                          IF k = new THEN event ELSE eventData[k]]
      /\ counter' = (counter + 1) % (CounterMax + 1)
  BY DEF Event!PrepareDelegation, Event!UpdateEventsInternal
<1>2. /\ removed \subseteq Event!InDay /\ IsFiniteSet(removed)
      /\ Late(start) = Event!InDay \ removed
      /\ \/ start = Event!NoKey
         \/ start \in Nat /\ start <= Event!MinKey(now)
      /\ start = Event!NoKey =>
            /\ windowStart = Event!NoKey
            /\ \A k \in D : now - Event!TimeOf(k) < Day
  BY <1>0, <1>1, DayStep
<1>3. /\ Event!Pruned \subseteq D /\ Event!Pruned \cap Event!InDay \subseteq removed
  BY <1>0, MonthStep
<1>4. /\ new \in Nat /\ Event!TimeOf(new) = now /\ Event!MinKey(now) <= new
  BY <1>0, NewKeyFact
<1>5. event \in Evs
  BY DEF Evs
<1>6. Event!InDay \subseteq D /\ Late(start) \subseteq D
  BY DEF Event!InDay, Late
<1> HIDE DEF new, removed, start, daily, last
<1>7. DOMAIN eventData' = (D \ Event!Pruned) \cup {new}
      /\ eventData'[new] = event /\ \A k \in D \ Event!Pruned : eventData'[k] = eventData[k]
  BY <1>1
<1>8. start = Event!NoKey \/ new >= start
  <2>1. Event!MinKey(now) \in Int
    <3>1. now \in Int /\ now - 1 \in Int /\ now - 1 < now
      BY <1>0 DEF KeysInv
    <3> QED
      BY <3>1, MaxKeyBefore
  <2> QED
    BY <1>2, <1>4, <2>1
<1>9. Event!InDay' = (Event!InDay \ removed) \cup {new}
  <2>1. Event!InDay' = {k \in DOMAIN eventData' : start = Event!NoKey \/ k >= start}
    BY <1>1 DEF Event!InDay
  <2>2. \A k \in D : k \in Event!InDay \ removed <=> start = Event!NoKey \/ k >= start
    BY <1>2, <1>6 DEF Late
  <2>3. \A k \in Event!InDay \ removed : k \in D \ Event!Pruned
    BY <1>3, <1>6
  <2> QED
    BY <1>7, <1>8, <2>1, <2>2, <2>3, <1>6
<1>10. KeysInv'
  <2>1. IsFiniteSet(DOMAIN eventData')
    <3>1. IsFiniteSet(D \ Event!Pruned)
      BY <1>0, FS_Difference DEF KeysInv
    <3> QED
      BY <1>7, <3>1, FS_AddElement
  <2>2. ASSUME NEW k \in DOMAIN eventData'
        PROVE  /\ k \in Nat /\ Retention <= Event!TimeOf(k) /\ Event!TimeOf(k) <= now
               /\ eventData'[k] \in Evs
    BY <1>0, <1>4, <1>5, <1>7 DEF KeysInv
  <2>3. counter' \in 0..CounterMax
    BY <1>0, <1>1 DEF KeysInv, Event!EventStatsAssumption
  <2>4. ASSUME start = Event!NoKey, NEW j \in DOMAIN eventData', NEW k \in DOMAIN eventData'
        PROVE  Event!TimeOf(j) - Event!TimeOf(k) < Day
    <3>0. Day \in Nat \ {0} /\ now \in Nat
      BY <1>0 DEF Event!EventStatsAssumption, KeysInv
    <3>1. \A i \in D : Event!TimeOf(i) \in Nat /\ Event!TimeOf(i) <= now
                       /\ now - Event!TimeOf(i) < Day
      BY <1>0, <1>2, <2>4, KeyOrder DEF KeysInv
    <3>2. \A i \in DOMAIN eventData' : /\ Event!TimeOf(i) \in Nat /\ Event!TimeOf(i) <= now
                                       /\ now - Event!TimeOf(i) < Day
      BY <1>4, <1>7, <3>0, <3>1
    <3> QED
      BY <3>0, <3>2
  <2>5. now' = now /\ windowStart' = start
    BY <1>1
  <2>6. \A k \in DOMAIN eventData' : Event!TimeOf(k)' = Event!TimeOf(k)
    BY DEF Event!TimeOf
  <2>7. Event!MinKey(now)' = Event!MinKey(now)
    BY <2>5
  <2> QED
    BY <1>0, <1>2, <2>1, <2>2, <2>3, <2>4, <2>5, <2>7 DEF KeysInv
<1>11. /\ GoodTotals(daily)
       /\ \A key \in Event!AggregationKeys :
             Event!Stored(daily, key)
                = IF key.window = "Day"
                  THEN TotalOf(eventData, key, Event!InDay \ removed)
                          + Event!WeightIn(key, event)
                  ELSE Event!Stored(aggregations, key)
  <2>1. \A key \in Event!AggregationKeys :
           key.window = "Day" =>
              Event!Stored(aggregations, key) = TotalOf(eventData, key, Event!InDay)
    BY <1>0 DEF SumsInv
  <2>2. /\ Event!InDay \in SUBSET DOMAIN eventData /\ removed \in SUBSET Event!InDay
        /\ "Day" \in Event!Range(Event!Windows)
    BY <1>2, <1>6, WindowNames
  <2> QED
    BY <1>0, <1>5, <2>1, <2>2, TotalsStep, ZenonT(40) DEF daily
<1>12. /\ GoodTotals(last)
       /\ \A key \in Event!AggregationKeys :
             Event!Stored(last, key)
                = IF key.window = "Month"
                  THEN TotalOf(eventData, key, D \ Event!Pruned) + Event!WeightIn(key, event)
                  ELSE Event!Stored(daily, key)
  <2>1. \A key \in Event!AggregationKeys :
           key.window = "Month" =>
              Event!Stored(daily, key) = TotalOf(eventData, key, D)
    BY <1>0, <1>11 DEF SumsInv
  <2>2. /\ D \in SUBSET DOMAIN eventData /\ Event!Pruned \in SUBSET D
        /\ "Month" \in Event!Range(Event!Windows)
    BY <1>3, WindowNames
  <2> HIDE DEF D
  <2> QED
    BY <1>0, <1>5, <1>11, <2>1, <2>2, TotalsStep, ZenonT(40) DEF last
<1>13. ASSUME NEW key \in Event!AggregationKeys, NEW S \in SUBSET (D \ Event!Pruned)
       PROVE  TotalOf(eventData', key, S \cup {new})
                 = TotalOf(eventData, key, S) + Event!WeightIn(key, event)
  <2>1. IsFiniteSet(S) /\ new \notin S
    BY <1>0, <1>1, FS_Subset DEF KeysInv
  <2>2. \A k \in S : eventData[k] \in Evs /\ eventData'[k] = eventData[k]
    BY <1>0, <1>7 DEF KeysInv
  <2> QED
    BY <1>5, <1>7, <2>1, <2>2, TotalAdds
<1>14. SumsInv'
  <2> SUFFICES ASSUME NEW key \in Event!AggregationKeys
               PROVE  Event!Stored(last, key)
                         = TotalOf(eventData', key, IF key.window = "Day" THEN Event!InDay'
                                                    ELSE DOMAIN eventData')
    <3>1. Event!AggregationKeys' = Event!AggregationKeys
      BY DEF Event!AggregationKeys
    <3>2. \A key \in Event!AggregationKeys :
             Event!Stored(aggregations, key)' = Event!Stored(last, key)
      BY <1>1 DEF Event!Stored
    <3> QED
      BY <1>1, <3>2 DEF SumsInv, TotalOf
  <2>1. key.window \in {"Day", "Month"}
    BY WindowNames DEF Event!AggregationKeys
  <2>2. CASE key.window = "Day"
    <3>1. Event!InDay \ removed \in SUBSET (D \ Event!Pruned)
      BY <1>3, <1>6
    <3> QED
      BY <1>9, <1>11, <1>12, <1>13, <2>2, <3>1
  <2>3. CASE key.window = "Month"
    BY <1>7, <1>12, <1>13, <2>3
  <2> QED
    BY <2>1, <2>2, <2>3
<1>15. GoodTotals(aggregations')
  BY <1>1, <1>12
<1> QED
  BY <1>7, <1>9, <1>10, <1>14, <1>15 DEF EventsInv, GoodTotals, removed, new

\* No event, and as long as nothing happens to them.
LEMMA TickStep ==
    ASSUME Event!EventStatsAssumption, EventsInv, Event!Tick \/ Event!Upgrade
    PROVE  EventsInv'
<1>1. /\ now' = now + 1 /\ counter' \in 0..CounterMax
      /\ UNCHANGED <<eventData, aggregations, windowStart>>
  BY DEF Event!Tick, Event!Upgrade, EventsInv, KeysInv, Event!EventStatsAssumption
<1>2. KeysInv'
  <2>1. now \in Nat /\ now \in Int /\ now + 1 \in Int /\ now < now + 1 /\ now - 1 \in Int
        /\ now - 1 < now
    BY DEF EventsInv, KeysInv
  <2>2. Event!MinKey(now) \in Int /\ Event!MinKey(now + 1) \in Int
        /\ Event!MinKey(now) <= Event!MinKey(now + 1)
    <3>1. CounterMax + 1 \in Nat /\ now <= now + 1
      BY <2>1 DEF Event!EventStatsAssumption
    <3> DEFINE a == now * (CounterMax + 1)
               b == (now + 1) * (CounterMax + 1)
    <3>2. a \in Int /\ b \in Int /\ a <= b
      BY <2>1, <3>1, Monotone
    <3>3. Event!MinKey(now) = a + 0 /\ Event!MinKey(now + 1) = b + 0
      BY DEF Event!MinKey, Event!KeyOf
    <3> HIDE DEF a, b
    <3> QED
      BY <3>2, <3>3
  <2>3. Event!MinKey(now)' = Event!MinKey(now + 1)
    BY <1>1 DEF Event!MinKey, Event!KeyOf
  <2>4. \A k \in DOMAIN eventData : Event!TimeOf(k) \in Nat
    BY KeyOrder, <2>1 DEF EventsInv, KeysInv
  <2>5. Retention \in Nat
    BY DEF Event!EventStatsAssumption
  <2> QED
    BY <1>1, <2>1, <2>2, <2>3, <2>4, <2>5 DEF EventsInv, KeysInv
<1>3. Event!InDay' = Event!InDay
  BY <1>1 DEF Event!InDay
<1>4. SumsInv'
  BY <1>1, <1>3 DEF EventsInv, SumsInv, Event!AggregationKeys, TotalOf, Event!Stored
<1> QED
  BY <1>1, <1>2, <1>4 DEF EventsInv, GoodTotals

OldKey(w) ==
    [kind |-> "PruneEventCount", window |-> w, domain |-> "None", data |-> Event!NoData]

\* An event of an older version, with its counts.
LEMMA OldEventCounts ==
    ASSUME Event!EventStatsAssumption
    PROVE  /\ GoodTotals(Event!OldAggregations)
           /\ \A key \in Event!AggregationKeys :
                 Event!WeightIn(key, Event!PruneEvent) = Event!Stored(Event!OldAggregations, key)
<1>1. DOMAIN Event!OldAggregations = {OldKey("Day"), OldKey("Month")}
      /\ \A key \in DOMAIN Event!OldAggregations : Event!OldAggregations[key] = 1
  <2>1. Event!Range(Event!Windows) = {"Day", "Month"}
    BY WindowNames
  <2> QED
    BY <2>1 DEF Event!OldAggregations, OldKey
<1>2. Event!PruneEvent \in Evs
  BY DEF Evs
<1>3. ASSUME NEW w \in Event!Range(Event!Windows)
      PROVE  /\ Event!ProcessEvent(w, Event!PruneEvent) = {[key |-> OldKey(w), weight |-> 1]}
             /\ OldKey(w) \in Event!AggregationKeys
  <2>1. Event!ProcessEvent(w, Event!PruneEvent) = {[key |-> OldKey(w), weight |-> 1]}
    BY DEF Event!ProcessEvent, Event!CountOf, Event!SessionSecondsOf, Event!PruneCountOf,
           Event!PrepareDelegationAggregation, OldKey
  <2>2. OldKey(w) \in Event!AggregationKeys
    <3>1. [key |-> OldKey(w), weight |-> 1] \in Event!ProcessEvent(w, Event!PruneEvent)
      BY <2>1
    <3>2. [key |-> OldKey(w), weight |-> 1].key \in Event!AggregationKeys
      BY <1>2, <3>1, ProcessFact
    <3> QED
      BY <3>2
  <2> QED
    BY <2>1, <2>2
<1>4. ASSUME NEW key \in Event!AggregationKeys
      PROVE  Event!WeightIn(key, Event!PruneEvent) = IF key = OldKey(key.window) THEN 1 ELSE 0
  <2> DEFINE A == {a \in Event!ProcessEvent(key.window, Event!PruneEvent) : a.key = key}
             one == [key |-> OldKey(key.window), weight |-> 1]
  <2>0. key.window \in Event!Range(Event!Windows)
    BY DEF Event!AggregationKeys
  <2>1. Event!WeightIn(key, Event!PruneEvent) = MapThenSumSet(LAMBDA a : a.weight, A)
    BY DEF Event!WeightIn, Event!MapThenSumSet, Event!MapThenFoldSet, MapThenSumSet,
           MapThenFoldSet
  <2>2. A = IF key = OldKey(key.window) THEN {one} ELSE {}
    <3>1. Event!ProcessEvent(key.window, Event!PruneEvent) = {one} /\ one.key = OldKey(key.window)
      BY <1>3, <2>0
    <3> HIDE DEF one
    <3> QED
      BY <3>1
  <2> HIDE DEF A
  <2>3. IsFiniteSet(A)
    BY <2>2, FS_EmptySet, FS_Singleton
  <2>4. MapThenSumSet(LAMBDA a : a.weight, A) = SumOf([a \in A |-> a.weight], A)
    BY <2>3, WeightIsSum
  <2>5. CASE key # OldKey(key.window)
    BY <2>1, <2>2, <2>4, <2>5, SumEmpty
  <2>6. CASE key = OldKey(key.window)
    <3> DEFINE f == [a \in A |-> a.weight]
    <3>1. A = {one} /\ f[one] = 1
      BY <2>2, <2>6
    <3> HIDE DEF f, one
    <3>2. One(A) = one /\ A \ {One(A)} = {}
      BY <3>1, OneIsIn
    <3>3. SumOf(f, A) = f[One(A)] + SumOf(f, A \ {One(A)})
      BY <2>3, <3>1, SumUnfolds
    <3>4. SumOf(f, A) = 1
      BY <3>1, <3>2, <3>3, SumEmpty
    <3> QED
      BY <2>1, <2>4, <2>6, <3>4 DEF f
  <2> QED
    BY <2>5, <2>6
<1>5. GoodTotals(Event!OldAggregations)
  BY <1>1, <1>3, WindowNames DEF GoodTotals
<1>6. ASSUME NEW key \in Event!AggregationKeys
      PROVE  key \in DOMAIN Event!OldAggregations <=> key = OldKey(key.window)
  <2>1. key.window \in {"Day", "Month"}
    BY WindowNames DEF Event!AggregationKeys
  <2>2. OldKey("Day").window = "Day" /\ OldKey("Month").window = "Month"
    BY DEF OldKey
  <2> QED
    BY <1>1, <2>1, <2>2
<1> QED
  BY <1>1, <1>4, <1>5, <1>6 DEF Event!Stored

LEMMA EventsInitially ==
    ASSUME Event!EventStatsAssumption, Event!Init
    PROVE  EventsInv
<1>0. /\ Day \in Nat \ {0} /\ Retention \in Nat /\ CounterMax \in Nat \ {0}
      /\ now = Retention /\ windowStart = Event!NoKey
  BY DEF Event!EventStatsAssumption, Event!Init
<1>1. CASE eventData = Event!NoEvents /\ aggregations = [k \in {} |-> 0] /\ counter = 0
  <2>1. DOMAIN eventData = {} /\ Event!InDay = {} /\ DOMAIN aggregations = {}
    BY <1>1 DEF Event!NoEvents, Event!InDay
  <2>2. KeysInv
    BY <1>0, <1>1, <2>1, FS_EmptySet DEF KeysInv
  <2>3. \A key : TotalOf(eventData, key, {}) = 0
    BY SumEmpty DEF TotalOf
  <2> QED
    BY <2>1, <2>2, <2>3 DEF EventsInv, GoodTotals, SumsInv, Event!Stored
<1>2. CASE eventData = Event!OldEvent /\ aggregations = Event!OldAggregations /\ counter = 1
  <2> DEFINE x == Event!MinKey(Retention)
  <2>1. x \in Nat /\ Event!TimeOf(x) = Retention
    BY <1>0, KeyTime DEF Event!MinKey
  <2>2. DOMAIN eventData = {x} /\ eventData[x] = Event!PruneEvent /\ Event!InDay = {x}
    BY <1>0, <1>2 DEF Event!OldEvent, Event!InDay
  <2> HIDE DEF x
  <2>3. Event!PruneEvent \in Evs
    BY DEF Evs
  <2>4. KeysInv
    <3>1. IsFiniteSet(DOMAIN eventData) /\ \A k \in DOMAIN eventData : k = x
      BY <2>2, FS_Singleton
    <3>2. /\ 1 \in 0..CounterMax /\ Retention <= Retention
          /\ Event!TimeOf(x) - Event!TimeOf(x) < Day
      BY <1>0, <2>1
    <3> QED
      BY <1>0, <1>2, <2>1, <2>2, <2>3, <3>1, <3>2 DEF KeysInv
  <2>5. ASSUME NEW key \in Event!AggregationKeys
        PROVE  TotalOf(eventData, key, {x}) = Event!WeightIn(key, Event!PruneEvent)
    <3>1. TotalOf(eventData, key, {} \cup {x})
             = TotalOf(eventData, key, {}) + Event!WeightIn(key, eventData[x])
      BY <2>2, <2>3, FS_EmptySet, TotalAdds
    <3>2. TotalOf(eventData, key, {}) = 0 /\ {} \cup {x} = {x}
      BY SumEmpty DEF TotalOf
    <3>3. Event!WeightIn(key, Event!PruneEvent) \in Nat
      BY <2>3, WeightFact
    <3> QED
      BY <2>2, <3>1, <3>2, <3>3
  <2>6. SumsInv
    BY <1>2, <2>2, <2>5, OldEventCounts DEF SumsInv
  <2> QED
    BY <1>2, <2>4, <2>6, OldEventCounts DEF EventsInv
<1> QED
  BY <1>1, <1>2 DEF Event!Init

-----------------------------------------------------------------------------
(***************************************************************************)
(* The theorems about the events.                                          *)
(***************************************************************************)

LEMMA StepOfAPart ==
    ASSUME [Next]_vars
    PROVE  /\ part' = part
           /\ part = "events" => Event!Next \/ UNCHANGED <<now, eventVars>>
           /\ part = "activity" => Activity!Next \/ UNCHANGED <<now, activityVars>>
  BY DEF Next, vars

LEMMA EventTypes ==
    ASSUME Event!EventStatsAssumption, EventsInv
    PROVE  Event!TypeOK
<1>0. KeysInv /\ GoodTotals(aggregations) /\ now \in Nat
  BY DEF EventsInv, KeysInv
<1>1. /\ Event!MinKey(0) = 0 /\ Event!MaxKey(now) \in Int
      /\ Event!MinKey(now) <= Event!MaxKey(now) /\ Event!MinKey(now) \in Int
  <2> DEFINE tw == now * (CounterMax + 1)
  <2>1. CounterMax \in Nat /\ tw \in Int
    BY <1>0 DEF Event!EventStatsAssumption
  <2>2. /\ Event!MinKey(0) = 0 * (CounterMax + 1) + 0
        /\ Event!MaxKey(now) = tw + CounterMax /\ Event!MinKey(now) = tw + 0
    BY DEF Event!MinKey, Event!MaxKey, Event!KeyOf
  <2> HIDE DEF tw
  <2> QED
    BY <2>1, <2>2
<1>2. \A k \in DOMAIN eventData : k \in Nat /\ k <= Event!MaxKey(now)
  BY <1>0, KeyOrder DEF KeysInv
<1>3. DOMAIN eventData \subseteq Event!MinKey(0)..Event!MaxKey(now)
  BY <1>1, <1>2
<1>4. Event!Range(eventData) \subseteq Delegations \cup {Event!PruneEvent}
  BY <1>0 DEF KeysInv, Evs, Event!Range
<1>5. windowStart \in {Event!NoKey} \cup Event!MinKey(0)..Event!MaxKey(now)
  BY <1>0, <1>1 DEF KeysInv
<1> QED
  BY <1>0, <1>3, <1>4, <1>5 DEF KeysInv, GoodTotals, Event!TypeOK

LEMMA EventTotals ==
    ASSUME Event!EventStatsAssumption, EventsInv
    PROVE  Event!TotalsAreExact
<1> DEFINE K(key) == IF key.window = "Day" THEN Event!InDay ELSE DOMAIN eventData
<1>1. \A key : IsFiniteSet(K(key))
  <2>1. Event!InDay \in SUBSET DOMAIN eventData
    BY DEF Event!InDay
  <2> QED
    BY <2>1, FS_Subset DEF EventsInv, KeysInv
<1> HIDE DEF K
<1>2. ASSUME NEW key \in Event!AggregationKeys
      PROVE  Event!Stored(aggregations, key) = Event!TotalWeight(key, K(key))
  <2>1. Event!TotalWeight(key, K(key)) = TotalOf(eventData, key, K(key))
    BY <1>1, TotalWeightIs
  <2> QED
    BY <2>1 DEF EventsInv, SumsInv, K
<1>3. DOMAIN aggregations \cup UNION {Event!Changed(window, eventData[k]) :
              window \in Event!Range(Event!Windows), k \in DOMAIN eventData}
         \subseteq Event!AggregationKeys
  <2>1. \A window \in Event!Range(Event!Windows), k \in DOMAIN eventData :
           Event!Changed(window, eventData[k]) \subseteq Event!AggregationKeys
    BY ProcessFact DEF EventsInv, KeysInv, Event!Changed
  <2> QED
    BY <2>1 DEF EventsInv, GoodTotals
<1> QED
  BY <1>2, <1>3 DEF Event!TotalsAreExact, K

LEMMA EventStep ==
    ASSUME Event!EventStatsAssumption, EventsInv, Event!Next
    PROVE  EventsInv' /\ Event!OutdatedEventsLeaveStep
<1>1. CASE Event!Tick \/ Event!Upgrade
  <2>1. now' = now + 1 /\ now \in Nat
    BY <1>1 DEF Event!Tick, Event!Upgrade, EventsInv, KeysInv
  <2> QED
    BY <1>1, <2>1, TickStep DEF Event!OutdatedEventsLeaveStep
<1>2. ASSUME NEW event \in Delegations, Event!PrepareDelegation(event)
      PROVE  EventsInv' /\ Event!OutdatedEventsLeaveStep
  <2> DEFINE new == Event!NewKey
             removed == Event!RemovedFromDay(new)
             D == DOMAIN eventData
  <2>0. KeysInv /\ new \notin D
    BY <1>2 DEF EventsInv, Event!PrepareDelegation
  <2>1. /\ EventsInv'
        /\ Event!InDay' = (Event!InDay \ removed) \cup {new}
        /\ DOMAIN eventData' = (D \ Event!Pruned) \cup {new}
    BY <1>2, PrepareStep
  <2>2. /\ removed \subseteq Event!InDay
        /\ \/ \A k \in Event!InDay \ removed : Event!TimeOf(k) > now - Day
           \/ Cardinality(removed) >= MaxToProcess
    BY <2>0, DayStep
  <2>3. /\ Event!Pruned \subseteq D
        /\ \/ \A k \in D \ Event!Pruned : Event!TimeOf(k) > now - Retention
           \/ Cardinality(Event!Pruned) >= MaxToProcess
    BY <2>0, MonthStep
  <2>4. Event!TimeOf(new) > now - Day /\ Event!TimeOf(new) > now - Retention
    <3>1. Day \in Nat \ {0} /\ Retention \in Nat \ {0} /\ now \in Nat
      BY <2>0 DEF Event!EventStatsAssumption, KeysInv
    <3> QED
      BY <2>0, <3>1, NewKeyFact
  <2>5. MaxToProcess \in Nat /\ IsFiniteSet(D) /\ Event!InDay \in SUBSET D
    BY <2>0 DEF Event!EventStatsAssumption, KeysInv, Event!InDay
  <2> HIDE DEF new, removed
  <2>6. \/ \A k \in Event!InDay' : Event!TimeOf(k) > now - Day
        \/ Cardinality((Event!InDay \ Event!InDay') \cup (Event!InDay \ DOMAIN eventData'))
              >= MaxToProcess
    <3> DEFINE gone == (Event!InDay \ Event!InDay') \cup (Event!InDay \ DOMAIN eventData')
    <3>1. gone \in SUBSET D /\ removed \in SUBSET gone
      BY <2>0, <2>1, <2>2, <2>5
    <3> HIDE DEF gone
    <3>2. Cardinality(removed) <= Cardinality(gone)
          /\ Cardinality(removed) \in Nat /\ Cardinality(gone) \in Nat
      BY <2>5, <3>1, FS_Subset, FS_CardinalityType
    <3>3. Cardinality(removed) >= MaxToProcess => Cardinality(gone) >= MaxToProcess
      BY <2>5, <3>2
    <3> QED
      BY <2>1, <2>2, <2>4, <3>3 DEF gone
  <2>7. \/ \A k \in DOMAIN eventData' : Event!TimeOf(k) > now - Retention
        \/ Cardinality(D \ DOMAIN eventData') >= MaxToProcess
    <3>1. D \ DOMAIN eventData' = Event!Pruned
      BY <2>0, <2>1, <2>3
    <3> QED
      BY <2>1, <2>3, <2>4, <3>1
  <2> QED
    BY <2>1, <2>6, <2>7, SameCardinality DEF Event!OutdatedEventsLeaveStep
<1> QED
  BY <1>1, <1>2 DEF Event!Next

EventPart == part = "events" => EventsInv

LEMMA EventPartInvariant == Spec => []EventPart
<1>1. Init => EventPart
  BY MCStatisticsAssumption, EventsInitially DEF Init, EventPart
<1>2. EventPart /\ [Next]_vars => EventPart'
  <2> SUFFICES ASSUME EventPart, [Next]_vars, part = "events" PROVE EventsInv'
    BY StepOfAPart DEF EventPart
  <2>1. CASE Event!Next
    BY <2>1, MCStatisticsAssumption, EventStep DEF EventPart
  <2>2. CASE UNCHANGED <<now, eventVars>>
    BY <2>2 DEF eventVars, EventPart, EventsInv, KeysInv, GoodTotals, SumsInv, Event!InDay,
       Event!AggregationKeys, TotalOf, Event!Stored, Event!MinKey, Event!KeyOf
  <2> QED
    BY <2>1, <2>2, StepOfAPart
<1> QED
  BY <1>1, <1>2, PTL DEF Spec

\* Each running total is the weight of exactly the events in its window,
\* whatever the limit of events that leave per call, and however many events
\* come at a time (update_events_internal, update_aggregations).
THEOREM EventTotalsAreExact == Spec => []TotalsAreExact
<1>1. EventPart => TotalsAreExact
  BY MCStatisticsAssumption, EventTypes, EventTotals DEF EventPart, TotalsAreExact
<1> QED
  BY <1>1, EventPartInvariant, PTL

\* Every call removes all events that are over from both windows, or as many
\* as one call may (events_to_remove_from_24h_aggregations, prune_events).
THEOREM EventsLeaveInTime == Spec => OutdatedEventsLeave
<1>1. EventPart /\ [Next]_vars => [part = "events" => Event!OutdatedEventsLeaveStep]_vars
  <2> SUFFICES ASSUME EventPart, [Next]_vars, part = "events"
               PROVE  Event!OutdatedEventsLeaveStep \/ UNCHANGED vars
    OBVIOUS
  <2>1. CASE Event!Next
    BY <2>1, MCStatisticsAssumption, EventStep DEF EventPart
  <2>2. CASE UNCHANGED <<now, eventVars>>
    BY <2>2 DEF eventVars, Event!OutdatedEventsLeaveStep
  <2> QED
    BY <2>1, <2>2, StepOfAPart
<1> QED
  BY <1>1, EventPartInvariant, PTL DEF Spec, OutdatedEventsLeave

-----------------------------------------------------------------------------
(***************************************************************************)
(* Days.  All periods start a whole number of days after the first.        *)
(***************************************************************************)

OnGrid(x) == \E q \in Int : x = q * Day

DayAssumption == Day \in Nat \ {0} /\ MonthDays \in Nat \ {0}

LEMMA Days == DayAssumption
  BY MCStatisticsAssumption DEF Activity!ActivityStatsAssumption, DayAssumption

LEMMA GridInt == ASSUME NEW x, OnGrid(x) PROVE x \in Int
  BY Days DEF OnGrid, DayAssumption

LEMMA Distribute ==
    ASSUME NEW a \in Int, NEW b \in Int, NEW w \in Int
    PROVE  /\ a * w \in Int /\ (a + b) * w = a * w + b * w /\ (a - b) * w = a * w - b * w
  OBVIOUS

LEMMA GridMoves ==
    ASSUME NEW x, OnGrid(x), NEW n \in Int
    PROVE  OnGrid(x + n * Day) /\ OnGrid(x - n * Day)
<1>1. PICK q \in Int : x = q * Day
  BY DEF OnGrid
<1>2. q + n \in Int /\ q - n \in Int /\ Day \in Int
  BY Days DEF DayAssumption
<1>3. x + n * Day = (q + n) * Day /\ x - n * Day = (q - n) * Day
  BY <1>1, <1>2, Distribute
<1> QED
  BY <1>2, <1>3 DEF OnGrid

LEMMA GridDayMonth ==
    ASSUME NEW x, OnGrid(x)
    PROVE  OnGrid(x + Day) /\ OnGrid(x - Day) /\ OnGrid(x + Activity!Month)
           /\ OnGrid(x - Activity!Month)
<1>1. 1 \in Int /\ 1 * Day = Day /\ MonthDays \in Int
  BY Days DEF DayAssumption
<1> QED
  BY <1>1, GridMoves DEF Activity!Month

\* Different starts are at least a day apart.
LEMMA GridApart ==
    ASSUME NEW x, OnGrid(x), NEW y, OnGrid(y), x < y
    PROVE  x + Day <= y
<1>1. PICK p \in Int : x = p * Day
  BY DEF OnGrid
<1>2. PICK q \in Int : y = q * Day
  BY DEF OnGrid
<1>3. Day \in Nat /\ 1 \in Int /\ 1 * Day = Day
  BY Days DEF DayAssumption
<1>4. p + 1 <= q
  <2>1. CASE q <= p
    <3>1. q * Day <= p * Day
      BY <1>3, <2>1, Monotone
    <3> QED
      BY <1>1, <1>2, <1>3, <3>1, GridInt
  <2> QED
    BY <2>1
<1>5. (p + 1) * Day <= q * Day
  BY <1>3, <1>4, Monotone
<1>6. (p + 1) * Day = p * Day + 1 * Day
  BY <1>3, Distribute
<1> QED
  BY <1>1, <1>2, <1>3, <1>5, <1>6

LEMMA Remainder ==
    ASSUME NEW k \in Int, NEW w \in Nat \ {0}
    PROVE  /\ k % w \in 0..w - 1 /\ k \div w \in Int
           /\ k = ((k \div w) * w) + (k % w)
  OBVIOUS

\* The start of the day of a time, of the days that start like x.
StartOf(x, t) == t - ((t - x) % Day)

LEMMA GridStart ==
    ASSUME NEW x, OnGrid(x), NEW t \in Int
    PROVE  /\ OnGrid(StartOf(x, t)) /\ StartOf(x, t) <= t /\ t < StartOf(x, t) + Day
           /\ x <= t => x <= StartOf(x, t)
<1> DEFINE q == (t - x) \div Day
           r == (t - x) % Day
<1>0. Day \in Nat \ {0} /\ x \in Int
  BY Days, GridInt DEF DayAssumption
<1>1. q \in Int /\ r \in 0..Day - 1 /\ t - x = q * Day + r
  <2>1. t - x \in Int
    BY <1>0
  <2> QED
    BY <1>0, <2>1, Remainder
<1> HIDE DEF q, r
<1>2. q * Day \in Int
  BY <1>0, <1>1
<1>3. t - r = x + q * Day
  BY <1>0, <1>1, <1>2
<1>4. OnGrid(t - r)
  BY <1>1, <1>3, GridMoves
<1>5. t - r <= t /\ t < t - r + Day
  BY <1>0, <1>1
<1>6. x <= t => x <= t - r
  <2>1. ASSUME x <= t, t - r < x PROVE FALSE
    <3>1. t - r + Day <= x
      BY <1>4, <2>1, GridApart
    <3> QED
      BY <1>0, <1>1, <1>5, <2>1, <3>1
  <2> QED
    BY <1>0, <1>1, <2>1
<1> QED
  BY <1>4, <1>5, <1>6 DEF r, StartOf

\* It is the only one.
LEMMA GridUnique ==
    ASSUME NEW x, OnGrid(x), NEW y, OnGrid(y), NEW t \in Int,
           x <= t, t < x + Day, y <= t, t < y + Day
    PROVE  x = y
<1>1. x \in Int /\ y \in Int /\ Day \in Nat
  BY Days, GridInt DEF DayAssumption
<1>2. ~(x < y) /\ ~(y < x)
  BY <1>1, GridApart
<1> QED
  BY <1>1, <1>2

LEMMA GridDifference ==
    ASSUME NEW x, OnGrid(x), NEW y, OnGrid(y)
    PROVE  (y - x) % Day = 0
<1>1. x \in Int /\ y \in Int /\ Day \in Nat \ {0}
  BY Days, GridInt DEF DayAssumption
<1>2. OnGrid(StartOf(x, y)) /\ StartOf(x, y) <= y /\ y < StartOf(x, y) + Day
  BY <1>1, GridStart
<1>3. y <= y /\ y < y + Day
  BY <1>1
<1>4. StartOf(x, y) = y
  BY <1>1, <1>2, <1>3, GridUnique
<1>5. y - x \in Int /\ (y - x) % Day \in Int
  BY <1>1, Remainder
<1> QED
  BY <1>1, <1>4, <1>5 DEF StartOf
-----------------------------------------------------------------------------
(***************************************************************************)
(* The periods of one of the statistics, and what process_stats makes of   *)
(* them when a day is over.                                                *)
(***************************************************************************)

Count == 0..Modulus - 1
Counters(B) == [start : Int, counts : [B -> Count]]
Windows(B) == {<<>>} \cup {<<c>> : c \in Counters(B)}
StatsOf(B) == [completedDay : Windows(B), completedMonth : Windows(B),
               day : Counters(B), months : Seq(Counters(B))]

\* The periods fit together: the inductive form of PeriodsFitTogether.
MonthsFit(months, today) ==
    /\ months # <<>>
    /\ months[Len(months)].start = today
    /\ \A j \in 1..Len(months) : OnGrid(months[j].start) /\ months[j].start >= 0
    /\ \A i, j \in 1..Len(months) :
          i < j => months[i].start + ((j - i) * Day) <= months[j].start
    /\ months[1].start > today - Activity!Month

Fitting(s) ==
    /\ OnGrid(s.day.start)
    /\ MonthsFit(s.months, s.day.start)
    /\ s.completedDay # <<>> => s.completedDay[1].start + Day = s.day.start
    /\ s.completedMonth # <<>> =>
          s.completedMonth[1].start + Activity!Month = s.day.start

LEMMA CounterAt ==
    ASSUME NEW B, NEW months \in Seq(Counters(B))
    PROVE  /\ Len(months) \in Nat /\ (months # <<>> => Len(months) \in Nat \ {0})
           /\ \A j \in 1..Len(months) : months[j] \in Counters(B) /\ months[j].start \in Int
<1>1. \A j \in 1..Len(months) : months[j] \in Counters(B)
  BY ElementOfSeq
<1>2. \A c \in Counters(B) : c.start \in Int
  BY DEF Counters
<1>3. Len(months) \in Nat /\ (months # <<>> => Len(months) \in Nat \ {0})
  BY EmptySeq, LenProperties
<1> QED
  BY <1>1, <1>2, <1>3

LEMMA SameActivityCardinality ==
    ASSUME NEW S PROVE Activity!Cardinality(S) = Cardinality(S)
BY DEF Activity!Cardinality, Cardinality

LEMMA Beginning ==
    ASSUME NEW n \in Nat, NEW over \in SUBSET (1..n),
           \A j \in over, i \in 1..n : i < j => i \in over
    PROVE  Cardinality(over) \in 0..n /\ over = 1..Cardinality(over)
<1>1. CASE over = {}
  <2>1. Cardinality(over) = 0
    BY <1>1, FS_EmptySet
  <2> QED
    BY <1>1, <2>1
<1>2. CASE over # {}
  <2> DEFINE m == Max(over)
  <2>1. m \in over /\ \A j \in over : j <= m
    <3>1. over \in SUBSET (0..n) /\ n \in Int
      OBVIOUS
    <3> QED
      BY <1>2, <3>1, MaxNat
  <2> HIDE DEF m
  <2>2. over = 1..m
    <3>1. m \in 1..n /\ \A j \in over : j \in 1..n /\ j <= m
      BY <2>1
    <3>2. ASSUME NEW i \in 1..m PROVE i \in over
      <4>1. i \in 1..n /\ (i < m \/ i = m)
        BY <3>1
      <4> QED
        BY <2>1, <4>1
    <3>3. ASSUME NEW j \in over PROVE j \in 1..m
      BY <3>1
    <3> QED
      BY <3>2, <3>3
  <2>3. Cardinality(1..m) = m
    BY <2>1, FS_Interval
  <2> QED
    BY <2>1, <2>2, <2>3
<1> QED
  BY <1>1, <1>2

LEMMA NewCounterType ==
    ASSUME NEW B, NEW x \in Int
    PROVE  /\ Activity!NewCounter(B, x) \in Counters(B)
           /\ Activity!NewCounter(B, x).start = x
           /\ Activity!NewCounter(B, x).counts = [b \in B |-> 0]
<1>1. 0 \in Count
  BY MCStatisticsAssumption DEF Activity!ActivityStatsAssumption, Count
<1> QED
  BY <1>1 DEF Activity!NewCounter, Counters

\* Two parts of the statistics change at a time.
LEMMA StatsParts ==
    ASSUME NEW B, NEW s \in StatsOf(B)
    PROVE  s = [completedDay |-> s.completedDay, completedMonth |-> s.completedMonth,
                day |-> s.day, months |-> s.months]
<1> DEFINE W == Windows(B)
           C == Counters(B)
           M == Seq(Counters(B))
<1>1. s \in [completedDay : W, completedMonth : W, day : C, months : M]
  BY DEF StatsOf
<1> HIDE DEF W, C, M
<1> QED
  BY <1>1

WithDay(s, completed, day) == [s EXCEPT !.completedDay = completed, !.day = day]
WithMonths(s, months, completed) ==
    [s EXCEPT !.months = months, !.completedMonth = completed]

LEMMA DayChanges ==
    ASSUME NEW cd, NEW cm, NEW dy, NEW ms, NEW x, NEW y, NEW s,
           s = [completedDay |-> cd, completedMonth |-> cm, day |-> dy, months |-> ms]
    PROVE  WithDay(s, x, y) =
             [completedDay |-> x, completedMonth |-> cm, day |-> y, months |-> ms]
<1> DEFINE t == [s EXCEPT !.completedDay = x]
<1>1. t = [completedDay |-> x, completedMonth |-> cm, day |-> dy, months |-> ms]
  OBVIOUS
<1>2. WithDay(s, x, y) = [t EXCEPT !.day = y]
  BY DEF WithDay
<1> HIDE DEF t
<1>3. [t EXCEPT !.day = y] =
        [completedDay |-> x, completedMonth |-> cm, day |-> y, months |-> ms]
  BY <1>1
<1> QED
  BY <1>2, <1>3

LEMMA MonthsChange ==
    ASSUME NEW cd, NEW cm, NEW dy, NEW ms, NEW x, NEW y, NEW s,
           s = [completedDay |-> cd, completedMonth |-> cm, day |-> dy, months |-> ms]
    PROVE  WithMonths(s, x, y) =
             [completedDay |-> cd, completedMonth |-> y, day |-> dy, months |-> x]
<1> DEFINE t == [s EXCEPT !.months = x]
<1>1. t = [completedDay |-> cd, completedMonth |-> cm, day |-> dy, months |-> x]
  OBVIOUS
<1>2. WithMonths(s, x, y) = [t EXCEPT !.completedMonth = y]
  BY DEF WithMonths
<1> HIDE DEF t
<1>3. [t EXCEPT !.completedMonth = y] =
        [completedDay |-> cd, completedMonth |-> y, day |-> dy, months |-> x]
  BY <1>1
<1> QED
  BY <1>2, <1>3

LEMMA MonthNat == Activity!Month \in Nat \ {0} /\ Activity!Month >= Day
                  /\ Activity!Month = MonthDays * Day
<1>1. Day \in Nat \ {0} /\ MonthDays \in Nat \ {0} /\ 1 \in Int /\ MonthDays \in Int
  BY Days DEF DayAssumption
<1>2. 1 * Day <= MonthDays * Day
  BY <1>1, Monotone
<1>3. MonthDays * Day \in Int /\ 1 * Day = Day
  BY <1>1
<1> QED
  BY <1>1, <1>2, <1>3 DEF Activity!Month

\* Which months are over: the first ones.
OverBy(months, t) == {j \in 1..Len(months) : months[j].start + Activity!Month <= t}

LEMMA FirstMonthsAreOver ==
    ASSUME NEW B, NEW months \in Seq(Counters(B)), NEW today, MonthsFit(months, today),
           NEW t \in Int
    PROVE  /\ Cardinality(OverBy(months, t)) \in 0..Len(months)
           /\ OverBy(months, t) = 1..Cardinality(OverBy(months, t))
<1>1. Len(months) \in Nat /\ \A j \in 1..Len(months) : months[j].start \in Int
  BY CounterAt
<1>2. ASSUME NEW j \in OverBy(months, t), NEW i \in 1..Len(months), i < j
      PROVE  i \in OverBy(months, t)
  <2>1. j \in 1..Len(months) /\ months[j].start + Activity!Month <= t
    BY DEF OverBy
  <2>2. months[i].start + ((j - i) * Day) <= months[j].start
    BY <1>2, <2>1 DEF MonthsFit
  <2>3. 0 <= (j - i) * Day /\ (j - i) * Day \in Int
    <3>1. 0 \in Int /\ j - i \in Int /\ 0 <= j - i /\ Day \in Nat
      BY <1>1, <1>2, <2>1, Days DEF DayAssumption
    <3>2. 0 * Day <= (j - i) * Day
      BY <3>1, Monotone
    <3> QED
      BY <3>1, <3>2
  <2>4. months[i].start + Activity!Month <= t
    <3> HIDE DEF OverBy
    <3>1. months[i].start <= months[j].start
      <4> DEFINE x == (j - i) * Day
      <4>1. x \in Int /\ 0 <= x /\ months[i].start + x <= months[j].start
        BY <2>2, <2>3
      <4> HIDE DEF x
      <4> QED
        BY <1>1, <2>1, <4>1
    <3> QED
      BY <1>1, <2>1, <3>1, MonthNat
  <2> QED
    BY <2>4 DEF OverBy
<1>3. OverBy(months, t) \in SUBSET (1..Len(months))
  BY DEF OverBy
<1> QED
  BY <1>1, <1>2, <1>3, Beginning

LEMMA MonthsGrow ==
    ASSUME NEW B, NEW months \in Seq(Counters(B)), NEW today, MonthsFit(months, today),
           NEW i \in 1..Len(months), NEW j \in 1..Len(months), i < j
    PROVE  months[i].start + Day <= months[j].start
<1>1. months[i].start \in Int /\ months[j].start \in Int
  BY CounterAt
<1>2. months[i].start + ((j - i) * Day) <= months[j].start
  BY DEF MonthsFit
<1>3. Day <= (j - i) * Day /\ (j - i) * Day \in Int
  <2>1. 1 \in Int /\ j - i \in Int /\ 1 <= j - i /\ Day \in Nat
    BY Days DEF DayAssumption
  <2>2. 1 * Day <= (j - i) * Day
    BY <2>1, Monotone
  <2> QED
    BY <2>1, <2>2
<1> DEFINE x == (j - i) * Day
<1>4. x \in Int /\ Day <= x /\ months[i].start + x <= months[j].start
  BY <1>2, <1>3
<1> HIDE DEF x
<1> QED
  BY <1>1, <1>4, Days DEF DayAssumption
-----------------------------------------------------------------------------
(***************************************************************************)
(* process_stats: nothing on a day that has begun already; else the        *)
(* periods up to today (NewDay).                                           *)
(***************************************************************************)

Today(s) == StartOf(s.day.start, now)
Closed(s) == Cardinality(OverBy(s.months, now))

CompletedDay(B, s) ==
    IF s.day.start + Day = Today(s) THEN <<s.day>>
    ELSE <<Activity!NewCounter(B, Today(s) - Day)>>

CompletedMonth(B, s) ==
    IF Closed(s) = 0 /\ s.completedMonth = <<>> THEN <<>>
    ELSE IF Closed(s) > 0 /\ s.months[Closed(s)].start + Activity!Month = Today(s)
         THEN <<s.months[Closed(s)]>>
    ELSE <<Activity!NewCounter(B, Today(s) - Activity!Month)>>

OpenMonths(s) == SubSeq(s.months, Closed(s) + 1, Len(s.months))

NewDay(B, s) ==
    [completedDay |-> CompletedDay(B, s), completedMonth |-> CompletedMonth(B, s),
     day |-> Activity!NewCounter(B, Today(s)),
     months |-> Append(OpenMonths(s), Activity!NewCounter(B, Today(s)))]

LEMMA ClosesMonths ==
    ASSUME NEW s
    PROVE  Activity!CloseMonths(s) =
             WithMonths(s, OpenMonths(s), IF Closed(s) = 0 THEN s.completedMonth
                                          ELSE <<s.months[Closed(s)]>>)
  BY SameActivityCardinality DEF Activity!CloseMonths, WithMonths, OpenMonths, Closed, OverBy

LEMMA NothingIsOver ==
    ASSUME NEW B, NEW s \in StatsOf(B), Fitting(s), now \in Nat, s.day.start + Day > now
    PROVE  Activity!ProcessStats(s, B) = s
<1>1. Activity!ProcessDay(s, B) = s
  BY DEF Activity!ProcessDay
<1>2. /\ s.day.start \in Int /\ s.months \in Seq(Counters(B)) /\ Len(s.months) \in Nat \ {0}
      /\ \A j \in 1..Len(s.months) : s.months[j].start \in Int
  <2>1. s.months \in Seq(Counters(B)) /\ s.months # <<>> /\ s.day.start \in Int
    BY DEF StatsOf, Counters, Fitting, MonthsFit
  <2> QED
    BY <2>1, CounterAt
<1>3. OverBy(s.months, now) = {}
  <2>1. 1 \in 1..Len(s.months) /\ s.months[1].start \in Int
    BY <1>2
  <2>2. s.day.start + Day <= s.months[1].start + Activity!Month
    <3>1. OnGrid(s.day.start) /\ OnGrid(s.months[1].start + Activity!Month)
      BY <2>1, GridDayMonth DEF Fitting, MonthsFit
    <3>2. s.day.start < s.months[1].start + Activity!Month
      BY <1>2, <2>1, MonthNat DEF Fitting, MonthsFit
    <3> QED
      BY <3>1, <3>2, GridApart
  <2>3. 1 \notin OverBy(s.months, now)
    BY <1>2, <2>1, <2>2, Days, MonthNat DEF OverBy, DayAssumption
  <2>4. /\ Closed(s) \in 0..Len(s.months)
        /\ OverBy(s.months, now) = 1..Closed(s)
    BY <1>2, FirstMonthsAreOver DEF Fitting, Closed
  <2> QED
    BY <2>3, <2>4
<1>4. Closed(s) = 0
  BY <1>3, FS_EmptySet DEF Closed
<1>5. OpenMonths(s) = s.months
  BY <1>2, <1>4, SubSeqFull DEF OpenMonths
<1>6. Activity!CloseMonths(s) = s
  <2>1. Activity!CloseMonths(s) =
            WithMonths(s, s.months, s.completedMonth)
    BY <1>4, <1>5, ClosesMonths
  <2> DEFINE cd == s.completedDay  cm == s.completedMonth  dy == s.day  ms == s.months
  <2>2. s = [completedDay |-> cd, completedMonth |-> cm, day |-> dy, months |-> ms]
    BY StatsParts
  <2>3. Activity!CloseMonths(s) = WithMonths(s, ms, cm)
    BY <2>1
  <2> HIDE DEF cd, cm, dy, ms
  <2> QED
    BY <2>2, <2>3, MonthsChange
<1>7. Activity!ReplaceOutdatedMonth(s, B) = s
  BY <1>2 DEF Activity!ReplaceOutdatedMonth, Activity!NoWindow, Fitting
<1>8. Activity!OpenMonth(s, B) = s
  BY <1>2 DEF Activity!OpenMonth, Activity!Last, Fitting, MonthsFit
<1> QED
  BY <1>1, <1>6, <1>7, <1>8 DEF Activity!ProcessStats

LEMMA TodayFact ==
    ASSUME NEW B, NEW s \in StatsOf(B), Fitting(s), now \in Nat, s.day.start + Day <= now
    PROVE  /\ OnGrid(Today(s)) /\ Today(s) \in Int
           /\ Today(s) <= now /\ now < Today(s) + Day
           /\ s.day.start \in Int /\ s.day.start + Day <= Today(s)
<1>1. s.day.start \in Int /\ OnGrid(s.day.start) /\ Day \in Nat \ {0} /\ now \in Int
  BY Days DEF StatsOf, Counters, Fitting, DayAssumption
<1>2. OnGrid(Today(s)) /\ Today(s) <= now /\ now < Today(s) + Day
  BY <1>1, GridStart DEF Today
<1>3. Today(s) \in Int
  BY <1>2, GridInt
<1>4. s.day.start < Today(s)
  BY <1>1, <1>2, <1>3
<1> QED
  BY <1>1, <1>2, <1>3, <1>4, GridApart

LEMMA TodayIs ==
    ASSUME NEW B, NEW s \in StatsOf(B), Fitting(s), now \in Nat, s.day.start + Day <= now,
           NEW x, OnGrid(x)
    PROVE  /\ x <= now /\ now < x + Day => x = Today(s)
           /\ now - ((now - x) % Day) = Today(s)
<1>1. OnGrid(Today(s)) /\ Today(s) <= now /\ now < Today(s) + Day /\ now \in Int
  BY TodayFact
<1>2. x <= now /\ now < x + Day => x = Today(s)
  BY <1>1, GridUnique
<1>3. OnGrid(StartOf(x, now)) /\ StartOf(x, now) <= now /\ now < StartOf(x, now) + Day
  BY <1>1, GridStart
<1>4. StartOf(x, now) = Today(s)
  BY <1>1, <1>3, GridUnique
<1> QED
  BY <1>2, <1>4 DEF StartOf

LEMMA OpenMonthsFact ==
    ASSUME NEW B, NEW s \in StatsOf(B), Fitting(s), now \in Nat
    PROVE  /\ Len(s.months) \in Nat \ {0} /\ s.months \in Seq(Counters(B))
           /\ Closed(s) \in 0..Len(s.months)
           /\ OverBy(s.months, now) = 1..Closed(s)
           /\ OpenMonths(s) \in Seq(Counters(B))
           /\ Len(OpenMonths(s)) = Len(s.months) - Closed(s)
           /\ \A j \in 1..Len(OpenMonths(s)) : OpenMonths(s)[j] = s.months[Closed(s) + j]
<1>1. s.months \in Seq(Counters(B)) /\ s.months # <<>>
  BY DEF StatsOf, Fitting, MonthsFit
<1>2. Len(s.months) \in Nat \ {0}
  BY <1>1, EmptySeq
<1>3. /\ Closed(s) \in 0..Len(s.months)
      /\ OverBy(s.months, now) = 1..Closed(s)
  BY <1>1, FirstMonthsAreOver DEF Fitting, Closed
<1> DEFINE m == Closed(s) + 1
           n == Len(s.months)
<1>4. m \in Int /\ n \in Int /\ \A i \in m..n : s.months[i] \in Counters(B)
  BY <1>1, <1>2, <1>3, ElementOfSeq
<1>5. /\ SubSeq(s.months, m, n) \in Seq(Counters(B))
      /\ Len(SubSeq(s.months, m, n)) = IF m <= n THEN n - m + 1 ELSE 0
      /\ \A i \in 1..n - m + 1 : SubSeq(s.months, m, n)[i] = s.months[m + i - 1]
  BY <1>4, SubSeqProperties
<1>6. OpenMonths(s) = SubSeq(s.months, m, n)
  BY DEF OpenMonths
<1> HIDE DEF n
<1>7. Len(OpenMonths(s)) = n - Closed(s) /\ n - m + 1 = n - Closed(s)
  BY <1>3, <1>4, <1>5, <1>6 DEF n
<1>8. \A j \in 1..n - Closed(s) : m + j - 1 = Closed(s) + j
  BY <1>3, <1>4
<1> HIDE DEF m
<1> QED
  BY <1>1, <1>2, <1>3, <1>5, <1>6, <1>7, <1>8 DEF n

LEMMA OldDayCompleted ==
    ASSUME NEW B, NEW s \in StatsOf(B), Fitting(s), now \in Nat, s.day.start + Day <= now
    PROVE  Activity!ProcessDay(s, B) =
             WithDay(s, CompletedDay(B, s), Activity!NewCounter(B, Today(s)))
<1>1. /\ s.day.start \in Int /\ Today(s) \in Int /\ Day \in Nat \ {0}
      /\ OnGrid(s.day.start) /\ Today(s) <= now /\ now < Today(s) + Day
  BY TodayFact, Days DEF DayAssumption, Fitting
<1>2. OnGrid(s.day.start + Day)
  BY <1>1, GridDayMonth
<1>3. s.day.start + 2 * Day <= now <=> s.day.start + Day # Today(s)
  <2>1. s.day.start + 2 * Day = s.day.start + Day + Day
    BY <1>1
  <2>2. ASSUME s.day.start + Day + Day > now PROVE s.day.start + Day = Today(s)
    BY <1>1, <1>2, <2>2, TodayIs
  <2>3. s.day.start + Day = Today(s) => s.day.start + Day + Day > now
    BY <1>1
  <2> QED
    BY <1>1, <2>1, <2>2, <2>3
<1>4. ~(s.day.start + Day > now)
  BY <1>1
<1> QED
  BY <1>3, <1>4 DEF Activity!ProcessDay, WithDay, CompletedDay, Today, StartOf

LEMMA OldMonthsCompleted ==
    ASSUME NEW B, NEW s \in StatsOf(B), Fitting(s), now \in Nat, s.day.start + Day <= now,
           NEW c, c.completedMonth = IF Closed(s) = 0 THEN s.completedMonth
                                     ELSE <<s.months[Closed(s)]>>
    PROVE  \/ /\ Activity!ReplaceOutdatedMonth(c, B) = c
              /\ c.completedMonth = CompletedMonth(B, s)
           \/ Activity!ReplaceOutdatedMonth(c, B) =
                 [c EXCEPT !.completedMonth = CompletedMonth(B, s)]
<1>1. /\ s.day.start \in Int /\ Today(s) \in Int /\ Day \in Nat \ {0}
      /\ OnGrid(s.day.start) /\ Today(s) <= now /\ now < Today(s) + Day
  BY TodayFact, Days DEF DayAssumption, Fitting
<1>2. /\ Closed(s) \in 0..Len(s.months) /\ Len(s.months) \in Nat
      /\ OverBy(s.months, now) = 1..Closed(s)
      /\ s.months \in Seq(Counters(B))
  BY OpenMonthsFact
<1>3. CASE Closed(s) = 0 /\ s.completedMonth = <<>>
  BY <1>3 DEF Activity!ReplaceOutdatedMonth, Activity!NoWindow, CompletedMonth
<1>4. ASSUME c.completedMonth # <<>>,
             NEW last, last = c.completedMonth[1].start, OnGrid(last),
             last + Activity!Month + Day > now => last + Activity!Month = Today(s),
             CompletedMonth(B, s) =
                 IF last + Activity!Month = Today(s) THEN c.completedMonth
                 ELSE <<Activity!NewCounter(B, Today(s) - Activity!Month)>>
      PROVE  \/ /\ Activity!ReplaceOutdatedMonth(c, B) = c
                /\ c.completedMonth = CompletedMonth(B, s)
             \/ Activity!ReplaceOutdatedMonth(c, B) =
                   [c EXCEPT !.completedMonth = CompletedMonth(B, s)]
  <2>1. last \in Int /\ Activity!Month \in Int
    BY <1>4, GridInt, MonthNat
  <2>2. now - ((now - last) % Day) = Today(s) /\ (now - last) % Day \in Int
    <3>1. now - ((now - last) % Day) = Today(s)
      BY <1>4, TodayIs
    <3>2. now - last \in Int
      BY <2>1
    <3>3. (now - last) % Day \in 0..Day - 1
      BY <1>1, <3>2, Remainder
    <3> QED
      BY <1>1, <3>1, <3>3
  <2>3. now - Activity!Month - ((now - last) % Day) = Today(s) - Activity!Month
    <3> DEFINE r == (now - last) % Day
    <3>1. now - r = Today(s) /\ r \in Int
      BY <2>2
    <3> HIDE DEF r
    <3>2. now - Activity!Month - r = Today(s) - Activity!Month
      BY <2>1, <3>1
    <3> QED
      BY <3>2 DEF r
  <2>4. last + Activity!Month = Today(s) => last + Activity!Month + Day > now
    BY <1>1, <2>1
  <2>5. CASE last + Activity!Month = Today(s)
    BY <1>4, <2>4, <2>5 DEF Activity!ReplaceOutdatedMonth, Activity!NoWindow
  <2>6. CASE last + Activity!Month # Today(s)
    BY <1>4, <2>3, <2>6 DEF Activity!ReplaceOutdatedMonth, Activity!NoWindow
  <2> QED
    BY <2>5, <2>6
<1>5. CASE Closed(s) = 0 /\ s.completedMonth # <<>>
  <2> DEFINE last == s.completedMonth[1].start
  <2>1. /\ last + Activity!Month = s.day.start /\ Activity!Month \in Int
        /\ last \in Int
    <3>1. s.completedMonth[1] \in Counters(B)
      BY <1>5 DEF StatsOf, Windows
    <3> QED
      BY <1>5, <3>1, MonthNat DEF Fitting, Counters
  <2>2. last = s.day.start - Activity!Month
    BY <1>1, <2>1
  <2>3. OnGrid(last)
    BY <1>1, <2>2, GridDayMonth
  <2>4. ~(last + Activity!Month + Day > now) /\ last + Activity!Month # Today(s)
    <3>1. s.day.start + Day <= Today(s)
      BY TodayFact
    <3> QED
      BY <1>1, <2>1, <3>1
  <2>5. CompletedMonth(B, s) = <<Activity!NewCounter(B, Today(s) - Activity!Month)>>
    BY <1>5 DEF CompletedMonth
  <2>6. c.completedMonth = s.completedMonth
    BY <1>5
  <2> HIDE DEF last
  <2> QED
    BY <1>4, <1>5, <2>3, <2>4, <2>5, <2>6 DEF last
<1>6. CASE Closed(s) # 0
  <2> DEFINE n == Closed(s)
             last == s.months[n].start
  <2>1. n \in 1..Len(s.months) /\ n \in OverBy(s.months, now)
    BY <1>2, <1>6
  <2>2. OnGrid(last) /\ last + Activity!Month <= now
    BY <2>1 DEF OverBy, Fitting, MonthsFit
  <2>3. OnGrid(last + Activity!Month)
    BY <2>2, GridDayMonth
  <2>4. c.completedMonth = <<s.months[n]>>
    BY <1>6
  <2>5. n > 0
    BY <2>1
  <2> HIDE DEF n
  <2>6. last + Activity!Month + Day > now => last + Activity!Month = Today(s)
    <3>1. SUFFICES ASSUME last + Activity!Month + Day > now
                   PROVE  last + Activity!Month = Today(s)
      OBVIOUS
    <3>2. last + Activity!Month \in Int
      BY <2>3, GridInt
    <3>3. now < last + Activity!Month + Day
      BY <1>1, <3>1, <3>2
    <3> QED
      BY <2>2, <2>3, <3>3, TodayIs
  <2>7. CompletedMonth(B, s) =
            IF last + Activity!Month = Today(s) THEN c.completedMonth
            ELSE <<Activity!NewCounter(B, Today(s) - Activity!Month)>>
    BY <1>6, <2>4, <2>5 DEF CompletedMonth, n
  <2>8. last = c.completedMonth[1].start /\ c.completedMonth # <<>>
    BY <2>4
  <2> HIDE DEF last
  <2> QED
    BY <1>4, <2>2, <2>6, <2>7, <2>8
<1> QED
  BY <1>3, <1>5, <1>6

LEMMA DayIsOver ==
    ASSUME NEW B, NEW s \in StatsOf(B), Fitting(s), now \in Nat, s.day.start + Day <= now
    PROVE  Activity!ProcessStats(s, B) = NewDay(B, s)
<1> DEFINE new == Activity!NewCounter(B, Today(s))
           cd == CompletedDay(B, s)
           s1 == WithDay(s, cd, new)
           cm == IF Closed(s) = 0 THEN s.completedMonth ELSE <<s.months[Closed(s)]>>
           ms == OpenMonths(s)
           s2 == WithMonths(s1, ms, cm)
           closed == CompletedMonth(B, s)
           s3 == WithMonths(s1, ms, closed)
<1>1. Activity!ProcessDay(s, B) = s1
  BY OldDayCompleted
<1>2. s1 = [completedDay |-> CompletedDay(B, s), completedMonth |-> s.completedMonth,
            day |-> new, months |-> s.months]
  <2> DEFINE oldDay == s.completedDay  oldMonth == s.completedMonth  dy == s.day
             old == s.months
  <2>1. s = [completedDay |-> oldDay, completedMonth |-> oldMonth, day |-> dy, months |-> old]
    BY StatsParts
  <2> HIDE DEF oldDay, oldMonth, dy, old, cd, new
  <2>2. s1 = [completedDay |-> cd, completedMonth |-> oldMonth, day |-> new, months |-> old]
    BY <2>1, DayChanges
  <2> QED
    BY <2>2 DEF cd, oldMonth, old
<1> HIDE DEF s1
<1>3. Closed(s1) = Closed(s) /\ OpenMonths(s1) = OpenMonths(s)
  BY <1>2 DEF Closed, OpenMonths
<1>4. Activity!CloseMonths(s1) = s2
  <2>1. s1.completedMonth = s.completedMonth /\ s1.months = s.months
    BY <1>2
  <2> QED
    BY <1>3, <2>1, ClosesMonths
<1>5. s2 = [completedDay |-> CompletedDay(B, s), completedMonth |-> cm,
            day |-> new, months |-> OpenMonths(s)]
  <2> DEFINE oldMonth == s.completedMonth  old == s.months
  <2>1. s1 = [completedDay |-> cd, completedMonth |-> oldMonth, day |-> new, months |-> old]
    BY <1>2
  <2> HIDE DEF oldMonth, old, cd, new, ms, cm
  <2>2. s2 = [completedDay |-> cd, completedMonth |-> cm, day |-> new, months |-> ms]
    BY <2>1, MonthsChange
  <2> QED
    BY <2>2 DEF cd, ms
<1>6. s3 = [completedDay |-> CompletedDay(B, s), completedMonth |-> CompletedMonth(B, s),
            day |-> new, months |-> OpenMonths(s)]
  <2> DEFINE oldMonth == s.completedMonth  old == s.months
  <2>1. s1 = [completedDay |-> cd, completedMonth |-> oldMonth, day |-> new, months |-> old]
    BY <1>2
  <2> HIDE DEF oldMonth, old, cd, new, ms, closed
  <2>2. s3 = [completedDay |-> cd, completedMonth |-> closed, day |-> new, months |-> ms]
    BY <2>1, MonthsChange
  <2> QED
    BY <2>2 DEF cd, ms, closed
<1> HIDE DEF s2, s3, cm
<1>7. Activity!ReplaceOutdatedMonth(s2, B) = s3
  <2>1. s2.completedMonth = IF Closed(s) = 0 THEN s.completedMonth
                            ELSE <<s.months[Closed(s)]>>
    BY <1>5 DEF cm
  <2>2. \/ Activity!ReplaceOutdatedMonth(s2, B) = s2
           /\ s2.completedMonth = CompletedMonth(B, s)
        \/ Activity!ReplaceOutdatedMonth(s2, B) =
             [s2 EXCEPT !.completedMonth = CompletedMonth(B, s)]
    BY <2>1, OldMonthsCompleted
  <2>3. s2.completedMonth = CompletedMonth(B, s) => s2 = s3
    BY <1>5, <1>6
  <2>4. [s2 EXCEPT !.completedMonth = CompletedMonth(B, s)] = s3
    BY <1>5, <1>6
  <2> QED
    BY <2>2, <2>3, <2>4
<1>8. ~(s3.months # <<>> /\ Activity!Last(s3.months).start + Day > now)
  <2>1. ASSUME OpenMonths(s) # <<>>
        PROVE  OpenMonths(s)[Len(OpenMonths(s))].start = s.day.start
    <3>1. /\ Len(s.months) \in Nat \ {0} /\ Closed(s) \in 0..Len(s.months)
          /\ OpenMonths(s) \in Seq(Counters(B))
          /\ Len(OpenMonths(s)) = Len(s.months) - Closed(s)
          /\ \A j \in 1..Len(OpenMonths(s)) :
                OpenMonths(s)[j] = s.months[Closed(s) + j]
      BY OpenMonthsFact
    <3>2. Len(OpenMonths(s)) \in Nat \ {0}
      BY <2>1, <3>1, EmptySeq
    <3>3. OpenMonths(s)[Len(OpenMonths(s))] = s.months[Len(s.months)]
      BY <3>1, <3>2
    <3> QED
      BY <3>3 DEF Fitting, MonthsFit
  <2>2. s.day.start \in Int /\ now \in Int /\ Day \in Int
    BY TodayFact, Days DEF DayAssumption
  <2>3. s3.months = OpenMonths(s)
    BY <1>6
  <2> QED
    BY <2>1, <2>2, <2>3 DEF Activity!Last
<1>9. s3.day.start = Today(s)
  BY <1>6 DEF Activity!NewCounter
<1>10. Activity!OpenMonth(s3, B) = [s3 EXCEPT !.months = Append(@, new)]
  <2>1. s3.months # <<>> /\ Activity!Last(s3.months).start + Day > now <=> FALSE
    BY <1>8
  <2> HIDE DEF new
  <2>2. Activity!OpenMonth(s3, B) =
          IF s3.months # <<>> /\ Activity!Last(s3.months).start + Day > now THEN s3
          ELSE [s3 EXCEPT !.months = Append(@, Activity!NewCounter(B, s3.day.start))]
    BY DEF Activity!OpenMonth
  <2>3. Activity!NewCounter(B, s3.day.start) = new
    BY <1>9 DEF new
  <2> QED
    BY <1>8, <2>2, <2>3
<1>11. [s3 EXCEPT !.months = Append(@, new)] = NewDay(B, s)
  <2> DEFINE all == Append(s3.months, new)
  <2>1. all = Append(OpenMonths(s), new)
    BY <1>6
  <2> HIDE DEF all, new
  <2>2. [s3 EXCEPT !.months = all] =
          [completedDay |-> CompletedDay(B, s), completedMonth |-> CompletedMonth(B, s),
           day |-> new, months |-> all]
    BY <1>6
  <2> QED
    BY <2>1, <2>2 DEF NewDay, all, new
<1> QED
  BY <1>1, <1>4, <1>7, <1>10, <1>11 DEF Activity!ProcessStats

LEMMA NewDayFits ==
    ASSUME NEW B, NEW s \in StatsOf(B), Fitting(s), now \in Nat, s.day.start + Day <= now
    PROVE  /\ NewDay(B, s) \in StatsOf(B)
           /\ Fitting(NewDay(B, s))
           /\ NewDay(B, s).day.start <= now
<1> DEFINE new == Activity!NewCounter(B, Today(s))
           O == OpenMonths(s)
           n == Closed(s)
           old == s.months
           M == Append(O, new)
           today == Today(s)
<1>1. /\ OnGrid(today) /\ today \in Int /\ today <= now /\ s.day.start \in Int
      /\ s.day.start + Day <= today
  BY TodayFact
<1>2. new \in Counters(B) /\ new.start = today
  BY <1>1, NewCounterType
<1>3. /\ Len(old) \in Nat \ {0} /\ old \in Seq(Counters(B))
      /\ n \in 0..Len(old) /\ OverBy(old, now) = 1..n
      /\ O \in Seq(Counters(B)) /\ Len(O) = Len(old) - n
      /\ \A j \in 1..Len(O) : O[j] = old[n + j]
  BY OpenMonthsFact
<1>4. /\ M \in Seq(Counters(B)) /\ M # <<>>
      /\ Len(M) = Len(O) + 1 /\ M[Len(O) + 1] = new
      /\ \A j \in 1..Len(O) : M[j] = O[j]
  BY <1>2, <1>3, AppendProperties
<1>5. /\ MonthsFit(old, s.day.start) /\ Day \in Nat \ {0}
      /\ \A j \in 1..Len(old) : old[j].start \in Int
  <2>1. \A j \in 1..Len(old) : old[j].start \in Int
    BY <1>3, CounterAt
  <2> QED
    BY <2>1, Days DEF Fitting, DayAssumption
<1>6. NewDay(B, s) = [completedDay |-> CompletedDay(B, s),
                      completedMonth |-> CompletedMonth(B, s), day |-> new, months |-> M]
  BY DEF NewDay
<1> HIDE DEF new, O, n, old, M, today
<1>7. \A j \in 1..Len(O) : n + j \in 1..Len(old) /\ M[j] = old[n + j]
  BY <1>3, <1>4
<1>8. 0 <= today
  <2>1. Len(old) \in 1..Len(old)
    BY <1>3
  <2>2. 0 <= s.day.start
    BY <1>1, <1>5, <2>1 DEF MonthsFit
  <2> QED
    BY <1>1, <1>5, <2>2
<1>9. \A j \in 1..Len(M) : OnGrid(M[j].start) /\ M[j].start >= 0
  <2>1. ASSUME NEW j \in 1..Len(O) PROVE OnGrid(M[j].start) /\ M[j].start >= 0
    BY <1>5, <1>7, <2>1 DEF MonthsFit
  <2>2. OnGrid(M[Len(O) + 1].start) /\ M[Len(O) + 1].start >= 0
    BY <1>1, <1>2, <1>4, <1>8
  <2>3. \A j \in 1..Len(M) : j \in 1..Len(O) \/ j = Len(O) + 1
    BY <1>3, <1>4
  <2> QED
    BY <2>1, <2>2, <2>3
<1>10. ASSUME NEW i \in 1..Len(M), NEW j \in 1..Len(M), i < j
       PROVE  M[i].start + ((j - i) * Day) <= M[j].start
  <2>1. i \in 1..Len(O) /\ n + i \in 1..Len(old) /\ M[i] = old[n + i]
        /\ old[n + i].start \in Int /\ n \in Int /\ Len(O) \in Int
    BY <1>3, <1>4, <1>5, <1>7, <1>10
  <2>2. CASE j \in 1..Len(O)
    <3>1. n + j \in 1..Len(old) /\ M[j] = old[n + j] /\ n + i < n + j
      BY <1>7, <1>10, <2>1, <2>2
    <3>2. old[n + i].start + (((n + j) - (n + i)) * Day) <= old[n + j].start
      BY <1>5, <2>1, <3>1 DEF MonthsFit
    <3>3. (n + j) - (n + i) = j - i
      BY <2>1
    <3> QED
      BY <2>1, <3>1, <3>2, <3>3
  <2>3. CASE j = Len(O) + 1
    <3> DEFINE x == (Len(O) - i) * Day
    <3>1. x \in Int /\ (j - i) * Day = x + Day
      <4>1. Len(O) - i \in Int /\ 1 \in Int /\ j - i = (Len(O) - i) + 1 /\ 1 * Day = Day
        BY <1>5, <2>1, <2>3
      <4>2. x \in Int /\ ((Len(O) - i) + 1) * Day = x + 1 * Day
        BY <1>5, <4>1, Distribute
      <4> QED
        BY <4>1, <4>2
    <3>2. old[n + i].start + x <= s.day.start
      <4>0. n + Len(O) = Len(old) /\ Len(old) \in 1..Len(old)
            /\ old[Len(old)].start = s.day.start
        BY <1>3, <1>5 DEF MonthsFit
      <4>1. CASE i = Len(O)
        <5>1. x = 0
          <6>1. Len(O) - i = 0
            BY <2>1, <4>1
          <6>2. 0 * Day = 0
            BY <1>5
          <6> QED
            BY <6>1, <6>2
        <5> HIDE DEF x
        <5> QED
          BY <1>1, <2>1, <4>0, <4>1, <5>1
      <4>2. CASE i < Len(O)
        <5>1. n + i < Len(old) /\ Len(old) - (n + i) = Len(O) - i
          BY <2>1, <4>0, <4>2
        <5>2. old[n + i].start + ((Len(old) - (n + i)) * Day) <= old[Len(old)].start
          BY <1>5, <2>1, <4>0, <5>1 DEF MonthsFit
        <5> QED
          BY <4>0, <5>1, <5>2
      <4> QED
        BY <2>1, <4>1, <4>2
    <3> HIDE DEF x
    <3>3. old[n + i].start + (x + Day) <= today
      <4> DEFINE y == old[n + i].start
      <4>1. y \in Int /\ x \in Int /\ y + x <= s.day.start
        BY <2>1, <3>1, <3>2
      <4> HIDE DEF y
      <4>2. y + (x + Day) <= today
        BY <1>1, <1>5, <4>1
      <4> QED
        BY <4>2 DEF y
    <3> QED
      BY <1>2, <1>4, <2>1, <2>3, <3>1, <3>3
  <2> QED
    BY <1>3, <1>4, <2>2, <2>3
<1>11. M[1].start > today - Activity!Month
  <2>1. CASE Len(O) = 0
    BY <1>1, <1>2, <1>4, <2>1, MonthNat
  <2>2. CASE Len(O) # 0
    <3>1. 1 \in 1..Len(O) /\ n + 1 \in 1..Len(old) /\ M[1] = old[n + 1] /\ n + 1 \notin 1..n
      BY <1>3, <1>7, <2>2
    <3>2. ~(old[n + 1].start + Activity!Month <= now)
      BY <1>3, <3>1 DEF OverBy
    <3> QED
      BY <1>1, <1>5, <3>1, <3>2, MonthNat
  <2> QED
    BY <2>1, <2>2
<1>12. MonthsFit(M, today)
  BY <1>2, <1>4, <1>9, <1>10, <1>11 DEF MonthsFit
<1>13. CompletedDay(B, s) \in Windows(B) /\ CompletedDay(B, s)[1].start + Day = today
  <2>1. /\ today - Day \in Int
        /\ Activity!NewCounter(B, today - Day) \in Counters(B)
        /\ Activity!NewCounter(B, today - Day).start = today - Day
    <3>1. today - Day \in Int
      BY <1>1, <1>5
    <3> QED
      BY <3>1, NewCounterType
  <2>2. s.day \in Counters(B)
    BY DEF StatsOf
  <2> QED
    BY <1>1, <1>5, <2>1, <2>2 DEF CompletedDay, today, Windows
<1>14. /\ CompletedMonth(B, s) \in Windows(B)
       /\ CompletedMonth(B, s) # <<>> =>
             CompletedMonth(B, s)[1].start + Activity!Month = today
  <2> DEFINE x == today - Activity!Month
  <2>1. /\ x \in Int /\ x + Activity!Month = today
        /\ Activity!NewCounter(B, x) \in Counters(B)
        /\ Activity!NewCounter(B, x).start = x
    <3>1. x \in Int /\ x + Activity!Month = today
      BY <1>1, MonthNat
    <3> QED
      BY <3>1, NewCounterType
  <2>2. n > 0 => old[n] \in Counters(B)
    BY <1>3, CounterAt
  <2>3. CompletedMonth(B, s) \in {<<>>, <<Activity!NewCounter(B, x)>>}
        \/ /\ n > 0 /\ old[n].start + Activity!Month = today
           /\ CompletedMonth(B, s) = <<old[n]>>
    BY DEF CompletedMonth, n, old, today
  <2> QED
    BY <2>1, <2>2, <2>3 DEF Windows
<1>15. NewDay(B, s) \in StatsOf(B)
  BY <1>2, <1>4, <1>6, <1>13, <1>14 DEF StatsOf
<1>16. Fitting(NewDay(B, s))
  BY <1>1, <1>2, <1>6, <1>12, <1>13, <1>14 DEF Fitting
<1> QED
  BY <1>1, <1>2, <1>6, <1>15, <1>16

LEMMA ProcessedFits ==
    ASSUME NEW B, NEW s \in StatsOf(B), Fitting(s), now \in Nat, s.day.start <= now
    PROVE  /\ Activity!ProcessStats(s, B) \in StatsOf(B)
           /\ Fitting(Activity!ProcessStats(s, B))
           /\ Activity!ProcessStats(s, B).day.start <= now
<1>1. s.day.start \in Int /\ Day \in Int
  BY Days DEF StatsOf, Counters, DayAssumption
<1>2. CASE s.day.start + Day > now
  BY <1>2, NothingIsOver
<1>3. CASE s.day.start + Day <= now
  BY <1>3, DayIsOver, NewDayFits
<1> QED
  BY <1>1, <1>2, <1>3

-----------------------------------------------------------------------------
(***************************************************************************)
(* Counting keeps the periods as they are.                                 *)
(***************************************************************************)

BucketSets == {{"anchors"}, Activity!DomainBuckets, Activity!MethodBuckets}

LEMMA ModulusFact == Modulus \in Nat \ {0} /\ \A x \in Int : x % Modulus \in Count
  BY MCStatisticsAssumption DEF Activity!ActivityStatsAssumption, Count

LEMMA MaxWithZero == ASSUME NEW x \in Int PROVE Activity!Max({0, x}) = IF x < 0 THEN 0 ELSE x
<1> DEFINE m == IF x < 0 THEN 0 ELSE x
<1>1. m \in {0, x} /\ \A y \in {0, x} : m >= y
  OBVIOUS
<1>2. \A z \in {0, x} : (\A y \in {0, x} : z >= y) => z = m
  BY <1>1
<1> QED
  BY <1>1, <1>2 DEF Activity!Max

LEMMA IncrementFact ==
    ASSUME NEW B, NEW c \in Counters(B), NEW b
    PROVE  /\ Activity!Increment(c, b) \in Counters(B)
           /\ Activity!Increment(c, b).start = c.start
           /\ b \in B => Activity!Increment(c, b).counts[b] = (c.counts[b] + 1) % Modulus
           /\ \A d \in B \ {b} : Activity!Increment(c, b).counts[d] = c.counts[d]
<1>1. b \in B => (c.counts[b] + 1) % Modulus \in Count
  <2>1. b \in B => c.counts[b] + 1 \in Int
    BY ModulusFact DEF Counters, Count
  <2> QED
    BY <2>1, ModulusFact
<1>2. [c.counts EXCEPT ![b] = (c.counts[b] + 1) % Modulus] \in [B -> Count]
  BY <1>1 DEF Counters
<1>3. Activity!Increment(c, b) =
        [start |-> c.start, counts |-> [c.counts EXCEPT ![b] = (c.counts[b] + 1) % Modulus]]
  <2> DEFINE f == [c.counts EXCEPT ![b] = (c.counts[b] + 1) % Modulus]
  <2>1. Activity!Increment(c, b) = [c EXCEPT !.counts = f]
    BY DEF Activity!Increment
  <2>2. c = [start |-> c.start, counts |-> c.counts]
    BY DEF Counters
  <2> HIDE DEF f
  <2>3. [c EXCEPT !.counts = f] = [start |-> c.start, counts |-> f]
    BY <2>2
  <2> QED
    BY <2>1, <2>3 DEF f
<1>4. DOMAIN c.counts = B /\ c.start \in Int
  BY DEF Counters
<1> DEFINE v == (c.counts[b] + 1) % Modulus
           f == [c.counts EXCEPT ![b] = v]
<1>5. /\ f \in [B -> Count]
      /\ b \in B => f[b] = v
      /\ \A d \in B \ {b} : f[d] = c.counts[d]
  <2> HIDE DEF v
  <2> QED
    BY <1>2, <1>4 DEF v
<1>6. Activity!Increment(c, b) = [start |-> c.start, counts |-> f]
  BY <1>3
<1> HIDE DEF f
<1> QED
  BY <1>4, <1>5, <1>6 DEF Counters

LEMMA DecrementFact ==
    ASSUME NEW B, NEW c \in Counters(B), NEW b
    PROVE  /\ Activity!Decrement(c, b) \in Counters(B)
           /\ Activity!Decrement(c, b).start = c.start
           /\ b \in B /\ c.counts[b] > 0 =>
                 Activity!Decrement(c, b).counts[b] = c.counts[b] - 1
           /\ \A e \in B \ {b} : Activity!Decrement(c, b).counts[e] = c.counts[e]
<1> DEFINE x == c.counts[b] - 1
           d == IF b = "IdAi" THEN Activity!Max({0, x}) ELSE x % Modulus
<1>1. b \in B => x \in Int /\ x < Modulus
  BY ModulusFact DEF Counters, Count
<1>2. b \in B => d \in Count
  <2>1. SUFFICES ASSUME b \in B PROVE d \in Count
    OBVIOUS
  <2> HIDE DEF x
  <2>2. x % Modulus \in Count /\ Modulus \in Nat \ {0} /\ x \in Int /\ x < Modulus
    BY <1>1, <2>1, ModulusFact
  <2>3. Activity!Max({0, x}) \in Count
    BY <2>2, MaxWithZero DEF Count
  <2> QED
    BY <2>2, <2>3
<1>3. b \in B /\ c.counts[b] > 0 => d = x
  <2>1. SUFFICES ASSUME b \in B, c.counts[b] > 0 PROVE d = x
    OBVIOUS
  <2>2. x \in 0..Modulus - 1 /\ Modulus \in Nat \ {0}
    BY <1>1, <2>1, ModulusFact DEF Counters, Count
  <2> HIDE DEF x
  <2>3. x % Modulus = x
    BY <2>2
  <2>4. Activity!Max({0, x}) = x
    BY <2>2, MaxWithZero
  <2> QED
    BY <2>3, <2>4
<1> DEFINE f == [c.counts EXCEPT ![b] = d]
<1>4. Activity!Decrement(c, b) = [start |-> c.start, counts |-> f]
  <2>1. Activity!Decrement(c, b) = [c EXCEPT !.counts = f]
    BY DEF Activity!Decrement
  <2>2. c = [start |-> c.start, counts |-> c.counts]
    BY DEF Counters
  <2> HIDE DEF f
  <2>3. [c EXCEPT !.counts = f] = [start |-> c.start, counts |-> f]
    BY <2>2
  <2> QED
    BY <2>1, <2>3
<1> HIDE DEF d
<1>5. /\ f \in [B -> Count] /\ c.start \in Int
      /\ b \in B => f[b] = d
      /\ \A e \in B \ {b} : f[e] = c.counts[e]
  BY <1>2 DEF Counters
<1> HIDE DEF f
<1> QED
  BY <1>3, <1>4, <1>5 DEF Counters

LEMMA CountFact ==
    ASSUME NEW B \in BucketSets, NEW c \in Counters(B), NEW k
    PROVE  /\ Activity!CountEvent(B, c, k) \in Counters(B)
           /\ Activity!CountEvent(B, c, k).start = c.start
<1>1. /\ {"anchors"} # Activity!DomainBuckets /\ {"anchors"} # Activity!MethodBuckets
      /\ Activity!DomainBuckets # Activity!MethodBuckets
  <2>1. /\ "anchors" \notin Activity!DomainBuckets /\ "anchors" \notin Activity!MethodBuckets
        /\ "both" \in Activity!DomainBuckets /\ "both" \notin Activity!MethodBuckets
    BY DEF Activity!DomainBuckets, Activity!MethodBuckets, Activity!IIDomains,
           Activity!Credential
  <2> QED
    BY <2>1
<1>2. CASE B = {"anchors"}
  <2>1. Activity!CountEvent(B, c, k) = Activity!CountAnchor(c, k)
    BY <1>1, <1>2 DEF Activity!CountEvent
  <2>2. Activity!CountEvent(B, c, k) \in {c, Activity!Increment(c, "anchors")}
    BY <2>1 DEF Activity!CountAnchor
  <2>3. /\ Activity!Increment(c, "anchors") \in Counters(B)
        /\ Activity!Increment(c, "anchors").start = c.start
    BY IncrementFact
  <2> QED
    BY <2>2, <2>3
<1>3. CASE B = Activity!DomainBuckets
  <2>1. Activity!CountEvent(B, c, k) = Activity!CountDomain(c, k)
    BY <1>1, <1>3 DEF Activity!CountEvent
  <2>2. PICK x, y : Activity!CountEvent(B, c, k) \in
            {c, Activity!Increment(c, x), Activity!Increment(Activity!Decrement(c, y), "both")}
    <3> DEFINE x == keys[k].origin
               y == Activity!DomainActivitySince(AnchorOf[k], c.start)
    <3>1. Activity!CountEvent(B, c, k) =
            IF y \in {"None", "NonIIDomain"} THEN Activity!Increment(c, x)
            ELSE IF y \in Activity!IIDomains \ {x}
                 THEN Activity!Increment(Activity!Decrement(c, y), "both")
            ELSE c
      BY <2>1 DEF Activity!CountDomain
    <3> HIDE DEF x, y
    <3> QED
      BY <3>1
  <2>3. /\ Activity!Decrement(c, y) \in Counters(B)
        /\ Activity!Decrement(c, y).start = c.start
    BY DecrementFact
  <2>4. /\ Activity!Increment(Activity!Decrement(c, y), "both") \in Counters(B)
        /\ Activity!Increment(Activity!Decrement(c, y), "both").start = c.start
    BY <2>3, IncrementFact
  <2>5. Activity!Increment(c, x) \in Counters(B) /\ Activity!Increment(c, x).start = c.start
    BY IncrementFact
  <2> QED
    BY <2>2, <2>4, <2>5
<1>4. CASE B = Activity!MethodBuckets
  <2>1. Activity!CountEvent(B, c, k) = Activity!CountMethod(c, k)
    BY <1>1, <1>4 DEF Activity!CountEvent
  <2>2. PICK x : Activity!CountEvent(B, c, k) \in {c, Activity!Increment(c, x)}
    BY <2>1 DEF Activity!CountMethod
  <2>3. Activity!Increment(c, x) \in Counters(B) /\ Activity!Increment(c, x).start = c.start
    BY IncrementFact
  <2> QED
    BY <2>2, <2>3
<1> QED
  BY <1>2, <1>3, <1>4 DEF BucketSets

\* The parts of updated statistics.
LEMMA UpdateParts ==
    ASSUME NEW B \in BucketSets, NEW s, NEW k, Activity!ProcessStats(s, B) \in StatsOf(B),
           NEW t, t = Activity!ProcessStats(s, B)
    PROVE  LET u == Activity!UpdateCounters(s, B, k)
           IN  /\ u \in StatsOf(B)
               /\ u.completedDay = t.completedDay /\ u.completedMonth = t.completedMonth
               /\ u.day = Activity!CountEvent(B, t.day, k) /\ u.day.start = t.day.start
               /\ Len(u.months) = Len(t.months)
               /\ \A j \in 1..Len(t.months) :
                     /\ u.months[j] = Activity!CountEvent(B, t.months[j], k)
                     /\ u.months[j].start = t.months[j].start
<1> DEFINE u == Activity!UpdateCounters(s, B, k)
           C(c) == Activity!CountEvent(B, c, k)
           M == [j \in DOMAIN t.months |-> C(t.months[j])]
<1>1. t \in StatsOf(B) /\ t.months \in Seq(Counters(B)) /\ t.day \in Counters(B)
  BY DEF StatsOf
<1>2. \A c \in Counters(B) : C(c) \in Counters(B) /\ C(c).start = c.start
  BY CountFact
<1>3. u = [t EXCEPT !.day = C(t.day), !.months = M]
  BY DEF Activity!UpdateCounters
<1>4. /\ DOMAIN t.months = 1..Len(t.months) /\ Len(t.months) \in Nat
      /\ \A j \in 1..Len(t.months) : t.months[j] \in Counters(B)
  BY <1>1, LenProperties, ElementOfSeq
<1> HIDE DEF C
<1>5. M \in Seq(Counters(B)) /\ Len(M) = Len(t.months)
  BY <1>2, <1>4
<1>6. \A j \in 1..Len(t.months) : M[j] = C(t.months[j])
  BY <1>4
<1> HIDE DEF M
<1>7. u = [completedDay |-> t.completedDay, completedMonth |-> t.completedMonth,
           day |-> C(t.day), months |-> M]
  BY <1>1, <1>3 DEF StatsOf
<1>8. /\ u.completedDay = t.completedDay /\ u.completedMonth = t.completedMonth
      /\ u.day = C(t.day) /\ u.months = M
  BY <1>7
<1>9. u \in StatsOf(B)
  BY <1>1, <1>2, <1>5, <1>7 DEF StatsOf
<1> QED
  BY <1>1, <1>2, <1>4, <1>5, <1>6, <1>8, <1>9 DEF C

LEMMA UpdatedFits ==
    ASSUME NEW B \in BucketSets, NEW s \in StatsOf(B), NEW k,
           Fitting(s), now \in Nat, s.day.start <= now
    PROVE  LET u == Activity!UpdateCounters(s, B, k)
           IN  u \in StatsOf(B) /\ Fitting(u) /\ u.day.start <= now
<1> DEFINE u == Activity!UpdateCounters(s, B, k)
           t == Activity!ProcessStats(s, B)
<1>1. t \in StatsOf(B) /\ Fitting(t) /\ t.day.start <= now
  BY ProcessedFits
<1> HIDE DEF t
<1>2. /\ u \in StatsOf(B)
      /\ u.completedDay = t.completedDay /\ u.completedMonth = t.completedMonth
      /\ u.day.start = t.day.start
      /\ Len(u.months) = Len(t.months)
      /\ \A j \in 1..Len(t.months) : u.months[j].start = t.months[j].start
  BY <1>1, UpdateParts DEF t
<1> HIDE DEF u
<1>3. t.months \in Seq(Counters(B)) /\ u.months \in Seq(Counters(B)) /\ t.months # <<>>
  BY <1>1, <1>2 DEF StatsOf, Fitting, MonthsFit
<1>4. Len(t.months) \in Nat \ {0} /\ Len(u.months) = Len(t.months) /\ u.months # <<>>
  BY <1>2, <1>3, EmptySeq
<1>5. MonthsFit(u.months, u.day.start)
  <2>0. 1 \in 1..Len(t.months) /\ Len(t.months) \in 1..Len(t.months)
    BY <1>4
  <2>1. u.months[Len(u.months)].start = u.day.start
    BY <1>1, <1>2, <2>0 DEF Fitting, MonthsFit
  <2>2. \A j \in 1..Len(u.months) : OnGrid(u.months[j].start) /\ u.months[j].start >= 0
    BY <1>1, <1>2 DEF Fitting, MonthsFit
  <2>3. \A i, j \in 1..Len(u.months) :
            i < j => u.months[i].start + ((j - i) * Day) <= u.months[j].start
    BY <1>1, <1>2 DEF Fitting, MonthsFit
  <2>4. u.months[1].start > u.day.start - Activity!Month
    BY <1>1, <1>2, <2>0 DEF Fitting, MonthsFit
  <2> QED
    BY <1>4, <2>1, <2>2, <2>3, <2>4 DEF MonthsFit
<1>6. Fitting(u)
  BY <1>1, <1>2, <1>5 DEF Fitting
<1> QED
  BY <1>1, <1>2, <1>6 DEF u

-----------------------------------------------------------------------------
(***************************************************************************)
(* The periods of the activity statistics: the invariant.                  *)
(***************************************************************************)

KeyRecords == UNION {[origin : {o}, used : Int] :
                        o \in UNION {OriginsOf[k] : k \in Keys}}

GoodKeys ==
    /\ DOMAIN keys \subseteq Keys
    /\ keys = [k \in DOMAIN keys |-> [origin |-> keys[k].origin, used |-> keys[k].used]]
    /\ \A k \in DOMAIN keys :
          keys[k].origin \in OriginsOf[k] /\ keys[k].used \in Activity!Never..now

GoodStats(B, s) == s \in StatsOf(B) /\ Fitting(s) /\ s.day.start <= now

PeriodsInv ==
    /\ now \in Nat
    /\ GoodKeys
    /\ GoodStats({"anchors"}, activeAnchors)
    /\ GoodStats(Activity!DomainBuckets, activeDomains)
    /\ GoodStats(Activity!MethodBuckets, activeMethods)

LEMMA NewStatsGood ==
    ASSUME NEW B, now = 0
    PROVE  GoodStats(B, Activity!NewStats(B, now))
<1> DEFINE new == Activity!NewCounter(B, now)
           s == Activity!NewStats(B, now)
<1>1. new \in Counters(B) /\ new.start = 0
  <2>1. now \in Int
    OBVIOUS
  <2> QED
    BY <2>1, NewCounterType
<1>2. OnGrid(0)
  <2>1. 0 \in Int /\ 0 = 0 * Day
    BY Days DEF DayAssumption
  <2> QED
    BY <2>1 DEF OnGrid
<1> HIDE DEF new
<1>3. s = [completedDay |-> <<>>, completedMonth |-> <<>>, day |-> new, months |-> <<new>>]
  BY DEF Activity!NewStats, Activity!NoWindow, new
<1> HIDE DEF s
<1>4. s \in StatsOf(B)
  BY <1>1, <1>3 DEF StatsOf, Windows
<1>5. MonthsFit(<<new>>, 0)
  <2>1. Len(<<new>>) = 1 /\ <<new>>[1] = new /\ <<new>> # <<>>
    OBVIOUS
  <2>2. \A j \in 1..1 : j = 1
    OBVIOUS
  <2>3. 0 > 0 - Activity!Month
    BY MonthNat
  <2> QED
    BY <1>1, <1>2, <2>1, <2>2, <2>3 DEF MonthsFit
<1>6. Fitting(s)
  BY <1>1, <1>2, <1>3, <1>5 DEF Fitting
<1> QED
  BY <1>1, <1>3, <1>4, <1>6 DEF GoodStats, s

LEMMA PeriodsInitially == Activity!Init => PeriodsInv
<1> SUFFICES ASSUME Activity!Init PROVE PeriodsInv
  OBVIOUS
<1>1. now = 0 /\ now \in Nat
  BY DEF Activity!Init
<1>2. GoodKeys
  <2>1. DOMAIN keys = Keys /\ \A k \in Keys : /\ keys[k].origin \in OriginsOf[k]
                                              /\ keys[k].used = Activity!Never
                                              /\ keys[k] = [origin |-> keys[k].origin,
                                                            used |-> keys[k].used]
    BY DEF Activity!Init
  <2>2. Activity!Never \in Activity!Never..now
    BY <1>1 DEF Activity!Never
  <2>3. keys = [k \in DOMAIN keys |-> keys[k]]
    BY DEF Activity!Init
  <2> QED
    BY <2>1, <2>2, <2>3 DEF GoodKeys
<1> QED
  BY <1>1, <1>2, NewStatsGood DEF Activity!Init, PeriodsInv

LEMMA StatisticsStep ==
    ASSUME PeriodsInv, NEW k, Activity!UpdateActivityStats(k), now' = now
    PROVE  /\ GoodStats({"anchors"}, activeAnchors)'
           /\ GoodStats(Activity!DomainBuckets, activeDomains)'
           /\ GoodStats(Activity!MethodBuckets, activeMethods)'
<1>0. {"anchors"} \in BucketSets /\ Activity!DomainBuckets \in BucketSets
      /\ Activity!MethodBuckets \in BucketSets /\ now \in Nat
  BY DEF BucketSets, PeriodsInv
<1>1. \A B \in BucketSets : \A s : GoodStats(B, s) =>
          LET u == Activity!UpdateCounters(s, B, k)
          IN  u \in StatsOf(B) /\ Fitting(u) /\ u.day.start <= now
  BY <1>0, UpdatedFits DEF GoodStats
<1>2. GoodStats({"anchors"}, activeAnchors)'
  BY <1>0, <1>1 DEF PeriodsInv, Activity!UpdateActivityStats, GoodStats
<1>3. GoodStats(Activity!DomainBuckets, activeDomains)'
  BY <1>0, <1>1 DEF PeriodsInv, Activity!UpdateActivityStats, GoodStats
<1>4. GoodStats(Activity!MethodBuckets, activeMethods)'
  BY <1>0, <1>1 DEF PeriodsInv, Activity!UpdateActivityStats, GoodStats
<1> QED
  BY <1>2, <1>3, <1>4

\* The keys after a call of each kind.
LEMMA KeysStep ==
    ASSUME PeriodsInv, now' = now, NEW k \in DOMAIN keys,
           \/ keys' = Activity!Used(k)
           \/ \E removed : keys' = [h \in DOMAIN keys \ {removed} |-> Activity!Used(k)[h]]
           \/ \E added, origin :
                /\ added \in Keys \ DOMAIN keys /\ origin \in OriginsOf[added]
                /\ keys' = [h \in DOMAIN keys \cup {added} |->
                              IF h = added THEN [origin |-> origin, used |-> Activity!Never]
                              ELSE Activity!Used(k)[h]]
           \/ \E moved, origin :
                /\ moved \in DOMAIN keys /\ origin \in OriginsOf[moved]
                /\ keys' = [Activity!Used(k) EXCEPT ![moved].origin = origin]
    PROVE  GoodKeys'
<1> DEFINE D == DOMAIN keys
           U == Activity!Used(k)
<1>0. /\ D \subseteq Keys /\ now \in Nat
      /\ \A h \in D : /\ keys[h] = [origin |-> keys[h].origin, used |-> keys[h].used]
                      /\ keys[h].origin \in OriginsOf[h]
                      /\ keys[h].used \in Activity!Never..now
  BY DEF PeriodsInv, GoodKeys
<1>1. U = [h \in D |-> IF h = k THEN [origin |-> keys[k].origin, used |-> now] ELSE keys[h]]
  <2>1. U = [keys EXCEPT ![k].used = now]
    BY DEF Activity!Used
  <2>2. [keys[k] EXCEPT !.used = now] = [origin |-> keys[k].origin, used |-> now]
    BY <1>0
  <2>3. keys = [h \in D |-> keys[h]]
    BY DEF PeriodsInv, GoodKeys
  <2> QED
    BY <2>1, <2>2, <2>3
<1>2. now \in Activity!Never..now /\ Activity!Never \in Activity!Never..now
  BY <1>0 DEF Activity!Never
<1>3. /\ DOMAIN U = D
      /\ \A h \in D : /\ U[h] = [origin |-> U[h].origin, used |-> U[h].used]
                      /\ U[h].origin \in OriginsOf[h]
                      /\ U[h].used \in Activity!Never..now
  BY <1>0, <1>1, <1>2
<1> HIDE DEF U
<1> DEFINE K == keys'
<1>4. SUFFICES /\ DOMAIN K \subseteq Keys
               /\ K = [h \in DOMAIN K |-> K[h]]
               /\ \A h \in DOMAIN K :
                     /\ K[h] = [origin |-> K[h].origin, used |-> K[h].used]
                     /\ K[h].origin \in OriginsOf[h]
                     /\ K[h].used \in Activity!Never..now
  <2>1. keys' = [h \in DOMAIN keys' |->
                   [origin |-> keys'[h].origin, used |-> keys'[h].used]]
    <3> HIDE <1>4
    <3> QED
      BY <1>4
  <2> QED
    BY <1>4, <2>1 DEF GoodKeys, Activity!Never
<1> HIDE DEF K
<1>5. CASE K = U
  <2>1. U = [h \in D |-> U[h]]
    BY <1>1
  <2> QED
    BY <1>0, <1>3, <1>5, <2>1
<1>6. CASE \E removed : K = [h \in D \ {removed} |-> U[h]]
  <2>1. PICK removed : K = [h \in D \ {removed} |-> U[h]]
    BY <1>6
  <2> QED
    BY <1>0, <1>3, <2>1
<1>7. CASE \E added, origin :
              /\ added \in Keys \ D /\ origin \in OriginsOf[added]
              /\ K = [h \in D \cup {added} |->
                       IF h = added THEN [origin |-> origin, used |-> Activity!Never]
                       ELSE U[h]]
  <2>1. PICK added, origin :
              /\ added \in Keys \ D /\ origin \in OriginsOf[added]
              /\ K = [h \in D \cup {added} |->
                       IF h = added THEN [origin |-> origin, used |-> Activity!Never]
                       ELSE U[h]]
    BY <1>7
  <2> QED
    BY <1>0, <1>2, <1>3, <2>1
<1>8. CASE \E moved, origin : /\ moved \in D /\ origin \in OriginsOf[moved]
                             /\ K = [U EXCEPT ![moved].origin = origin]
  <2>1. PICK moved, origin : /\ moved \in D /\ origin \in OriginsOf[moved]
                             /\ K = [U EXCEPT ![moved].origin = origin]
    BY <1>8
  <2>2. [U[moved] EXCEPT !.origin = origin] = [origin |-> origin, used |-> U[moved].used]
    BY <1>3, <2>1
  <2>3. U = [h \in D |-> U[h]]
    BY <1>1
  <2>4. K = [h \in D |-> IF h = moved THEN [origin |-> origin, used |-> U[moved].used]
                         ELSE U[h]]
    BY <2>1, <2>2, <2>3
  <2> QED
    BY <1>0, <1>3, <2>1, <2>4, ZenonT(40)
<1> QED
  BY <1>5, <1>6, <1>7, <1>8 DEF U, K

LEMMA PeriodsStep == ASSUME PeriodsInv, Activity!Next PROVE PeriodsInv'
<1>0. now \in Nat
  BY DEF PeriodsInv
<1>1. CASE Activity!Tick
  <2>1. now' = now + 1 /\ keys' = keys /\ activeAnchors' = activeAnchors
        /\ activeDomains' = activeDomains /\ activeMethods' = activeMethods
    BY <1>1 DEF Activity!Tick, Activity!stats
  <2>2. \A x \in Int : x <= now => x <= now + 1
    BY <1>0
  <2>3. ASSUME NEW B, NEW s, GoodStats(B, s) PROVE s.day.start <= now + 1
    <3>1. s.day.start \in Int /\ s.day.start <= now
      BY <2>3 DEF GoodStats, StatsOf, Counters
    <3> QED
      BY <2>2, <3>1
  <2>4. GoodKeys'
    <3>1. \A x \in Activity!Never..now : x \in Activity!Never..now + 1
      BY <1>0 DEF Activity!Never
    <3> QED
      BY <2>1, <3>1 DEF PeriodsInv, GoodKeys, Activity!Never
  <2> QED
    BY <1>0, <2>1, <2>3, <2>4 DEF PeriodsInv, GoodStats
<1>2. ASSUME NEW k, NEW change, Activity!ActivityBookkeeping(k, change), GoodKeys'
      PROVE  PeriodsInv'
  <2>1. Activity!UpdateActivityStats(k) /\ now' = now
    BY <1>2 DEF Activity!ActivityBookkeeping
  <2> QED
    BY <1>0, <1>2, <2>1, StatisticsStep DEF PeriodsInv
<1>3. ASSUME NEW k, Activity!Authenticate(k) PROVE PeriodsInv'
  <2>1. /\ Activity!ActivityBookkeeping(k, FALSE) /\ keys' = Activity!Used(k)
        /\ k \in DOMAIN keys /\ now' = now
    BY <1>3 DEF Activity!Authenticate, Activity!ActivityBookkeeping
  <2>2. GoodKeys'
    BY <2>1, KeysStep
  <2> QED
    BY <1>2, <2>1, <2>2
<1>4. ASSUME NEW k, NEW h, Activity!RemoveKey(k, h) PROVE PeriodsInv'
  <2>1. /\ Activity!ActivityBookkeeping(k, TRUE)
        /\ keys' = [g \in DOMAIN keys \ {h} |-> Activity!Used(k)[g]]
        /\ k \in DOMAIN keys /\ now' = now
    BY <1>4 DEF Activity!RemoveKey, Activity!ActivityBookkeeping
  <2>2. GoodKeys'
    BY <2>1, KeysStep
  <2> QED
    BY <1>2, <2>1, <2>2
<1>5. ASSUME NEW k, NEW h \in Keys, NEW o \in OriginsOf[h], Activity!AddKey(k, h, o)
      PROVE  PeriodsInv'
  <2>1. /\ Activity!ActivityBookkeeping(k, TRUE) /\ h \in Keys \ DOMAIN keys
        /\ keys' = [g \in DOMAIN keys \cup {h} |->
                       IF g = h THEN [origin |-> o, used |-> Activity!Never]
                       ELSE Activity!Used(k)[g]]
        /\ k \in DOMAIN keys /\ now' = now
    BY <1>5 DEF Activity!AddKey, Activity!ActivityBookkeeping
  <2>2. GoodKeys'
    BY <2>1, KeysStep
  <2> QED
    BY <1>2, <2>1, <2>2
<1>6. ASSUME NEW k, NEW h, NEW o \in OriginsOf[h], Activity!MoveKey(k, h, o)
      PROVE  PeriodsInv'
  <2>1. /\ Activity!ActivityBookkeeping(k, TRUE) /\ h \in DOMAIN keys
        /\ keys' = [Activity!Used(k) EXCEPT ![h].origin = o]
        /\ k \in DOMAIN keys /\ now' = now
    BY <1>6 DEF Activity!MoveKey, Activity!ActivityBookkeeping, Activity!KeysOf
  <2>2. GoodKeys'
    BY <2>1, KeysStep
  <2> QED
    BY <1>2, <2>1, <2>2
<1> QED
  BY <1>1, <1>3, <1>4, <1>5, <1>6 DEF Activity!Next

LEMMA StatisticsFit ==
    ASSUME NEW B, NEW s, GoodStats(B, s), now \in Nat
    PROVE  /\ Len(s.months) \in 1..MonthDays
           /\ Activity!Last(s.months).start = s.day.start
           /\ \A i \in 2..Len(s.months) :
                 /\ s.months[i].start > s.months[i - 1].start
                 /\ (s.months[i].start - s.months[i - 1].start) % Day = 0
           /\ s.months[1].start > s.day.start - Activity!Month
           /\ s.completedDay # Activity!NoWindow =>
                 s.completedDay[1].start + Day = s.day.start
           /\ s.completedMonth # Activity!NoWindow =>
                 s.completedMonth[1].start + Activity!Month = s.day.start
           /\ \A c \in {s.day} \cup Activity!Range(s.months) :
                 /\ c.start \in 0..now
                 /\ \A b \in DOMAIN c.counts : c.counts[b] \in 0..Modulus - 1
<1> DEFINE ms == s.months
           n == Len(ms)
           today == s.day.start
<1>1. /\ ms \in Seq(Counters(B)) /\ s.day \in Counters(B) /\ MonthsFit(ms, today)
      /\ today \in Int /\ today <= now /\ ms # <<>>
  BY DEF GoodStats, StatsOf, Counters, Fitting, MonthsFit
<1> HIDE DEF ms, today
<1>2. n \in Nat \ {0} /\ \A j \in 1..n : ms[j] \in Counters(B) /\ ms[j].start \in Int
  BY <1>1, CounterAt
<1> HIDE DEF n
<1>3. /\ 1 \in 1..n /\ n \in 1..n /\ ms[n].start = today /\ ms[1].start > today - Activity!Month
      /\ Day \in Nat \ {0} /\ MonthDays \in Nat \ {0} /\ Activity!Month \in Nat
      /\ Activity!Month = MonthDays * Day
  BY <1>1, <1>2, Days, MonthNat DEF MonthsFit, n, DayAssumption
<1>4. \A i, j \in 1..n : i < j => ms[i].start + Day <= ms[j].start
  BY <1>1, MonthsGrow DEF n
<1>5. n \in 1..MonthDays
  <2>1. CASE n = 1
    BY <1>3, <2>1
  <2>2. CASE n > MonthDays
    <3>1. ms[1].start + ((n - 1) * Day) <= today
      <4>1. 1 < n
        BY <1>2, <1>3, <2>2
      <4> QED
        BY <1>1, <1>3, <4>1 DEF MonthsFit, n
    <3>2. MonthDays * Day <= (n - 1) * Day
      <4>1. MonthDays \in Int /\ n - 1 \in Int /\ MonthDays <= n - 1 /\ Day \in Nat
        BY <1>2, <1>3, <2>2
      <4> QED
        BY <4>1, Monotone
    <3> DEFINE x == (n - 1) * Day
    <3>3. x \in Int
      <4>1. n - 1 \in Int
        BY <1>2
      <4> QED
        BY <1>3, <4>1
    <3>4. ms[1].start + x <= today /\ Activity!Month <= x
      BY <1>3, <3>1, <3>2
    <3> HIDE DEF x
    <3> QED
      BY <1>1, <1>2, <1>3, <3>3, <3>4
  <2> QED
    BY <1>2, <1>3, <2>1, <2>2
<1>6. ASSUME NEW i \in 2..n
      PROVE  ms[i].start > ms[i - 1].start /\ (ms[i].start - ms[i - 1].start) % Day = 0
  <2>1. i \in 1..n /\ i - 1 \in 1..n /\ i - 1 < i
    BY <1>2
  <2>2. ms[i - 1].start + Day <= ms[i].start
    BY <1>4, <2>1
  <2>3. OnGrid(ms[i].start) /\ OnGrid(ms[i - 1].start)
    BY <1>1, <2>1 DEF MonthsFit, n
  <2> QED
    BY <1>2, <1>3, <2>1, <2>2, <2>3, GridDifference
<1>7. ASSUME NEW c \in {s.day} \cup Activity!Range(ms)
      PROVE  c.start \in 0..now /\ \A b \in DOMAIN c.counts : c.counts[b] \in 0..Modulus - 1
  <2>1. c = s.day \/ \E j \in 1..n : c = ms[j]
    <3>1. DOMAIN ms = 1..n
      BY <1>1, LenProperties DEF n
    <3> QED
      BY <3>1 DEF Activity!Range
  <2>2. c \in Counters(B)
    BY <1>1, <1>2, <2>1
  <2>3. ASSUME NEW j \in 1..n PROVE ms[j].start \in 0..now
    <3>1. ms[j].start >= 0
      BY <1>1 DEF MonthsFit, n
    <3>2. ms[j].start <= today
      <4>1. j = n \/ j < n
        BY <1>2
      <4> QED
        BY <1>1, <1>2, <1>3, <1>4, <4>1
    <3> QED
      BY <1>1, <1>2, <3>1, <3>2
  <2>4. c.start \in 0..now
    BY <1>3, <2>1, <2>3 DEF today
  <2> QED
    BY <2>2, <2>4 DEF Counters, Count
<1>8. /\ Activity!Last(ms).start = today
      /\ s.completedDay # Activity!NoWindow => s.completedDay[1].start + Day = s.day.start
      /\ s.completedMonth # Activity!NoWindow =>
            s.completedMonth[1].start + Activity!Month = s.day.start
  BY <1>3 DEF Activity!Last, Activity!NoWindow, GoodStats, Fitting, n
<1> QED
  BY <1>3, <1>5, <1>6, <1>7, <1>8 DEF ms, n, today

LEMMA PeriodsOk ==
    ASSUME PeriodsInv
    PROVE  Activity!TypeOK /\ Activity!PeriodsFitTogether
<1>0. now \in Nat
  BY DEF PeriodsInv
<1>1. /\ Activity!stats[1] = activeAnchors /\ Activity!stats[2] = activeDomains
      /\ Activity!stats[3] = activeMethods
  BY DEF Activity!stats
<1>2. \A j \in 1..3 : \E B : GoodStats(B, Activity!stats[j])
  <2>1. \A j \in 1..3 : j = 1 \/ j = 2 \/ j = 3
    OBVIOUS
  <2> QED
    BY <1>1, <2>1 DEF PeriodsInv
<1>3. Activity!PeriodsFitTogether
  BY <1>0, <1>2, StatisticsFit DEF Activity!PeriodsFitTogether
<1>4. \A j \in 1..3 : \A c \in {Activity!stats[j].day} \cup Activity!Range(Activity!stats[j].months) :
          /\ c.start \in 0..now
          /\ \A b \in DOMAIN c.counts : c.counts[b] \in 0..Modulus - 1
  BY <1>0, <1>2, StatisticsFit
<1> QED
  BY <1>3, <1>4 DEF Activity!TypeOK, PeriodsInv, GoodKeys

ActivityPart == part = "activity" => PeriodsInv

LEMMA ActivityPartInvariant == Spec => []ActivityPart
<1>1. Init => ActivityPart
  BY PeriodsInitially DEF Init, ActivityPart
<1>2. ActivityPart /\ [Next]_vars => ActivityPart'
  <2> SUFFICES ASSUME ActivityPart, [Next]_vars, part = "activity" PROVE PeriodsInv'
    BY StepOfAPart DEF ActivityPart
  <2>1. CASE Activity!Next
    BY <2>1, PeriodsStep DEF ActivityPart
  <2>2. CASE UNCHANGED <<now, activityVars>>
    BY <2>2 DEF activityVars, ActivityPart, PeriodsInv, GoodKeys, GoodStats, Activity!Never
  <2> QED
    BY <2>1, <2>2, StepOfAPart
<1> QED
  BY <1>1, <1>2, PTL DEF Spec

\* The days and months of the three statistics fit together, however long a
\* month is and however much time passes between two calls (process_stats).
THEOREM PeriodsAlwaysFitTogether == Spec => []PeriodsFitTogether
<1>1. ActivityPart => PeriodsFitTogether
  BY PeriodsOk DEF ActivityPart, PeriodsFitTogether
<1> QED
  BY <1>1, ActivityPartInvariant, PTL

-----------------------------------------------------------------------------
(***************************************************************************)
(* Everyone is counted once.  What the keys tell about the uses, and what  *)
(* the periods of one of the statistics count (all of this is for the uses *)
(* since the last key was removed or moved).                               *)
(***************************************************************************)

KeysTellUses ==
    /\ lastChange \in Int /\ lastChange <= now
    /\ \A u \in uses : u.key \in Keys /\ u.time \in 0..now
    /\ \A k \in DOMAIN keys :
          \/ keys[k].used = Activity!Never
          \/ \E u \in uses : u.key = k /\ u.time = keys[k].used
    /\ \A u \in uses : u.time > lastChange =>
          /\ u.key \in DOMAIN keys
          /\ keys[u.key].origin = u.origin
          /\ keys[u.key].used >= u.time

\* The uses that the statistics with these buckets are about.
OnDomain(u) == MethodOf[u.key] # Activity!Credential /\ u.origin \in Activity!IIDomains
Relevant(B, R) == {u \in R : B = Activity!DomainBuckets => OnDomain(u)}

Exactly(B, c, R) ==
    /\ B = {"anchors"} => Activity!AnchorsExactly(c, R)
    /\ B = Activity!DomainBuckets => Activity!DomainsExactly(c, R)
    /\ B = Activity!MethodBuckets => Activity!MethodsExactly(c, R)

From(R, start) == {u \in R : u.time >= start}
Between(R, start, end) == {u \in R : start <= u.time /\ u.time < end}
DayOf(time) == StartOf(0, time)

\* The periods of s count the uses R.
Counted(B, s, R, change) ==
    /\ \A u \in R : u.time < s.day.start + Day
    /\ change < s.day.start => Exactly(B, s.day, From(R, s.day.start))
    /\ \A j \in 1..Len(s.months) :
          change < s.months[j].start => Exactly(B, s.months[j], From(R, s.months[j].start))
    /\ \A c \in Activity!Range(s.completedDay) :
          change < c.start => Exactly(B, c, Between(R, c.start, s.day.start))
    /\ \A c \in Activity!Range(s.completedMonth) :
          change < c.start /\ Between(R, c.start, c.start + Day) # {} =>
              Exactly(B, c, Between(R, c.start, s.day.start))
    /\ \A u \in R : \/ DayOf(u.time) + Activity!Month <= s.day.start
                    \/ \E j \in 1..Len(s.months) : s.months[j].start = DayOf(u.time)

CountedInv ==
    /\ PeriodsInv
    /\ KeysTellUses
    /\ Counted({"anchors"}, activeAnchors, Relevant({"anchors"}, uses), lastChange)
    /\ Counted(Activity!DomainBuckets, activeDomains,
               Relevant(Activity!DomainBuckets, uses), lastChange)
    /\ Counted(Activity!MethodBuckets, activeMethods,
               Relevant(Activity!MethodBuckets, uses), lastChange)

LEMMA UsedSince ==
    ASSUME PeriodsInv, KeysTellUses, NEW x \in 0..now, lastChange < x
    PROVE  /\ \A k \in DOMAIN keys :
                 keys[k].used >= x <=> \E u \in From(uses, x) : u.key = k
           /\ \A u \in From(uses, x) : /\ u.key \in DOMAIN keys
                                       /\ keys[u.key].origin = u.origin
                                       /\ keys[u.key].used >= x
<1>0. /\ now \in Nat /\ lastChange \in Int
      /\ \A k \in DOMAIN keys : keys[k].used \in Int
      /\ \A u \in uses : u.time \in Int
  BY DEF PeriodsInv, GoodKeys, KeysTellUses, Activity!Never
<1>1. ASSUME NEW u \in From(uses, x)
      PROVE  /\ u.key \in DOMAIN keys
             /\ keys[u.key].origin = u.origin
             /\ keys[u.key].used >= x
  <2>1. u \in uses /\ u.time >= x /\ u.time > lastChange
    BY <1>0 DEF From
  <2>2. u.key \in DOMAIN keys /\ keys[u.key].origin = u.origin /\ keys[u.key].used >= u.time
    BY <2>1 DEF KeysTellUses
  <2> QED
    BY <1>0, <2>1, <2>2
<1>2. ASSUME NEW k \in DOMAIN keys, keys[k].used >= x
      PROVE  \E u \in From(uses, x) : u.key = k
  <2>1. keys[k].used # Activity!Never
    BY <1>0, <1>2 DEF Activity!Never
  <2>2. PICK u \in uses : u.key = k /\ u.time = keys[k].used
    BY <2>1 DEF KeysTellUses
  <2> QED
    BY <1>2, <2>2 DEF From
<1> QED
  BY <1>1, <1>2

LEMMA GreatestOf ==
    ASSUME NEW n \in Nat, NEW S \in SUBSET (-1..n), S # {}
    PROVE  Activity!Max(S) \in S /\ \A x \in S : Activity!Max(S) >= x
<1> DEFINE T == {x + 1 : x \in S}
<1>1. T \in SUBSET (0..n + 1) /\ T # {} /\ n + 1 \in Int
  <2>1. \A x \in S : x \in -1..n
    OBVIOUS
  <2>2. \A x \in S : x + 1 \in 0..n + 1
    BY <2>1
  <2>3. \A y \in T : y \in 0..n + 1
    BY <2>2
  <2>4. PICK x \in S : TRUE
    OBVIOUS
  <2>5. x + 1 \in T
    OBVIOUS
  <2> HIDE DEF T
  <2> QED
    BY <2>3, <2>5
<1>2. PICK m \in T : \A y \in T : y <= m
  BY <1>1, MaxNat
<1>3. PICK x \in S : m = x + 1
  BY <1>2
<1>4. \A y \in S : x >= y
  <2>1. SUFFICES ASSUME NEW y \in S PROVE x >= y
    OBVIOUS
  <2>2. y + 1 <= m
    BY <1>2
  <2> QED
    BY <1>3, <2>2
<1> QED
  BY <1>4 DEF Activity!Max

LEMMA ActiveSince ==
    ASSUME PeriodsInv, KeysTellUses, NEW x \in 0..now, lastChange < x, NEW a
    PROVE  x > Activity!LastActivity(a) <=> a \notin Activity!AnchorsIn(From(uses, x))
<1> DEFINE S == {Activity!Never} \cup {keys[k].used : k \in Activity!KeysOf(a)}
<1>1. now \in Nat /\ S \in SUBSET (-1..now) /\ S # {} /\ Activity!Never = -1
  BY DEF PeriodsInv, GoodKeys, Activity!Never, Activity!KeysOf
<1>2. Activity!Max(S) \in S /\ \A y \in S : Activity!Max(S) >= y
  BY <1>1, GreatestOf
<1>3. Activity!LastActivity(a) = Activity!Max(S)
  BY DEF Activity!LastActivity
<1>4. a \in Activity!AnchorsIn(From(uses, x)) <=>
          \E k \in DOMAIN keys : AnchorOf[k] = a /\ keys[k].used >= x
  <2>1. a \in Activity!AnchorsIn(From(uses, x)) <=>
          \E u \in From(uses, x) : AnchorOf[u.key] = a
    BY DEF Activity!AnchorsIn
  <2> QED
    BY <2>1, UsedSince
<1>5. (\E k \in DOMAIN keys : AnchorOf[k] = a /\ keys[k].used >= x)
          <=> \E y \in S : y >= x
  BY <1>1 DEF Activity!KeysOf
<1> DEFINE m == Activity!Max(S)
<1> HIDE DEF S, m
<1>6. m \in S /\ (\A y \in S : m >= y) /\ m \in Int /\ \A y \in S : y \in Int
  <2>1. \A y \in S : y \in Int
    BY <1>1
  <2> QED
    BY <1>2, <2>1 DEF m
<1>7. x > m <=> ~(\E y \in S : y >= x)
  BY <1>1, <1>6
<1> QED
  BY <1>3, <1>4, <1>5, <1>7 DEF m

LEMMA FiniteKeys == IsFiniteSet(Keys) /\ Cardinality(Keys) < Modulus
<1>1. Activity!IsFiniteSet(Keys) <=> IsFiniteSet(Keys)
  BY DEF Activity!IsFiniteSet, IsFiniteSet
<1> QED
  BY <1>1, SameActivityCardinality, MCStatisticsAssumption
     DEF Activity!ActivityStatsAssumption

LEMMA FewKeys ==
    ASSUME NEW A \in SUBSET Keys
    PROVE  IsFiniteSet(A) /\ Cardinality(A) \in Count
<1>1. IsFiniteSet(A) /\ Cardinality(A) <= Cardinality(Keys) /\ Cardinality(A) \in Nat
      /\ Cardinality(Keys) \in Nat
  BY FiniteKeys, FS_Subset, FS_CardinalityType
<1> QED
  BY <1>1, FiniteKeys, ModulusFact DEF Count

Anchors == {AnchorOf[k] : k \in Keys}

LEMMA FewAnchors ==
    ASSUME NEW A \in SUBSET Anchors
    PROVE  IsFiniteSet(A) /\ Cardinality(A) \in Count
<1>1. IsFiniteSet(Anchors) /\ Cardinality(Anchors) <= Cardinality(Keys)
  <2> DEFINE f == [k \in Keys |-> AnchorOf[k]]
  <2>1. f \in Surjection(Keys, Anchors)
    BY DEF Surjection, Anchors
  <2> HIDE DEF f
  <2> QED
    BY <2>1, FiniteKeys, FS_Surjection
<1>2. IsFiniteSet(A) /\ Cardinality(A) <= Cardinality(Anchors) /\ Cardinality(A) \in Nat
      /\ Cardinality(Keys) \in Nat /\ Cardinality(Anchors) \in Nat
  BY <1>1, FiniteKeys, FS_Subset, FS_CardinalityType
<1> QED
  BY <1>1, <1>2, FiniteKeys, ModulusFact DEF Count

\* A bucket counts one more.
LEMMA OneMore ==
    ASSUME NEW B, NEW c \in Counters(B), NEW b \in B, c.counts[b] + 1 \in Count
    PROVE  /\ Activity!Increment(c, b).counts[b] = c.counts[b] + 1
           /\ \A d \in B \ {b} : Activity!Increment(c, b).counts[d] = c.counts[d]
<1>1. /\ Activity!Increment(c, b).counts[b] = (c.counts[b] + 1) % Modulus
      /\ \A d \in B \ {b} : Activity!Increment(c, b).counts[d] = c.counts[d]
  BY IncrementFact
<1>2. (c.counts[b] + 1) % Modulus = c.counts[b] + 1
  <2> DEFINE x == c.counts[b] + 1
  <2>1. x \in 0..Modulus - 1 /\ Modulus \in Nat \ {0}
    BY ModulusFact DEF Count
  <2> HIDE DEF x
  <2>2. x % Modulus = x
    BY <2>1
  <2> QED
    BY <2>2 DEF x
<1> QED
  BY <1>1, <1>2

-----------------------------------------------------------------------------
(***************************************************************************)
(* Counting one more use.                                                  *)
(***************************************************************************)

\* A call by the key k.
CallBy(u, k) == u.key = k /\ u.origin = keys[k].origin

LEMMA CountEventIs ==
    ASSUME NEW c, NEW k
    PROVE  /\ Activity!CountEvent({"anchors"}, c, k) = Activity!CountAnchor(c, k)
           /\ Activity!CountEvent(Activity!DomainBuckets, c, k) = Activity!CountDomain(c, k)
           /\ Activity!CountEvent(Activity!MethodBuckets, c, k) = Activity!CountMethod(c, k)
           /\ {"anchors"} # Activity!DomainBuckets /\ {"anchors"} # Activity!MethodBuckets
           /\ Activity!DomainBuckets # Activity!MethodBuckets
<1>1. /\ {"anchors"} # Activity!DomainBuckets /\ {"anchors"} # Activity!MethodBuckets
      /\ Activity!DomainBuckets # Activity!MethodBuckets
  <2>1. /\ "anchors" \notin Activity!DomainBuckets /\ "anchors" \notin Activity!MethodBuckets
        /\ "both" \in Activity!DomainBuckets /\ "both" \notin Activity!MethodBuckets
    BY DEF Activity!DomainBuckets, Activity!MethodBuckets, Activity!IIDomains,
           Activity!Credential
  <2> QED
    BY <2>1
<1> QED
  BY <1>1 DEF Activity!CountEvent

LEMMA AnchorsCounted ==
    ASSUME PeriodsInv, KeysTellUses, NEW c \in Counters({"anchors"}), c.start \in 0..now,
           lastChange < c.start, NEW k \in DOMAIN keys, NEW u, CallBy(u, k),
           Activity!AnchorsExactly(c, From(uses, c.start))
    PROVE  Activity!AnchorsExactly(Activity!CountAnchor(c, k), From(uses, c.start) \cup {u})
<1> DEFINE U == From(uses, c.start)
           a == AnchorOf[k]
           A == Activity!AnchorsIn(U)
<1>1. Activity!AnchorsIn(U \cup {u}) = A \cup {a}
  BY DEF Activity!AnchorsIn, CallBy
<1>2. A \cup {a} \in SUBSET Anchors
  <2>1. \A v \in U : v.key \in Keys
    BY DEF KeysTellUses, From
  <2>2. k \in Keys
    BY DEF PeriodsInv, GoodKeys
  <2> QED
    BY <2>1, <2>2 DEF Activity!AnchorsIn, Anchors
<1>3. IsFiniteSet(A) /\ Cardinality(A) \in Count /\ Cardinality(A \cup {a}) \in Count
  BY <1>2, FewAnchors
<1>4. c.counts["anchors"] = Cardinality(A)
  BY SameActivityCardinality DEF Activity!AnchorsExactly
<1>5. c.start > Activity!LastActivity(a) <=> a \notin A
  BY ActiveSince
<1> HIDE DEF A, a, U
<1>6. Activity!CountAnchor(c, k).counts["anchors"] = Cardinality(A \cup {a})
  <2>1. CASE a \in A
    <3>1. A \cup {a} = A
      BY <2>1
    <3> QED
      BY <1>4, <1>5, <2>1, <3>1 DEF Activity!CountAnchor, a
  <2>2. CASE a \notin A
    <3>1. Cardinality(A \cup {a}) = Cardinality(A) + 1
      BY <1>3, <2>2, FS_AddElement
    <3>2. "anchors" \in {"anchors"} /\ c.counts["anchors"] + 1 \in Count
      BY <1>3, <1>4, <3>1
    <3>3. Activity!Increment(c, "anchors").counts["anchors"] = c.counts["anchors"] + 1
      BY <3>2, OneMore
    <3> QED
      BY <1>4, <1>5, <2>2, <3>1, <3>3 DEF Activity!CountAnchor, a
  <2> QED
    BY <2>1, <2>2
<1> QED
  BY <1>1, <1>6, SameActivityCardinality DEF Activity!AnchorsExactly, U

\* The keys by method that were used.
Marked(v) == \/ v.origin \in Activity!IIDomains
             \/ MethodOf[v.key] \notin {"webauthn_auth", "webauthn_recovery", "other"}
KeysBy(R, b) == {k \in {v.key : v \in {w \in R : Marked(w)}} : MethodOf[k] = b}

LEMMA MethodsAre ==
    ASSUME NEW c, NEW R
    PROVE  Activity!MethodsExactly(c, R)
             <=> \A b \in Activity!MethodBuckets : c.counts[b] = Cardinality(KeysBy(R, b))
  BY SameActivityCardinality DEF Activity!MethodsExactly, KeysBy, Marked

LEMMA MethodsCounted ==
    ASSUME PeriodsInv, KeysTellUses, NEW c \in Counters(Activity!MethodBuckets),
           c.start \in 0..now, lastChange < c.start,
           NEW k \in DOMAIN keys, NEW u, CallBy(u, k),
           Activity!MethodsExactly(c, From(uses, c.start))
    PROVE  Activity!MethodsExactly(Activity!CountMethod(c, k), From(uses, c.start) \cup {u})
<1> DEFINE U == From(uses, c.start)
           V == U \cup {u}
           m == MethodOf[k]
           counted == Activity!CountMethod(c, k)
<1>0. k \in Keys /\ m \in Activity!MethodBuckets /\ u.key = k
      /\ \A v \in U : v.key \in Keys
  <2>1. MethodOf \in [Keys -> Activity!MethodBuckets]
    BY MCStatisticsAssumption DEF Activity!ActivityStatsAssumption
  <2> QED
    BY <2>1 DEF PeriodsInv, GoodKeys, KeysTellUses, From, CallBy
<1>1. \A b \in Activity!MethodBuckets : c.counts[b] = Cardinality(KeysBy(U, b))
  BY MethodsAre
<1>2. keys[k].used >= c.start <=> \E v \in U : v.key = k
  BY UsedSince
<1>3. \A v \in U : v.key = k => (Marked(v) <=> Marked(u))
  BY <1>0, UsedSince DEF Marked, CallBy
<1>4. Activity!MethodBucket(k) = IF Marked(u) THEN {m} ELSE {}
  <2>1. m \in {"recovery_phrase", "browser_storage_key", Activity!Credential}
            <=> m \notin {"webauthn_auth", "webauthn_recovery", "other"}
    BY <1>0 DEF Activity!MethodBuckets, Activity!Credential
  <2>2. Marked(u) <=> \/ keys[k].origin \in Activity!IIDomains
                      \/ m \notin {"webauthn_auth", "webauthn_recovery", "other"}
    BY <1>0 DEF Marked, CallBy
  <2> QED
    BY <2>1, <2>2 DEF Activity!MethodBucket
<1>5. \A b : KeysBy(V, b) \subseteq Keys /\ KeysBy(U, b) \subseteq Keys
  BY <1>0 DEF KeysBy
<1> HIDE DEF U
<1>6. CASE (\E v \in U : v.key = k) \/ ~Marked(u)
  <2>1. counted = c
    BY <1>2, <1>4, <1>6 DEF Activity!CountMethod
  <2>2. ASSUME NEW b PROVE KeysBy(V, b) = KeysBy(U, b)
    BY <1>0, <1>3, <1>6 DEF KeysBy
  <2> QED
    BY <1>1, <2>1, <2>2, MethodsAre DEF U
<1>7. CASE (\A v \in U : v.key # k) /\ Marked(u)
  <2>1. counted = Activity!Increment(c, m)
    <3>1. (CHOOSE b \in Activity!MethodBuckets : b \in {m}) = m
      BY <1>0
    <3>2. Activity!MethodBucket(k) = {m} /\ {m} # {} /\ ~(keys[k].used >= c.start)
      BY <1>2, <1>4, <1>7
    <3> HIDE DEF m
    <3> QED
      BY <3>1, <3>2 DEF Activity!CountMethod
  <2>2. KeysBy(V, m) = KeysBy(U, m) \cup {k} /\ k \notin KeysBy(U, m)
    BY <1>0, <1>7 DEF KeysBy
  <2>3. ASSUME NEW b, b # m PROVE KeysBy(V, b) = KeysBy(U, b)
    BY <1>0, <2>3 DEF KeysBy
  <2> HIDE DEF V, m
  <2>4. IsFiniteSet(KeysBy(U, m)) /\ Cardinality(KeysBy(U, m)) \in Count
        /\ Cardinality(KeysBy(V, m)) \in Count
    BY <1>5, FewKeys
  <2>5. Cardinality(KeysBy(V, m)) = Cardinality(KeysBy(U, m)) + 1
    BY <2>2, <2>4, FS_AddElement
  <2>6. c.counts[m] + 1 \in Count
    BY <1>0, <1>1, <2>4, <2>5 DEF m
  <2>7. /\ counted.counts[m] = c.counts[m] + 1
        /\ \A b \in Activity!MethodBuckets \ {m} : counted.counts[b] = c.counts[b]
    BY <1>0, <2>1, <2>6, OneMore DEF m
  <2> HIDE DEF counted
  <2>8. \A b \in Activity!MethodBuckets : counted.counts[b] = Cardinality(KeysBy(V, b))
    BY <1>1, <2>3, <2>5, <2>7
  <2> QED
    BY <2>8, MethodsAre DEF counted, V, U
<1> QED
  BY <1>6, <1>7

\* The anchors that were active on one domain only, and on several.
OnlyOn(R, d) == {a \in Activity!AnchorsIn(R) : Activity!DomainsIn(a, R) = {d}}
Several(D) == \E e, f \in D : e # f
OnSeveral(R) == {a \in Activity!AnchorsIn(R) : Several(Activity!DomainsIn(a, R))}

LEMMA SeveralIs ==
    ASSUME NEW D \in SUBSET Activity!IIDomains
    PROVE  Activity!Cardinality(D) > 1 <=> Several(D)
<1>1. IsFiniteSet(D) /\ Cardinality(D) \in Nat
  <2>1. IsFiniteSet(Activity!IIDomains)
    <3>1. IsFiniteSet({"Ic0App"}) /\ IsFiniteSet({"InternetComputerOrg"})
          /\ IsFiniteSet({"IdAi"})
      BY FS_Singleton
    <3>2. IsFiniteSet({"Ic0App"} \cup {"InternetComputerOrg"})
      BY <3>1, FS_Union
    <3>3. IsFiniteSet(({"Ic0App"} \cup {"InternetComputerOrg"}) \cup {"IdAi"})
      BY <3>1, <3>2, FS_Union
    <3>4. ({"Ic0App"} \cup {"InternetComputerOrg"}) \cup {"IdAi"} = Activity!IIDomains
      BY DEF Activity!IIDomains
    <3> QED
      BY <3>3, <3>4
  <2> QED
    BY <2>1, FS_Subset, FS_CardinalityType
<1>2. ASSUME NEW e \in D, NEW f \in D, e # f PROVE Cardinality(D) > 1
  <2>1. {e} \cup {f} \in SUBSET D
    OBVIOUS
  <2>2. IsFiniteSet({e}) /\ Cardinality({e}) = 1 /\ f \notin {e}
    BY <1>2, FS_Singleton
  <2>3. Cardinality({e} \cup {f}) = Cardinality({e}) + 1
    BY <2>2, FS_AddElement
  <2>4. Cardinality({e} \cup {f}) <= Cardinality(D)
    BY <1>1, <2>1, FS_Subset
  <2> QED
    BY <1>1, <2>2, <2>3, <2>4
<1>3. ASSUME ~Several(D) PROVE ~(Cardinality(D) > 1)
  <2>1. CASE D = {}
    BY <2>1, FS_EmptySet
  <2>2. CASE D # {}
    <3>1. PICK e \in D : TRUE
      BY <2>2
    <3>2. D = {e}
      BY <1>3, <3>1 DEF Several
    <3> QED
      BY <3>2, FS_Singleton
  <2> QED
    BY <2>1, <2>2
<1> QED
  BY <1>2, <1>3, SameActivityCardinality DEF Several

LEMMA DomainsAre ==
    ASSUME NEW c, NEW R
    PROVE  Activity!DomainsExactly(c, R)
             <=> /\ \A d \in Activity!IIDomains : c.counts[d] = Cardinality(OnlyOn(R, d))
                 /\ c.counts["both"] = Cardinality(OnSeveral(R))
<1>1. \A d : Activity!Cardinality({a \in Activity!AnchorsIn(R) : Activity!DomainsIn(a, R) = {d}})
               = Cardinality(OnlyOn(R, d))
  BY SameActivityCardinality DEF OnlyOn
<1>2. \A a : Activity!DomainsIn(a, R) \in SUBSET Activity!IIDomains
  BY DEF Activity!DomainsIn
<1>3. {a \in Activity!AnchorsIn(R) : Activity!Cardinality(Activity!DomainsIn(a, R)) > 1}
        = OnSeveral(R)
  BY <1>2, SeveralIs DEF OnSeveral
<1>4. Activity!Cardinality(
          {a \in Activity!AnchorsIn(R) : Activity!Cardinality(Activity!DomainsIn(a, R)) > 1})
        = Cardinality(OnSeveral(R))
  BY <1>3, SameActivityCardinality
<1> QED
  BY <1>1, <1>4 DEF Activity!DomainsExactly

\* Only calls on an II domain matter for the counters by domain.
LEMMA OnlyRelevantCount ==
    ASSUME NEW c, NEW R
    PROVE  Activity!DomainsExactly(c, {u \in R : OnDomain(u)}) <=> Activity!DomainsExactly(c, R)
<1> DEFINE Q == {u \in R : OnDomain(u)}
<1>1. \A a : Activity!DomainsIn(a, Q) = Activity!DomainsIn(a, R)
  BY DEF Activity!DomainsIn, OnDomain
<1>2. \A a : Activity!DomainsIn(a, R) # {} =>
               a \in Activity!AnchorsIn(Q) /\ a \in Activity!AnchorsIn(R)
  BY DEF Activity!DomainsIn, Activity!AnchorsIn, OnDomain
<1> HIDE DEF Q
<1>3. \A d : OnlyOn(Q, d) = OnlyOn(R, d)
  BY <1>1, <1>2 DEF OnlyOn
<1>4. OnSeveral(Q) = OnSeveral(R)
  BY <1>1, <1>2 DEF OnSeveral, Several
<1>5. Activity!DomainsExactly(c, Q) <=> Activity!DomainsExactly(c, R)
  BY <1>3, <1>4, DomainsAre
<1> QED
  BY <1>5 DEF Q

\* On which II domains an anchor was active.
LEMMA DomainsSince ==
    ASSUME PeriodsInv, KeysTellUses, NEW x \in 0..now, lastChange < x, NEW a
    PROVE  Activity!UsedDomains(a, x) \cap Activity!IIDomains
             = Activity!DomainsIn(a, From(uses, x))
<1> DEFINE U == From(uses, x)
           Dev(k) == AnchorOf[k] = a /\ MethodOf[k] # Activity!Credential
<1>1. \A o : o \in Activity!UsedDomains(a, x)
               <=> \E k \in DOMAIN keys : Dev(k) /\ keys[k].used >= x /\ o = keys[k].origin
  BY DEF Activity!UsedDomains, Activity!KeysOf
<1>2. \A o : o \in Activity!DomainsIn(a, U)
               <=> o \in Activity!IIDomains /\ \E u \in U : Dev(u.key) /\ o = u.origin
  BY DEF Activity!DomainsIn
<1>3. \A k \in DOMAIN keys : keys[k].used >= x <=> \E u \in U : u.key = k
  BY UsedSince
<1>4. \A u \in U : u.key \in DOMAIN keys /\ keys[u.key].origin = u.origin
  BY UsedSince
<1> HIDE DEF U, Dev
<1>5. \A o : (\E k \in DOMAIN keys : Dev(k) /\ keys[k].used >= x /\ o = keys[k].origin)
               <=> \E u \in U : Dev(u.key) /\ o = u.origin
  BY <1>3, <1>4
<1> QED
  BY <1>1, <1>2, <1>5 DEF U

\* What domain_activity_since makes of it.
LEMMA ActivityIs ==
    ASSUME NEW a, NEW x, NEW D, D = Activity!UsedDomains(a, x) \cap Activity!IIDomains
    PROVE  LET activity == Activity!DomainActivitySince(a, x)
           IN  /\ D = {} => activity \in {"None", "NonIIDomain"}
               /\ \A e : D = {e} => activity = e
               /\ Several(D) => activity = "both"
<1> DEFINE origins == Activity!UsedDomains(a, x)
<1>1. Activity!Cardinality(D) > 1 <=> Several(D)
  <2>1. D \in SUBSET Activity!IIDomains
    OBVIOUS
  <2> QED
    BY <2>1, SeveralIs
<1>2. Activity!DomainActivitySince(a, x) =
        IF Several(D) THEN "both"
        ELSE IF D # {} THEN CHOOSE o \in Activity!IIDomains : o \in origins
        ELSE IF origins # {} THEN "NonIIDomain"
        ELSE "None"
  BY <1>1 DEF Activity!DomainActivitySince
<1>3. ASSUME NEW e, D = {e} PROVE (CHOOSE o \in Activity!IIDomains : o \in origins) = e
  <2>1. \A o : o \in Activity!IIDomains /\ o \in origins <=> o = e
    BY <1>3
  <2> HIDE DEF origins
  <2>2. (CHOOSE o \in Activity!IIDomains : o \in origins) \in Activity!IIDomains
        /\ (CHOOSE o \in Activity!IIDomains : o \in origins) \in origins
    BY <2>1
  <2> QED
    BY <2>1, <2>2
<1> HIDE DEF origins
<1>4. \A e : D = {e} => ~Several(D) /\ D # {}
  BY DEF Several
<1>5. D = {} => ~Several(D)
  BY DEF Several
<1> QED
  BY <1>2, <1>3, <1>4, <1>5

LEMMA DomainsCounted ==
    ASSUME PeriodsInv, KeysTellUses, NEW c \in Counters(Activity!DomainBuckets),
           c.start \in 0..now, lastChange < c.start,
           NEW k \in DOMAIN keys, NEW u, CallBy(u, k), OnDomain(u),
           Activity!DomainsExactly(c, From(uses, c.start))
    PROVE  Activity!DomainsExactly(Activity!CountDomain(c, k), From(uses, c.start) \cup {u})
<1> DEFINE U == From(uses, c.start)
           V == U \cup {u}
           a == AnchorOf[k]
           d == keys[k].origin
           D == Activity!DomainsIn(a, U)
           I == Activity!IIDomains
           counted == Activity!CountDomain(c, k)
           activity == Activity!DomainActivitySince(a, c.start)
<1>0. k \in Keys /\ u.key = k /\ u.origin = d /\ d \in I /\ MethodOf[k] # Activity!Credential
      /\ \A v \in U : v.key \in Keys
  BY DEF PeriodsInv, GoodKeys, KeysTellUses, From, CallBy, OnDomain
<1>1. /\ \A e \in I : c.counts[e] = Cardinality(OnlyOn(U, e))
      /\ c.counts["both"] = Cardinality(OnSeveral(U))
  BY DomainsAre
<1>2. D = Activity!UsedDomains(a, c.start) \cap I /\ D \in SUBSET I
  BY DomainsSince DEF Activity!DomainsIn
<1>3. /\ D = {} => activity \in {"None", "NonIIDomain"}
      /\ \A e : D = {e} => activity = e
      /\ Several(D) => activity = "both"
  BY <1>2, ActivityIs
<1>4. Activity!AnchorsIn(V) = Activity!AnchorsIn(U) \cup {a}
  BY <1>0 DEF Activity!AnchorsIn
<1>5. /\ Activity!DomainsIn(a, V) = D \cup {d}
      /\ \A b : b # a => Activity!DomainsIn(b, V) = Activity!DomainsIn(b, U)
  BY <1>0 DEF Activity!DomainsIn
<1>6. \A b : Activity!DomainsIn(b, U) # {} => b \in Activity!AnchorsIn(U)
  BY DEF Activity!DomainsIn, Activity!AnchorsIn
<1>7. /\ a \in Anchors
      /\ Activity!AnchorsIn(U) \subseteq Anchors
      /\ \A R \in {U, V} : OnSeveral(R) \subseteq Anchors /\ \A e : OnlyOn(R, e) \subseteq Anchors
  <2>1. a \in Anchors /\ Activity!AnchorsIn(U) \subseteq Anchors
    BY <1>0 DEF Anchors, Activity!AnchorsIn
  <2> QED
    BY <1>4, <2>1 DEF OnSeveral, OnlyOn
<1>8. counted = IF activity \in {"None", "NonIIDomain"} THEN Activity!Increment(c, d)
                ELSE IF activity \in I \ {d}
                     THEN Activity!Increment(Activity!Decrement(c, activity), "both")
                ELSE c
  BY DEF Activity!CountDomain
<1>9. /\ \A e \in I : e \in Activity!DomainBuckets /\ e # "both" /\ e \notin {"None", "NonIIDomain"}
      /\ "both" \in Activity!DomainBuckets /\ "both" \notin {"None", "NonIIDomain"}
      /\ "both" \notin I
  BY DEF Activity!IIDomains, Activity!DomainBuckets
<1> HIDE DEF U, V, a, d, D, I, counted, activity
<1>10. \A e : OnlyOn(V, e) = (OnlyOn(U, e) \ {a}) \cup (IF D \cup {d} = {e} THEN {a} ELSE {})
  BY <1>4, <1>5 DEF OnlyOn
<1>11. OnSeveral(V) = (OnSeveral(U) \ {a}) \cup (IF Several(D \cup {d}) THEN {a} ELSE {})
  BY <1>4, <1>5 DEF OnSeveral
<1>12. /\ \A e : a \in OnlyOn(U, e) <=> D = {e}
       /\ a \in OnSeveral(U) <=> Several(D)
  <2>1. Several(D) => D # {}
    BY DEF Several
  <2> QED
    BY <1>6, <2>1 DEF OnlyOn, OnSeveral, D
<1>13. SUFFICES /\ \A e \in I : counted.counts[e] = Cardinality(OnlyOn(V, e))
                /\ counted.counts["both"] = Cardinality(OnSeveral(V))
  BY DomainsAre DEF counted, V, U, I
<1>14. /\ \A e : IsFiniteSet(OnlyOn(U, e)) /\ Cardinality(OnlyOn(U, e)) \in Count
       /\ \A e : IsFiniteSet(OnlyOn(V, e)) /\ Cardinality(OnlyOn(V, e)) \in Count
       /\ IsFiniteSet(OnSeveral(U)) /\ Cardinality(OnSeveral(U)) \in Count
       /\ IsFiniteSet(OnSeveral(V)) /\ Cardinality(OnSeveral(V)) \in Count
  BY <1>7, FewAnchors
<1>15. CASE D = {}
  <2>1. counted = Activity!Increment(c, d)
    BY <1>3, <1>8, <1>15
  <2>2. \A e : e # d => OnlyOn(V, e) = OnlyOn(U, e)
    BY <1>10, <1>12, <1>15
  <2>3. OnlyOn(V, d) = OnlyOn(U, d) \cup {a} /\ a \notin OnlyOn(U, d)
    BY <1>10, <1>12, <1>15
  <2>4. OnSeveral(V) = OnSeveral(U)
    <3>1. ~Several(D \cup {d}) /\ ~Several(D)
      BY <1>15 DEF Several
    <3> QED
      BY <1>11, <1>12, <3>1
  <2>5. Cardinality(OnlyOn(V, d)) = Cardinality(OnlyOn(U, d)) + 1
    BY <1>14, <2>3, FS_AddElement
  <2>6. c.counts[d] + 1 \in Count
    BY <1>0, <1>1, <1>14, <2>5 DEF d, I
  <2>7. d \in Activity!DomainBuckets /\ d \in I
    BY <1>0, <1>9 DEF d, I
  <2>8. /\ counted.counts[d] = c.counts[d] + 1
        /\ \A b \in Activity!DomainBuckets \ {d} : counted.counts[b] = c.counts[b]
    BY <2>1, <2>6, <2>7, OneMore
  <2> QED
    BY <1>1, <1>9, <2>2, <2>4, <2>5, <2>7, <2>8
<1>16. CASE D = {d} \/ Several(D)
  <2>1. counted = c
    <3>1. activity = d \/ activity = "both"
      BY <1>3, <1>16
    <3>2. activity \notin {"None", "NonIIDomain"} /\ activity \notin I \ {d}
      BY <1>0, <1>9, <3>1 DEF d, I
    <3> QED
      BY <1>8, <3>2
  <2>2. \A e : D \cup {d} = {e} <=> D = {e}
    BY <1>16 DEF Several
  <2>3. Several(D \cup {d}) <=> Several(D)
    BY <1>16 DEF Several
  <2>4. ASSUME NEW e PROVE OnlyOn(V, e) = OnlyOn(U, e)
    <3>1. a \in OnlyOn(U, e) <=> D \cup {d} = {e}
      BY <1>12, <2>2
    <3>2. OnlyOn(V, e) = (OnlyOn(U, e) \ {a}) \cup (IF D \cup {d} = {e} THEN {a} ELSE {})
      BY <1>10
    <3>3. CASE D \cup {d} = {e}
      BY <3>1, <3>2, <3>3
    <3>4. CASE D \cup {d} # {e}
      BY <3>1, <3>2, <3>4
    <3> QED
      BY <3>3, <3>4
  <2>5. OnSeveral(V) = OnSeveral(U)
    BY <1>11, <1>12, <2>3
  <2> QED
    BY <1>1, <2>1, <2>4, <2>5
<1>17. ASSUME NEW e, D = {e}, e # d
       PROVE  /\ \A f \in I : counted.counts[f] = Cardinality(OnlyOn(V, f))
              /\ counted.counts["both"] = Cardinality(OnSeveral(V))
  <2> DEFINE less == Activity!Decrement(c, e)
  <2>0. e \in I /\ e \in Activity!DomainBuckets /\ e # "both" /\ activity = e
    BY <1>2, <1>3, <1>9, <1>17 DEF D, I
  <2>1. counted = Activity!Increment(less, "both")
    BY <1>8, <1>9, <1>17, <2>0
  <2>2. ASSUME NEW f, f # e PROVE OnlyOn(V, f) = OnlyOn(U, f)
    <3>1. D \cup {d} # {f} /\ D # {f}
      BY <1>17, <2>2
    <3>2. a \notin OnlyOn(U, f)
      BY <1>12, <3>1
    <3>3. OnlyOn(V, f) = OnlyOn(U, f) \ {a}
      BY <1>10, <3>1
    <3> QED
      BY <3>2, <3>3
  <2>3. OnlyOn(V, e) = OnlyOn(U, e) \ {a} /\ a \in OnlyOn(U, e)
    <3>1. D \cup {d} # {e}
      BY <1>17
    <3> QED
      BY <1>10, <1>12, <1>17, <3>1
  <2>4. OnSeveral(V) = OnSeveral(U) \cup {a} /\ a \notin OnSeveral(U)
    <3>1. Several(D \cup {d}) /\ ~Several(D)
      BY <1>17 DEF Several
    <3> QED
      BY <1>11, <1>12, <3>1
  <2>5. /\ Cardinality(OnlyOn(V, e)) = Cardinality(OnlyOn(U, e)) - 1
        /\ Cardinality(OnSeveral(V)) = Cardinality(OnSeveral(U)) + 1
    <3>1. Cardinality(OnlyOn(V, e)) = Cardinality(OnlyOn(U, e)) - 1
      BY <1>14, <2>3, FS_RemoveElement
    <3>2. Cardinality(OnSeveral(V)) = Cardinality(OnSeveral(U)) + 1
      BY <1>14, <2>4, FS_AddElement
    <3> QED
      BY <3>1, <3>2
  <2>6. c.counts[e] > 0 /\ c.counts[e] - 1 = Cardinality(OnlyOn(V, e))
        /\ c.counts["both"] + 1 = Cardinality(OnSeveral(V))
    <3>1. Cardinality(OnlyOn(U, e)) \in Nat /\ Cardinality(OnlyOn(V, e)) \in Nat
      BY <1>14 DEF Count
    <3> QED
      BY <1>1, <2>0, <2>5, <3>1
  <2>7. /\ less \in Counters(Activity!DomainBuckets)
        /\ less.counts[e] = c.counts[e] - 1
        /\ \A b \in Activity!DomainBuckets \ {e} : less.counts[b] = c.counts[b]
    BY <2>0, <2>6, DecrementFact
  <2>8. less.counts["both"] = c.counts["both"] /\ less.counts["both"] + 1 \in Count
    BY <1>9, <1>14, <2>0, <2>6, <2>7
  <2> HIDE DEF less
  <2>9. /\ counted.counts["both"] = less.counts["both"] + 1
        /\ \A b \in Activity!DomainBuckets \ {"both"} : counted.counts[b] = less.counts[b]
    BY <1>9, <2>1, <2>7, <2>8, OneMore
  <2>10. counted.counts["both"] = Cardinality(OnSeveral(V))
    BY <2>6, <2>8, <2>9
  <2>11. ASSUME NEW f \in I PROVE counted.counts[f] = Cardinality(OnlyOn(V, f))
    <3>1. counted.counts[f] = less.counts[f] /\ f \in Activity!DomainBuckets
      BY <1>9, <2>9
    <3>2. CASE f = e
      BY <2>6, <2>7, <3>1, <3>2
    <3>3. CASE f # e
      BY <1>1, <2>2, <2>7, <3>1, <3>3
    <3> QED
      BY <3>2, <3>3
  <2> QED
    BY <2>10, <2>11
<1> QED
  <2>1. D = {} \/ D = {d} \/ Several(D) \/ \E e : D = {e} /\ e # d
    BY DEF Several
  <2> QED
    BY <1>15, <1>16, <1>17, <2>1

LEMMA NobodyCounted ==
    ASSUME NEW B \in BucketSets, NEW x \in Int
    PROVE  Exactly(B, Activity!NewCounter(B, x), {})
<1> DEFINE c == Activity!NewCounter(B, x)
<1>1. c.counts = [b \in B |-> 0]
  BY NewCounterType
<1>2. Activity!Cardinality({}) = 0 /\ Cardinality({}) = 0
  BY SameActivityCardinality, FS_EmptySet
<1> HIDE DEF c
<1>3. Activity!AnchorsIn({}) = {}
  BY DEF Activity!AnchorsIn
<1>4. B = {"anchors"} => Activity!AnchorsExactly(c, {})
  BY <1>1, <1>2, <1>3 DEF Activity!AnchorsExactly
<1>5. B = Activity!DomainBuckets => Activity!DomainsExactly(c, {})
  <2>1. OnSeveral({}) = {} /\ \A d : OnlyOn({}, d) = {}
    BY <1>3 DEF OnSeveral, OnlyOn
  <2>2. \A d \in Activity!IIDomains \cup {"both"} : d \in Activity!DomainBuckets
    BY DEF Activity!DomainBuckets
  <2> QED
    BY <1>1, <1>2, <2>1, <2>2, DomainsAre
<1>6. B = Activity!MethodBuckets => Activity!MethodsExactly(c, {})
  <2>1. \A b : KeysBy({}, b) = {}
    BY DEF KeysBy
  <2> QED
    BY <1>1, <1>2, <2>1, MethodsAre
<1> QED
  BY <1>4, <1>5, <1>6 DEF Exactly, c

LEMMA EventCounted ==
    ASSUME PeriodsInv, KeysTellUses, NEW B \in BucketSets, NEW c \in Counters(B),
           c.start \in 0..now, lastChange < c.start,
           NEW k \in DOMAIN keys, NEW u, CallBy(u, k), B = Activity!DomainBuckets => OnDomain(u),
           Exactly(B, c, From(Relevant(B, uses), c.start))
    PROVE  Exactly(B, Activity!CountEvent(B, c, k), From(Relevant(B, uses), c.start) \cup {u})
<1> DEFINE U == From(uses, c.start)
           R == From(Relevant(B, uses), c.start)
<1>0. /\ Activity!CountEvent({"anchors"}, c, k) = Activity!CountAnchor(c, k)
      /\ Activity!CountEvent(Activity!DomainBuckets, c, k) = Activity!CountDomain(c, k)
      /\ Activity!CountEvent(Activity!MethodBuckets, c, k) = Activity!CountMethod(c, k)
      /\ {"anchors"} # Activity!DomainBuckets /\ {"anchors"} # Activity!MethodBuckets
      /\ Activity!DomainBuckets # Activity!MethodBuckets
  BY CountEventIs
<1>1. CASE B = {"anchors"}
  <2>1. R = U
    BY <1>0, <1>1 DEF Relevant, From
  <2>2. Activity!AnchorsExactly(Activity!CountAnchor(c, k), U \cup {u})
    BY <1>1, <2>1, AnchorsCounted DEF Exactly
  <2> QED
    BY <1>0, <1>1, <2>1, <2>2 DEF Exactly
<1>2. CASE B = Activity!DomainBuckets
  <2>1. R = {v \in U : OnDomain(v)} /\ R \cup {u} = {v \in U \cup {u} : OnDomain(v)}
    BY <1>2 DEF Relevant, From
  <2>2. Activity!DomainsExactly(c, U)
    BY <1>2, <2>1, OnlyRelevantCount DEF Exactly
  <2>3. Activity!DomainsExactly(Activity!CountDomain(c, k), U \cup {u})
    BY <1>2, <2>2, DomainsCounted
  <2> HIDE DEF U
  <2>4. Activity!DomainsExactly(Activity!CountDomain(c, k), R \cup {u})
    BY <2>1, <2>3, OnlyRelevantCount
  <2> QED
    BY <1>0, <1>2, <2>4 DEF Exactly
<1>3. CASE B = Activity!MethodBuckets
  <2>1. R = U
    BY <1>0, <1>3 DEF Relevant, From
  <2>2. Activity!MethodsExactly(Activity!CountMethod(c, k), U \cup {u})
    BY <1>3, <2>1, MethodsCounted DEF Exactly
  <2> QED
    BY <1>0, <1>3, <2>1, <2>2 DEF Exactly
<1> QED
  BY <1>1, <1>2, <1>3 DEF BucketSets

LEMMA ZeroOnGrid == OnGrid(0)
<1>1. 0 \in Int /\ 0 = 0 * Day
  BY Days DEF DayAssumption
<1> QED
  BY <1>1 DEF OnGrid

LEMMA DayOfIs ==
    ASSUME NEW t \in Int
    PROVE  /\ OnGrid(DayOf(t)) /\ DayOf(t) \in Int
           /\ \A g : OnGrid(g) /\ g <= t /\ t < g + Day => DayOf(t) = g
<1>1. OnGrid(DayOf(t)) /\ DayOf(t) <= t /\ t < DayOf(t) + Day
  BY ZeroOnGrid, GridStart DEF DayOf
<1> QED
  BY <1>1, GridUnique, GridInt

\* The periods that a new day makes.
LEMMA NewDayCounts ==
    ASSUME NEW B \in BucketSets, NEW s \in StatsOf(B), Fitting(s), now \in Nat,
           s.day.start + Day <= now,
           NEW R, \A u \in R : u.time \in Int, NEW change, Counted(B, s, R, change)
    PROVE  Counted(B, NewDay(B, s), R, change)
<1> DEFINE d == Today(s)
           old == s.day.start
           n == Closed(s)
           O == OpenMonths(s)
           new == Activity!NewCounter(B, d)
           M == Append(O, new)
           Month == Activity!Month
<1>1. /\ OnGrid(d) /\ d \in Int /\ d <= now /\ now < d + Day
      /\ old \in Int /\ old + Day <= d /\ OnGrid(old)
  BY TodayFact DEF Fitting
<1>2. Day \in Nat \ {0} /\ Month \in Nat \ {0} /\ Month >= Day
  BY Days, MonthNat DEF DayAssumption
<1>3. /\ Len(s.months) \in Nat \ {0} /\ s.months \in Seq(Counters(B))
      /\ n \in 0..Len(s.months) /\ OverBy(s.months, now) = 1..n
      /\ O \in Seq(Counters(B)) /\ Len(O) = Len(s.months) - n
      /\ \A j \in 1..Len(O) : O[j] = s.months[n + j]
  BY OpenMonthsFact
<1>4. new \in Counters(B) /\ new.start = d
  BY <1>1, NewCounterType
<1>5. /\ Len(M) = Len(O) + 1 /\ M[Len(O) + 1] = new
      /\ \A j \in 1..Len(O) : M[j] = s.months[n + j]
  BY <1>3, <1>4, AppendProperties, SMTT(30)
<1>6. \A j \in 1..Len(s.months) : s.months[j].start \in Int /\ OnGrid(s.months[j].start)
  BY <1>3, CounterAt DEF Fitting, MonthsFit
<1>7. /\ NewDay(B, s).day = new /\ NewDay(B, s).months = M
      /\ NewDay(B, s).completedDay = CompletedDay(B, s)
      /\ NewDay(B, s).completedMonth = CompletedMonth(B, s)
  BY DEF NewDay
<1>8. \A u \in R : u.time \in Int /\ u.time < old + Day /\ u.time < d
  BY <1>1, <1>2 DEF Counted
<1> HIDE DEF d, old, n, O, new, M, Month
<1>9. Exactly(B, new, From(R, d))
  <2>1. From(R, d) = {}
    BY <1>1, <1>8 DEF From
  <2> QED
    BY <1>1, <2>1, NobodyCounted DEF new
<1>10. ASSUME NEW j \in 1..Len(M), change < M[j].start
       PROVE  Exactly(B, M[j], From(R, M[j].start))
  <2>1. CASE j \in 1..Len(O)
    <3>1. n + j \in 1..Len(s.months) /\ M[j] = s.months[n + j]
      BY <1>3, <1>5, <2>1
    <3> QED
      BY <1>10, <3>1 DEF Counted
  <2>2. CASE j = Len(O) + 1
    BY <1>4, <1>5, <1>9, <2>2
  <2> QED
    BY <1>3, <1>5, <2>1, <2>2
<1>11. ASSUME NEW c \in Activity!Range(CompletedDay(B, s)), change < c.start
       PROVE  Exactly(B, c, Between(R, c.start, d))
  <2>0. c = IF old + Day = d THEN s.day ELSE Activity!NewCounter(B, d - Day)
    BY DEF CompletedDay, Activity!Range, d, old
  <2>1. CASE old + Day = d
    <3>1. c = s.day /\ c.start = old
      BY <2>0, <2>1 DEF old
    <3>2. Between(R, old, d) = From(R, old)
      BY <1>1, <1>8 DEF Between, From
    <3>3. Exactly(B, s.day, From(R, old))
      BY <1>11, <3>1 DEF Counted, old
    <3> QED
      BY <3>1, <3>2, <3>3
  <2>2. CASE old + Day # d
    <3>1. c = Activity!NewCounter(B, d - Day) /\ d - Day \in Int
      BY <1>1, <1>2, <2>0, <2>2
    <3>2. c.start = d - Day
      BY <3>1, NewCounterType
    <3>3. old + Day <= d - Day
      <4>1. OnGrid(old + Day) /\ old + Day < d
        BY <1>1, <1>2, <2>2, GridDayMonth
      <4>2. old + Day + Day <= d
        BY <1>1, <4>1, GridApart
      <4> QED
        BY <1>1, <1>2, <4>2
    <3>4. Between(R, d - Day, d) = {}
      BY <1>1, <1>2, <1>8, <3>3 DEF Between
    <3> QED
      BY <3>1, <3>2, <3>4, NobodyCounted
  <2> QED
    BY <2>1, <2>2
<1>12. ASSUME NEW c \in Activity!Range(CompletedMonth(B, s)), change < c.start,
              Between(R, c.start, c.start + Day) # {}
       PROVE  Exactly(B, c, Between(R, c.start, d))
  <2>0. \/ n > 0 /\ s.months[n].start + Month = d /\ c = s.months[n]
        \/ ~(n > 0 /\ s.months[n].start + Month = d) /\ c = Activity!NewCounter(B, d - Month)
    BY DEF CompletedMonth, Activity!Range, d, n, Month
  <2>1. CASE n > 0 /\ s.months[n].start + Month = d /\ c = s.months[n]
    <3>1. n \in 1..Len(s.months) /\ c.start \in Int
      BY <1>3, <1>6, <2>1
    <3>2. Between(R, c.start, d) = From(R, c.start)
      BY <1>1, <1>8, <3>1 DEF Between, From
    <3> QED
      BY <1>12, <2>1, <3>1, <3>2 DEF Counted
  <2>2. CASE ~(n > 0 /\ s.months[n].start + Month = d) /\ c = Activity!NewCounter(B, d - Month)
    <3> DEFINE g == d - Month
    <3>1. g \in Int /\ c.start = g /\ g + Month = d
      <4>1. g \in Int /\ g + Month = d
        BY <1>1, <1>2
      <4> QED
        BY <2>2, <4>1, NewCounterType
    <3>2. OnGrid(g)
      BY <1>1, GridDayMonth DEF Month
    <3> HIDE DEF g
    <3>3. PICK u \in R : g <= u.time /\ u.time < g + Day
      BY <1>12, <3>1 DEF Between
    <3>4. DayOf(u.time) = g
      BY <1>8, <3>2, <3>3, DayOfIs
    <3>5. ~(g + Month <= old)
      BY <1>1, <1>2, <3>1
    <3>6. PICK j \in 1..Len(s.months) : s.months[j].start = g
      BY <3>4, <3>5 DEF Counted, old, Month
    <3>7. j \in OverBy(s.months, now)
      BY <1>1, <3>1, <3>6 DEF OverBy, Month
    <3>8. j \in 1..n /\ n > 0 /\ n \in 1..Len(s.months) /\ n \in OverBy(s.months, now)
      BY <1>3, <3>7
    <3>9. s.months[n].start + Month <= now /\ s.months[n].start \in Int
      BY <1>6, <3>8 DEF OverBy, Month
    <3>10. j # n
      BY <2>2, <3>1, <3>6, <3>8
    <3>11. j < n
      BY <1>3, <3>8, <3>10
    <3>12. s.months[j].start + Day <= s.months[n].start
      BY <1>3, <3>6, <3>8, <3>11, MonthsGrow DEF Fitting
    <3> QED
      BY <1>1, <1>2, <3>1, <3>6, <3>9, <3>12
  <2> QED
    BY <2>0, <2>1, <2>2
<1>13. ASSUME NEW u \in R
       PROVE  DayOf(u.time) + Month <= d \/ \E j \in 1..Len(M) : M[j].start = DayOf(u.time)
  <2>1. u.time \in Int /\ DayOf(u.time) \in Int /\ OnGrid(DayOf(u.time))
    BY <1>8, DayOfIs
  <2>2. CASE DayOf(u.time) + Month <= old
    BY <1>1, <1>2, <2>1, <2>2
  <2>3. ASSUME NEW j \in 1..Len(s.months), s.months[j].start = DayOf(u.time),
               ~(DayOf(u.time) + Month <= d)
        PROVE  \E i \in 1..Len(M) : M[i].start = DayOf(u.time)
    <3> DEFINE g == DayOf(u.time)
    <3>0. g \in Int /\ OnGrid(g) /\ g + Month \in Int
      BY <1>2, <2>1
    <3> HIDE DEF g
    <3>1. d + Day <= g + Month
      <4>1. OnGrid(g + Month) /\ d < g + Month
        BY <1>1, <2>3, <3>0, GridDayMonth DEF g, Month
      <4> QED
        BY <1>1, <4>1, GridApart
    <3>2. j \notin OverBy(s.months, now)
      BY <1>1, <1>2, <2>3, <3>0, <3>1 DEF OverBy, g, Month
    <3>3. j - n \in 1..Len(O) /\ j - n \in 1..Len(M) /\ n + (j - n) = j
      BY <1>3, <1>5, <3>2
    <3>4. M[j - n] = s.months[j]
      BY <1>5, <3>3
    <3> QED
      BY <2>3, <3>3, <3>4
  <2>4. \/ DayOf(u.time) + Month <= old
        \/ \E j \in 1..Len(s.months) : s.months[j].start = DayOf(u.time)
    BY DEF Counted, old, Month
  <2> QED
    BY <2>2, <2>3, <2>4
<1>14. \A u \in R : u.time < new.start + Day
  BY <1>1, <1>2, <1>4, <1>8
<1> QED
  BY <1>4, <1>7, <1>9, <1>10, <1>11, <1>12, <1>13, <1>14 DEF Counted, Month

LEMMA ProcessedCounts ==
    ASSUME NEW B \in BucketSets, NEW s \in StatsOf(B), Fitting(s), now \in Nat,
           s.day.start <= now,
           NEW R, \A u \in R : u.time \in Int, NEW change, Counted(B, s, R, change)
    PROVE  /\ Counted(B, Activity!ProcessStats(s, B), R, change)
           /\ now < Activity!ProcessStats(s, B).day.start + Day
<1>1. s.day.start \in Int /\ Day \in Int
  BY Days DEF StatsOf, Counters, DayAssumption
<1>2. CASE s.day.start + Day > now
  <2>1. Activity!ProcessStats(s, B) = s
    BY <1>2, NothingIsOver
  <2> QED
    BY <1>1, <1>2, <2>1
<1>3. CASE s.day.start + Day <= now
  <2>1. Activity!ProcessStats(s, B) = NewDay(B, s)
    BY <1>3, DayIsOver
  <2>2. Counted(B, NewDay(B, s), R, change)
    BY <1>3, NewDayCounts
  <2>3. now < Today(s) + Day /\ Today(s) \in Int
    BY <1>3, TodayFact
  <2>4. NewDay(B, s).day.start = Today(s)
    BY DEF NewDay, Activity!NewCounter
  <2> QED
    BY <2>1, <2>2, <2>3, <2>4
<1> QED
  BY <1>1, <1>2, <1>3

LEMMA LaterChange ==
    ASSUME NEW B, NEW s, NEW R, NEW change \in Int, NEW later \in Int, change <= later,
           Counted(B, s, R, change),
           s.day.start \in Int, \A j \in 1..Len(s.months) : s.months[j].start \in Int,
           \A c \in Activity!Range(s.completedDay) \cup Activity!Range(s.completedMonth) :
               c.start \in Int
    PROVE  Counted(B, s, R, later)
<1>1. \A x \in Int : later < x => change < x
  OBVIOUS
<1>2. later < s.day.start => Exactly(B, s.day, From(R, s.day.start))
  BY <1>1 DEF Counted
<1>3. \A j \in 1..Len(s.months) :
         later < s.months[j].start => Exactly(B, s.months[j], From(R, s.months[j].start))
  BY <1>1 DEF Counted
<1>4. \A c \in Activity!Range(s.completedDay) :
         later < c.start => Exactly(B, c, Between(R, c.start, s.day.start))
  BY <1>1 DEF Counted
<1>5. \A c \in Activity!Range(s.completedMonth) :
         later < c.start /\ Between(R, c.start, c.start + Day) # {} =>
             Exactly(B, c, Between(R, c.start, s.day.start))
  BY <1>1 DEF Counted
<1> QED
  BY <1>2, <1>3, <1>4, <1>5 DEF Counted

LEMMA StatsStarts ==
    ASSUME NEW B, NEW s, GoodStats(B, s), now \in Nat
    PROVE  /\ s.day \in Counters(B) /\ s.day.start \in 0..now /\ s.day.start <= now
           /\ \A j \in 1..Len(s.months) : s.months[j] \in Counters(B) /\ s.months[j].start \in 0..now
           /\ \A c \in Activity!Range(s.completedDay) :
                 c.start \in Int /\ c.start + Day = s.day.start
           /\ \A c \in Activity!Range(s.completedMonth) :
                 c.start \in Int /\ c.start + Activity!Month = s.day.start
<1>1. s \in StatsOf(B) /\ Fitting(s) /\ s.months \in Seq(Counters(B)) /\ s.day \in Counters(B)
  BY DEF GoodStats, StatsOf
<1>2. /\ s.day.start \in 0..now /\ s.day.start <= now
      /\ \A j \in 1..Len(s.months) : s.months[j].start \in 0..now
  <2>1. \A c \in {s.day} \cup Activity!Range(s.months) : c.start \in 0..now
    BY StatisticsFit
  <2>2. DOMAIN s.months = 1..Len(s.months)
    BY <1>1, LenProperties
  <2> QED
    BY <2>1, <2>2 DEF Activity!Range, GoodStats
<1>3. ASSUME NEW w \in Windows(B), NEW c \in Activity!Range(w)
      PROVE  w # <<>> /\ c = w[1] /\ c.start \in Int
  <2>1. w # <<>>
    BY DEF Activity!Range
  <2>2. PICK x \in Counters(B) : w = <<x>>
    BY <2>1 DEF Windows
  <2>3. c = x
    BY <2>2 DEF Activity!Range
  <2> QED
    BY <2>1, <2>2, <2>3 DEF Counters
<1>4. s.completedDay \in Windows(B) /\ s.completedMonth \in Windows(B)
  BY <1>1 DEF StatsOf
<1> QED
  BY <1>1, <1>2, <1>3, <1>4, CounterAt DEF Fitting

\* A call is counted in every period that is open.
LEMMA CallCounted ==
    ASSUME PeriodsInv, KeysTellUses, NEW B \in BucketSets, NEW s, GoodStats(B, s),
           Counted(B, s, Relevant(B, uses), lastChange),
           NEW k \in DOMAIN keys, NEW u, CallBy(u, k), u.time = now,
           B = Activity!DomainBuckets => OnDomain(u),
           NEW later \in {lastChange, now}
    PROVE  Counted(B, Activity!UpdateCounters(s, B, k), Relevant(B, uses) \cup {u}, later)
<1> DEFINE R == Relevant(B, uses)
           t == Activity!ProcessStats(s, B)
           v == Activity!UpdateCounters(s, B, k)
           Q == R \cup {u}
<1>0. /\ now \in Nat /\ lastChange \in Int /\ lastChange <= now
      /\ \A w \in R : w.time \in Int
      /\ Day \in Nat \ {0} /\ Activity!Month \in Nat \ {0} /\ Activity!Month >= Day
  BY Days, MonthNat DEF PeriodsInv, KeysTellUses, Relevant, DayAssumption
<1>1. t \in StatsOf(B) /\ Fitting(t) /\ t.day.start <= now
  BY <1>0, ProcessedFits DEF GoodStats
<1>2. Counted(B, t, R, lastChange) /\ now < t.day.start + Day
  BY <1>0, ProcessedCounts DEF GoodStats
<1>3. GoodStats(B, t)
  BY <1>1 DEF GoodStats
<1> HIDE DEF t
<1>4. /\ v.completedDay = t.completedDay /\ v.completedMonth = t.completedMonth
      /\ v.day = Activity!CountEvent(B, t.day, k) /\ v.day.start = t.day.start
      /\ Len(v.months) = Len(t.months)
      /\ \A j \in 1..Len(t.months) :
            /\ v.months[j] = Activity!CountEvent(B, t.months[j], k)
            /\ v.months[j].start = t.months[j].start
  BY <1>1, UpdateParts DEF t
<1> HIDE DEF v
<1>5. /\ t.day \in Counters(B) /\ t.day.start \in 0..now
      /\ \A j \in 1..Len(t.months) : t.months[j] \in Counters(B) /\ t.months[j].start \in 0..now
      /\ \A c \in Activity!Range(t.completedDay) :
            c.start \in Int /\ c.start + Day = t.day.start
      /\ \A c \in Activity!Range(t.completedMonth) :
            c.start \in Int /\ c.start + Activity!Month = t.day.start
  BY <1>0, <1>3, StatsStarts
<1>6. ASSUME NEW c \in Counters(B), c.start \in 0..now, later < c.start,
             lastChange < c.start => Exactly(B, c, From(R, c.start))
      PROVE  Exactly(B, Activity!CountEvent(B, c, k), From(Q, c.start))
  <2>1. lastChange < c.start
    BY <1>0, <1>6
  <2>2. From(Q, c.start) = From(R, c.start) \cup {u}
    BY <1>0, <1>6 DEF From
  <2> QED
    BY <1>6, <2>1, <2>2, EventCounted
<1>7. later < v.day.start => Exactly(B, v.day, From(Q, v.day.start))
  BY <1>2, <1>4, <1>5, <1>6 DEF Counted
<1>8. \A j \in 1..Len(v.months) :
         later < v.months[j].start => Exactly(B, v.months[j], From(Q, v.months[j].start))
  BY <1>2, <1>4, <1>5, <1>6 DEF Counted
<1>9. \A x, y \in Int : y <= now => Between(Q, x, y) = Between(R, x, y)
  BY <1>0 DEF Between
<1> DEFINE d == t.day.start
<1>9a. d \in Int /\ d <= now /\ v.day.start = d
  BY <1>0, <1>4, <1>5
<1> HIDE DEF Q, R
<1>10. ASSUME NEW c \in Activity!Range(v.completedDay), later < c.start
       PROVE  Exactly(B, c, Between(Q, c.start, v.day.start))
  <2>1. lastChange < c.start /\ c.start \in Int
    BY <1>0, <1>4, <1>5, <1>10
  <2>2. Between(Q, c.start, v.day.start) = Between(R, c.start, t.day.start)
    <3>1. Between(Q, c.start, d) = Between(R, c.start, d)
      <4> HIDE DEF d
      <4> QED
        BY <1>9, <1>9a, <2>1
    <3> QED
      BY <1>9a, <3>1
  <2> QED
    BY <1>2, <1>4, <1>10, <2>1, <2>2 DEF Counted, R
<1>11. ASSUME NEW c \in Activity!Range(v.completedMonth), later < c.start,
              Between(Q, c.start, c.start + Day) # {}
       PROVE  Exactly(B, c, Between(Q, c.start, v.day.start))
  <2>1. lastChange < c.start /\ c.start \in Int /\ c.start + Day <= now
        /\ c.start + Day \in Int
    BY <1>0, <1>4, <1>5, <1>11
  <2>2. Between(Q, c.start, v.day.start) = Between(R, c.start, t.day.start)
    <3>1. Between(Q, c.start, d) = Between(R, c.start, d)
      <4> HIDE DEF d
      <4> QED
        BY <1>9, <1>9a, <2>1
    <3> QED
      BY <1>9a, <3>1
  <2>3. Between(Q, c.start, c.start + Day) = Between(R, c.start, c.start + Day)
    BY <1>9, <2>1
  <2> QED
    BY <1>2, <1>4, <1>11, <2>1, <2>2, <2>3 DEF Counted, R
<1>12. \A w \in Q : w.time < v.day.start + Day
  BY <1>2, <1>4 DEF Counted, Q, R
<1>13. ASSUME NEW w \in Q
       PROVE  \/ DayOf(w.time) + Activity!Month <= v.day.start
              \/ \E j \in 1..Len(v.months) : v.months[j].start = DayOf(w.time)
  <2>1. CASE w \in R
    BY <1>2, <1>4, <2>1 DEF Counted, R
  <2>2. CASE w = u
    <3>1. OnGrid(t.day.start) /\ now \in Int
      BY <1>0, <1>1 DEF Fitting
    <3>2. DayOf(w.time) = t.day.start
      BY <1>1, <1>2, <2>2, <3>1, DayOfIs
    <3>3. Len(t.months) \in 1..Len(t.months) /\ t.months[Len(t.months)].start = t.day.start
      <4>1. t.months # <<>> /\ t.months \in Seq(Counters(B))
        BY <1>1 DEF StatsOf, Fitting, MonthsFit
      <4> QED
        BY <1>1, <4>1, CounterAt DEF Fitting, MonthsFit
    <3> QED
      BY <1>4, <3>2, <3>3
  <2> QED
    BY <2>1, <2>2 DEF Q
<1> QED
  BY <1>7, <1>8, <1>10, <1>11, <1>12, <1>13 DEF Counted, v, Q, R

LEMMA CallCountedByAll ==
    ASSUME CountedInv, NEW k \in DOMAIN keys, NEW u, CallBy(u, k), u.time = now,
           Activity!UpdateActivityStats(k), uses' = uses \cup {u},
           lastChange' \in {lastChange, now}
    PROVE  /\ Counted({"anchors"}, activeAnchors', Relevant({"anchors"}, uses'), lastChange')
           /\ Counted(Activity!DomainBuckets, activeDomains',
                      Relevant(Activity!DomainBuckets, uses'), lastChange')
           /\ Counted(Activity!MethodBuckets, activeMethods',
                      Relevant(Activity!MethodBuckets, uses'), lastChange')
<1>0. {"anchors"} \in BucketSets /\ Activity!DomainBuckets \in BucketSets
      /\ Activity!MethodBuckets \in BucketSets /\ PeriodsInv /\ KeysTellUses
      /\ GoodStats({"anchors"}, activeAnchors)
      /\ GoodStats(Activity!DomainBuckets, activeDomains)
      /\ GoodStats(Activity!MethodBuckets, activeMethods)
  BY DEF BucketSets, CountedInv, PeriodsInv
<1>1. /\ {"anchors"} # Activity!DomainBuckets
      /\ Activity!MethodBuckets # Activity!DomainBuckets
  BY CountEventIs
<1>2. Counted({"anchors"}, activeAnchors', Relevant({"anchors"}, uses'), lastChange')
  <2>1. Relevant({"anchors"}, uses') = Relevant({"anchors"}, uses) \cup {u}
    BY <1>1 DEF Relevant
  <2> QED
    BY <1>0, <1>1, <2>1, CallCounted DEF CountedInv, Activity!UpdateActivityStats
<1>3. Counted(Activity!MethodBuckets, activeMethods',
              Relevant(Activity!MethodBuckets, uses'), lastChange')
  <2>1. Relevant(Activity!MethodBuckets, uses')
          = Relevant(Activity!MethodBuckets, uses) \cup {u}
    BY <1>1 DEF Relevant
  <2> QED
    BY <1>0, <1>1, <2>1, CallCounted DEF CountedInv, Activity!UpdateActivityStats
<1>4. Counted(Activity!DomainBuckets, activeDomains',
              Relevant(Activity!DomainBuckets, uses'), lastChange')
  <2>0. OnDomain(u) <=> MethodOf[k] # Activity!Credential
                        /\ keys[k].origin \in Activity!IIDomains
    BY DEF OnDomain, CallBy
  <2>1. CASE OnDomain(u)
    <3>1. Relevant(Activity!DomainBuckets, uses')
            = Relevant(Activity!DomainBuckets, uses) \cup {u}
      BY <2>1 DEF Relevant
    <3>2. activeDomains' =
            Activity!UpdateCounters(activeDomains, Activity!DomainBuckets, k)
      BY <2>0, <2>1 DEF Activity!UpdateActivityStats
    <3> QED
      BY <1>0, <2>1, <3>1, <3>2, CallCounted DEF CountedInv
  <2>2. CASE ~OnDomain(u)
    <3>1. Relevant(Activity!DomainBuckets, uses') = Relevant(Activity!DomainBuckets, uses)
      BY <2>2 DEF Relevant
    <3>2. activeDomains' = activeDomains
      BY <2>0, <2>2 DEF Activity!UpdateActivityStats
    <3>3. now \in Nat /\ lastChange \in Int /\ lastChange' \in Int
          /\ lastChange <= lastChange'
      BY <1>0 DEF PeriodsInv, KeysTellUses
    <3>4. /\ activeDomains.day.start \in Int
          /\ \A j \in 1..Len(activeDomains.months) : activeDomains.months[j].start \in Int
          /\ \A c \in Activity!Range(activeDomains.completedDay)
                      \cup Activity!Range(activeDomains.completedMonth) : c.start \in Int
      BY <1>0, <3>3, StatsStarts
    <3>5. Counted(Activity!DomainBuckets, activeDomains,
                  Relevant(Activity!DomainBuckets, uses), lastChange')
      BY <3>3, <3>4, LaterChange DEF CountedInv
    <3> QED
      BY <3>1, <3>2, <3>5
  <2> QED
    BY <2>1, <2>2
<1> QED
  BY <1>2, <1>3, <1>4

-----------------------------------------------------------------------------
(***************************************************************************)
(* Everyone is counted once: the invariant.                                *)
(***************************************************************************)

\* The key of a call is used now.
LEMMA UsedNow ==
    ASSUME PeriodsInv, NEW k \in DOMAIN keys
    PROVE  /\ DOMAIN Activity!Used(k) = DOMAIN keys
           /\ \A h \in DOMAIN keys :
                 /\ Activity!Used(k)[h].origin = keys[h].origin
                 /\ Activity!Used(k)[h].used = IF h = k THEN now ELSE keys[h].used
<1>1. Activity!Used(k) = [keys EXCEPT ![k].used = now]
  BY DEF Activity!Used
<1>2. [keys[k] EXCEPT !.used = now] = [origin |-> keys[k].origin, used |-> now]
  BY DEF PeriodsInv, GoodKeys
<1>3. keys = [h \in DOMAIN keys |-> keys[h]]
  BY DEF PeriodsInv, GoodKeys
<1> QED
  BY <1>1, <1>2, <1>3

\* What the keys tell after a call, whatever it does to the keys that it
\* neither adds, removes nor moves.
LEMMA KeysTellAfter ==
    ASSUME PeriodsInv, KeysTellUses, NEW k \in DOMAIN keys,
           NEW u, CallBy(u, k), u.time = now, uses' = uses \cup {u}, now' = now,
           NEW K, K = keys',
           \A h \in DOMAIN K :
              \/ K[h].used = Activity!Never
              \/ h \in DOMAIN keys /\ K[h].used = IF h = k THEN now ELSE keys[h].used,
           \/ lastChange' = now
           \/ /\ lastChange' = lastChange
              /\ \A h \in DOMAIN keys :
                    /\ h \in DOMAIN K
                    /\ K[h].origin = keys[h].origin
                    /\ K[h].used = IF h = k THEN now ELSE keys[h].used
    PROVE  KeysTellUses'
<1>0. /\ now \in Nat /\ lastChange \in Int /\ lastChange <= now /\ k \in Keys
      /\ u.key = k /\ u.origin = keys[k].origin /\ u.time = now
      /\ \A v \in uses : v.key \in Keys /\ v.time \in 0..now
  BY DEF PeriodsInv, GoodKeys, KeysTellUses, CallBy
<1>1. lastChange' \in Int /\ lastChange' <= now'
  BY <1>0
<1>2. \A v \in uses' : v.key \in Keys /\ v.time \in 0..now'
  BY <1>0
<1>3. ASSUME NEW h \in DOMAIN K
      PROVE  \/ K[h].used = Activity!Never
             \/ \E v \in uses' : v.key = h /\ v.time = K[h].used
  <2>1. CASE h \in DOMAIN keys /\ h = k /\ K[h].used = now
    BY <1>0, <2>1
  <2>2. CASE h \in DOMAIN keys /\ h # k /\ K[h].used = keys[h].used
    BY <2>2 DEF KeysTellUses
  <2> QED
    BY <1>3, <2>1, <2>2
<1>4. ASSUME NEW v \in uses', v.time > lastChange'
      PROVE  /\ v.key \in DOMAIN K
             /\ K[v.key].origin = v.origin
             /\ K[v.key].used >= v.time
  <2>1. CASE lastChange' = now
    BY <1>0, <1>2, <1>4, <2>1
  <2>2. CASE lastChange' # now
    <3>1. /\ lastChange' = lastChange
          /\ \A h \in DOMAIN keys :
                /\ h \in DOMAIN K
                /\ K[h].origin = keys[h].origin
                /\ K[h].used = IF h = k THEN now ELSE keys[h].used
      BY <2>2
    <3>2. CASE v = u
      <4>1. now >= now
        BY <1>0
      <4> QED
        BY <1>0, <3>1, <3>2, <4>1
    <3>3. CASE v \in uses
      <4>1. /\ v.key \in DOMAIN keys /\ keys[v.key].origin = v.origin
            /\ keys[v.key].used >= v.time /\ now >= v.time
        BY <1>0, <1>4, <3>1, <3>3 DEF KeysTellUses
      <4> QED
        BY <3>1, <4>1
    <3> QED
      BY <3>2, <3>3
  <2> QED
    BY <2>1, <2>2
<1> QED
  BY <1>1, <1>2, <1>3, <1>4 DEF KeysTellUses, Activity!Never

\* What a call does to the keys, its use and the time of the last change.
LEMMA CallsOf ==
    ASSUME CountedInv, Activity!Next
    PROVE  \/ /\ now' = now + 1 /\ keys' = keys /\ uses' = uses /\ lastChange' = lastChange
              /\ activeAnchors' = activeAnchors /\ activeDomains' = activeDomains
              /\ activeMethods' = activeMethods
           \/ \E k, u :
                 /\ k \in DOMAIN keys /\ CallBy(u, k) /\ u.time = now
                 /\ uses' = uses \cup {u} /\ now' = now
                 /\ Activity!UpdateActivityStats(k)
                 /\ \A h \in DOMAIN keys' :
                       \/ keys'[h].used = Activity!Never
                       \/ /\ h \in DOMAIN keys
                          /\ keys'[h].used = IF h = k THEN now ELSE keys[h].used
                 /\ \/ lastChange' = now
                    \/ /\ lastChange' = lastChange
                       /\ \A h \in DOMAIN keys :
                             /\ h \in DOMAIN keys'
                             /\ keys'[h].origin = keys[h].origin
                             /\ keys'[h].used = IF h = k THEN now ELSE keys[h].used
<1> DEFINE Kept(k) ==
               \A h \in DOMAIN keys' :
                   \/ keys'[h].used = Activity!Never
                   \/ /\ h \in DOMAIN keys
                      /\ keys'[h].used = IF h = k THEN now ELSE keys[h].used
           Unmoved(k) ==
               \/ lastChange' = now
               \/ /\ lastChange' = lastChange
                  /\ \A h \in DOMAIN keys :
                        /\ h \in DOMAIN keys'
                        /\ keys'[h].origin = keys[h].origin
                        /\ keys'[h].used = IF h = k THEN now ELSE keys[h].used
           Goal(k) == \E u : /\ CallBy(u, k) /\ u.time = now
                             /\ uses' = uses \cup {u} /\ now' = now
                             /\ Activity!UpdateActivityStats(k)
<1>0. PeriodsInv
  BY DEF CountedInv
<1>1. CASE Activity!Tick
  BY <1>1 DEF Activity!Tick, Activity!stats
<1>2. ASSUME NEW k, NEW change, Activity!ActivityBookkeeping(k, change)
      PROVE  k \in DOMAIN keys /\ Goal(k)
  <2> DEFINE u == [key |-> k, origin |-> keys[k].origin, time |-> now, change |-> change]
  <2>1. CallBy(u, k) /\ u.time = now
    BY DEF CallBy
  <2> QED
    BY <1>2, <2>1 DEF Activity!ActivityBookkeeping
<1> HIDE DEF Goal
<1>3. ASSUME NEW k, Activity!Authenticate(k)
      PROVE  k \in DOMAIN keys /\ Goal(k) /\ Kept(k) /\ Unmoved(k)
  <2>1. k \in DOMAIN keys /\ Goal(k)
    BY <1>2, <1>3 DEF Activity!Authenticate
  <2>2. keys' = Activity!Used(k) /\ lastChange' = lastChange
    BY <1>3 DEF Activity!Authenticate
  <2> QED
    BY <1>0, <2>1, <2>2, UsedNow
<1>4. ASSUME NEW k, NEW h, Activity!RemoveKey(k, h)
      PROVE  k \in DOMAIN keys /\ Goal(k) /\ Kept(k) /\ Unmoved(k)
  <2>1. k \in DOMAIN keys /\ Goal(k)
    BY <1>2, <1>4 DEF Activity!RemoveKey
  <2>2. /\ keys' = [g \in DOMAIN keys \ {h} |-> Activity!Used(k)[g]]
        /\ lastChange' = now
    BY <1>4 DEF Activity!RemoveKey
  <2>3. DOMAIN keys' = DOMAIN keys \ {h}
        /\ \A g \in DOMAIN keys \ {h} : keys'[g] = Activity!Used(k)[g]
    BY <2>2
  <2> QED
    BY <1>0, <2>1, <2>2, <2>3, UsedNow
<1>5. ASSUME NEW k, NEW h, NEW o, Activity!AddKey(k, h, o)
      PROVE  k \in DOMAIN keys /\ Goal(k) /\ Kept(k) /\ Unmoved(k)
  <2>1. k \in DOMAIN keys /\ Goal(k)
    BY <1>2, <1>5 DEF Activity!AddKey
  <2>2. /\ keys' = [g \in DOMAIN keys \cup {h} |->
                      IF g = h THEN [origin |-> o, used |-> Activity!Never]
                      ELSE Activity!Used(k)[g]]
        /\ lastChange' = lastChange /\ h \notin DOMAIN keys
    BY <1>5 DEF Activity!AddKey
  <2>3. /\ DOMAIN keys' = DOMAIN keys \cup {h}
        /\ keys'[h].used = Activity!Never
        /\ \A g \in DOMAIN keys : keys'[g] = Activity!Used(k)[g]
    BY <2>2
  <2> QED
    BY <1>0, <2>1, <2>2, <2>3, UsedNow
<1>6. ASSUME NEW k, NEW h, NEW o, Activity!MoveKey(k, h, o)
      PROVE  k \in DOMAIN keys /\ Goal(k) /\ Kept(k) /\ Unmoved(k)
  <2>1. k \in DOMAIN keys /\ Goal(k)
    BY <1>2, <1>6 DEF Activity!MoveKey
  <2>2. /\ keys' = [Activity!Used(k) EXCEPT ![h].origin = o]
        /\ lastChange' = now
    BY <1>6 DEF Activity!MoveKey
  <2>3. \A g \in DOMAIN keys : keys'[g].used = Activity!Used(k)[g].used
    BY <1>0, <2>1, <2>2, UsedNow
  <2>4. DOMAIN keys' = DOMAIN keys
    BY <1>0, <2>1, <2>2, UsedNow
  <2> QED
    BY <1>0, <2>1, <2>2, <2>3, <2>4, UsedNow
<1>7. ASSUME NEW k \in DOMAIN keys, Goal(k), Kept(k), Unmoved(k)
      PROVE  \E g, u :
                 /\ g \in DOMAIN keys /\ CallBy(u, g) /\ u.time = now
                 /\ uses' = uses \cup {u} /\ now' = now
                 /\ Activity!UpdateActivityStats(g) /\ Kept(g) /\ Unmoved(g)
  BY <1>7 DEF Goal
<1> QED
  BY <1>1, <1>3, <1>4, <1>5, <1>6, <1>7 DEF Activity!Next

LEMMA CountedInitially == Activity!Init => CountedInv
<1> SUFFICES ASSUME Activity!Init PROVE CountedInv
  OBVIOUS
<1>0. PeriodsInv
  BY PeriodsInitially
<1>1. now = 0 /\ uses = {} /\ lastChange = -1
  BY DEF Activity!Init, Activity!Never
<1>2. KeysTellUses
  BY <1>1 DEF KeysTellUses, Activity!Init
<1>3. ASSUME NEW B \in BucketSets, NEW s, s = Activity!NewStats(B, now)
      PROVE  Counted(B, s, Relevant(B, uses), lastChange)
  <2> DEFINE new == Activity!NewCounter(B, now)
  <2>1. Relevant(B, uses) = {} /\ \A x : From({}, x) = {}
    BY <1>1 DEF Relevant, From
  <2>2. Exactly(B, new, {})
    BY <1>1, NobodyCounted
  <2> HIDE DEF new
  <2>3. /\ s.day = new /\ s.months = <<new>>
        /\ s.completedDay = <<>> /\ s.completedMonth = <<>>
    BY <1>3 DEF Activity!NewStats, Activity!NoWindow, new
  <2>4. Activity!Range(<<>>) = {}
    BY DEF Activity!Range
  <2>5. Len(<<new>>) = 1 /\ <<new>>[1] = new /\ \A j \in 1..1 : j = 1
    OBVIOUS
  <2> QED
    BY <2>1, <2>2, <2>3, <2>4, <2>5 DEF Counted
<1>4. {"anchors"} \in BucketSets /\ Activity!DomainBuckets \in BucketSets
      /\ Activity!MethodBuckets \in BucketSets
  BY DEF BucketSets
<1> QED
  BY <1>0, <1>2, <1>3, <1>4 DEF CountedInv, Activity!Init

LEMMA CountedStep == ASSUME CountedInv, Activity!Next PROVE CountedInv'
<1>0. PeriodsInv /\ KeysTellUses /\ PeriodsInv' /\ now \in Nat
  BY PeriodsStep DEF CountedInv, PeriodsInv
<1>1. CASE /\ now' = now + 1 /\ keys' = keys /\ uses' = uses /\ lastChange' = lastChange
           /\ activeAnchors' = activeAnchors /\ activeDomains' = activeDomains
           /\ activeMethods' = activeMethods
  <2>1. \A x \in Int : x <= now => x <= now + 1
    BY <1>0
  <2>2. \A x \in 0..now : x \in 0..now + 1
    BY <1>0
  <2>3. KeysTellUses'
    BY <1>0, <1>1, <2>1, <2>2 DEF KeysTellUses, Activity!Never
  <2>4. \A B : Relevant(B, uses)' = Relevant(B, uses)
    BY <1>1 DEF Relevant, OnDomain
  <2> QED
    BY <1>0, <1>1, <2>3 DEF CountedInv
<1>2. CASE \E k, u :
                 /\ k \in DOMAIN keys /\ CallBy(u, k) /\ u.time = now
                 /\ uses' = uses \cup {u} /\ now' = now
                 /\ Activity!UpdateActivityStats(k)
                 /\ \A h \in DOMAIN keys' :
                       \/ keys'[h].used = Activity!Never
                       \/ /\ h \in DOMAIN keys
                          /\ keys'[h].used = IF h = k THEN now ELSE keys[h].used
                 /\ \/ lastChange' = now
                    \/ /\ lastChange' = lastChange
                       /\ \A h \in DOMAIN keys :
                             /\ h \in DOMAIN keys'
                             /\ keys'[h].origin = keys[h].origin
                             /\ keys'[h].used = IF h = k THEN now ELSE keys[h].used
  <2>1. PICK k, u :
                 /\ k \in DOMAIN keys /\ CallBy(u, k) /\ u.time = now
                 /\ uses' = uses \cup {u} /\ now' = now
                 /\ Activity!UpdateActivityStats(k)
                 /\ \A h \in DOMAIN keys' :
                       \/ keys'[h].used = Activity!Never
                       \/ /\ h \in DOMAIN keys
                          /\ keys'[h].used = IF h = k THEN now ELSE keys[h].used
                 /\ \/ lastChange' = now
                    \/ /\ lastChange' = lastChange
                       /\ \A h \in DOMAIN keys :
                             /\ h \in DOMAIN keys'
                             /\ keys'[h].origin = keys[h].origin
                             /\ keys'[h].used = IF h = k THEN now ELSE keys[h].used
    BY <1>2
  <2>2. KeysTellUses'
    BY <1>0, <2>1, KeysTellAfter
  <2>3. lastChange' \in {lastChange, now}
    BY <2>1
  <2> QED
    BY <1>0, <2>1, <2>2, <2>3, CallCountedByAll DEF CountedInv
<1> QED
  BY <1>1, <1>2, CallsOf

\* The periods of one of the statistics, as the property has it.
LEMMA PeriodsCountExactly ==
    ASSUME PeriodsInv, NEW B \in BucketSets, NEW s, GoodStats(B, s),
           NEW R, \A u \in R : u.time \in Int, Counted(B, s, R, lastChange)
    PROVE  /\ \A c \in {s.day} \cup Activity!Range(s.completedDay) :
                 lastChange < c.start => Exactly(B, c, Between(R, c.start, c.start + Day))
           /\ \A c \in Activity!Range(s.months)
                       \cup {d \in Activity!Range(s.completedMonth) :
                                Between(R, d.start, d.start + Day) # {}} :
                 lastChange < c.start =>
                    Exactly(B, c, Between(R, c.start, c.start + Activity!Month))
<1> DEFINE d == s.day.start
           Month == Activity!Month
<1>0. /\ now \in Nat /\ Day \in Nat \ {0} /\ Month \in Nat \ {0} /\ Month >= Day
      /\ \A u \in R : u.time \in Int
  BY Days, MonthNat DEF PeriodsInv, DayAssumption
<1>1. /\ d \in Int
      /\ \A j \in 1..Len(s.months) : s.months[j].start \in Int
      /\ \A c \in Activity!Range(s.completedDay) : c.start \in Int /\ c.start + Day = d
      /\ \A c \in Activity!Range(s.completedMonth) : c.start \in Int /\ c.start + Month = d
  BY <1>0, StatsStarts
<1>2. \A j \in 1..Len(s.months) : s.months[j].start + Month >= d + Day
  <2>1. s.months \in Seq(Counters(B)) /\ Fitting(s)
    BY DEF GoodStats, StatsOf
  <2> SUFFICES ASSUME NEW j \in 1..Len(s.months)
               PROVE  s.months[j].start + Month >= d + Day
    OBVIOUS
  <2> DEFINE x == s.months[j].start
             n == Len(s.months)
  <2>2. OnGrid(x) /\ OnGrid(d) /\ x \in Int /\ n \in Nat
    BY <1>1, <2>1, LenProperties DEF Fitting, MonthsFit
  <2>3. s.months[1].start <= x
    <3>1. CASE j = 1
      BY <1>1, <3>1
    <3>2. CASE j # 1
      <4>1. 1 \in 1..n /\ j \in 1..n /\ 1 < j
        BY <2>2, <3>2
      <4>2. s.months[1].start + Day <= s.months[j].start
        BY <2>1, <4>1, MonthsGrow DEF Fitting
      <4> QED
        BY <1>0, <1>1, <4>1, <4>2
    <3> QED
      BY <3>1, <3>2
  <2>4. s.months[1].start > d - Month /\ s.months[1].start \in Int
    <3>1. 1 \in 1..n
      BY <2>2
    <3> QED
      BY <1>1, <2>1, <3>1 DEF Fitting, MonthsFit
  <2> HIDE DEF x
  <2>5. d < x + Month /\ x + Month \in Int
    BY <1>0, <1>1, <2>2, <2>3, <2>4
  <2>6. OnGrid(x + Month)
    BY <2>2, GridDayMonth
  <2>7. d + Day <= x + Month
    BY <2>2, <2>5, <2>6, GridApart
  <2> QED
    BY <1>0, <1>1, <2>5, <2>7 DEF x
<1>3. \A u \in R : u.time < d + Day
  BY DEF Counted
<1> HIDE DEF d, Month
<1>4. ASSUME NEW x \in Int, NEW y \in Int, d + Day <= y
      PROVE  Between(R, x, y) = From(R, x)
  BY <1>0, <1>1, <1>3, <1>4 DEF Between, From
<1>5. ASSUME lastChange < d
      PROVE  Exactly(B, s.day, Between(R, d, d + Day))
  <2>1. d + Day \in Int /\ d + Day <= d + Day
    BY <1>0, <1>1
  <2>2. Between(R, d, d + Day) = From(R, d)
    BY <1>1, <1>4, <2>1
  <2> QED
    BY <1>5, <2>2 DEF Counted, d
<1>6. ASSUME NEW c \in Activity!Range(s.completedDay), lastChange < c.start
      PROVE  Exactly(B, c, Between(R, c.start, c.start + Day))
  <2>1. c.start + Day = d
    BY <1>1
  <2> QED
    BY <1>6, <2>1 DEF Counted, d
<1>7. ASSUME NEW c \in Activity!Range(s.months), lastChange < c.start
      PROVE  Exactly(B, c, Between(R, c.start, c.start + Month))
  <2>1. PICK j \in 1..Len(s.months) : c = s.months[j]
    <3>1. DOMAIN s.months = 1..Len(s.months)
      <4>1. s.months \in Seq(Counters(B))
        BY DEF GoodStats, StatsOf
      <4> QED
        BY <4>1, LenProperties
    <3> QED
      BY <3>1 DEF Activity!Range
  <2>2. c.start \in Int /\ c.start + Month \in Int /\ d + Day <= c.start + Month
    BY <1>0, <1>1, <1>2, <2>1
  <2>3. Between(R, c.start, c.start + Month) = From(R, c.start)
    BY <1>4, <2>2
  <2> QED
    BY <1>7, <2>1, <2>3 DEF Counted
<1>8. ASSUME NEW c \in Activity!Range(s.completedMonth),
             Between(R, c.start, c.start + Day) # {}, lastChange < c.start
      PROVE  Exactly(B, c, Between(R, c.start, c.start + Month))
  <2>1. c.start + Month = d
    BY <1>1
  <2> QED
    BY <1>8, <2>1 DEF Counted, d
<1> QED
  BY <1>5, <1>6, <1>7, <1>8 DEF d, Month

LEMMA CountedOk == CountedInv => Activity!EveryoneIsCountedOnce
<1> SUFFICES ASSUME CountedInv PROVE Activity!EveryoneIsCountedOnce
  OBVIOUS
<1>0. /\ PeriodsInv /\ \A u \in uses : u.time \in Int
      /\ {"anchors"} \in BucketSets /\ Activity!DomainBuckets \in BucketSets
      /\ Activity!MethodBuckets \in BucketSets
      /\ {"anchors"} # Activity!DomainBuckets /\ {"anchors"} # Activity!MethodBuckets
      /\ Activity!DomainBuckets # Activity!MethodBuckets
  BY CountEventIs DEF CountedInv, KeysTellUses, BucketSets
<1>1. /\ \A B : Relevant(B, uses) \subseteq uses
      /\ Relevant({"anchors"}, uses) = uses
      /\ Relevant(Activity!MethodBuckets, uses) = uses
      /\ Relevant(Activity!DomainBuckets, uses) = {u \in uses : OnDomain(u)}
  BY <1>0 DEF Relevant
<1>2. \A x, y : Between(uses, x, y) = Activity!UsesIn(x, y)
  BY DEF Between, Activity!UsesIn
<1>3. \A x, y : Between({u \in uses : OnDomain(u)}, x, y)
                  = {u \in Activity!UsesIn(x, y) : OnDomain(u)}
  BY DEF Between, Activity!UsesIn
<1> DEFINE DaysOf(s) == {s.day} \cup Activity!Range(s.completedDay)
           Month == Activity!Month
<1>4. /\ \A c \in DaysOf(activeAnchors) :
            lastChange < c.start =>
               Activity!AnchorsExactly(c, Activity!UsesIn(c.start, c.start + Day))
      /\ \A c \in Activity!Range(activeAnchors.months)
                  \cup {d \in Activity!Range(activeAnchors.completedMonth) :
                           \E u \in Activity!UsesIn(d.start, d.start + Day) : TRUE} :
            lastChange < c.start =>
               Activity!AnchorsExactly(c, Activity!UsesIn(c.start, c.start + Month))
  <2>1. GoodStats({"anchors"}, activeAnchors)
        /\ Counted({"anchors"}, activeAnchors, uses, lastChange)
    BY <1>1 DEF CountedInv, PeriodsInv
  <2>2. /\ \A c \in DaysOf(activeAnchors) :
              lastChange < c.start =>
                 Exactly({"anchors"}, c, Between(uses, c.start, c.start + Day))
        /\ \A c \in Activity!Range(activeAnchors.months)
                    \cup {d \in Activity!Range(activeAnchors.completedMonth) :
                             Between(uses, d.start, d.start + Day) # {}} :
              lastChange < c.start =>
                 Exactly({"anchors"}, c, Between(uses, c.start, c.start + Month))
    BY <1>0, <2>1, PeriodsCountExactly
  <2> QED
    BY <1>2, <2>2 DEF Exactly
<1>5. /\ \A c \in DaysOf(activeMethods) :
            lastChange < c.start =>
               Activity!MethodsExactly(c, Activity!UsesIn(c.start, c.start + Day))
      /\ \A c \in Activity!Range(activeMethods.months)
                  \cup {d \in Activity!Range(activeMethods.completedMonth) :
                           \E u \in Activity!UsesIn(d.start, d.start + Day) : TRUE} :
            lastChange < c.start =>
               Activity!MethodsExactly(c, Activity!UsesIn(c.start, c.start + Month))
  <2>1. GoodStats(Activity!MethodBuckets, activeMethods)
        /\ Counted(Activity!MethodBuckets, activeMethods, uses, lastChange)
    BY <1>1 DEF CountedInv, PeriodsInv
  <2>2. /\ \A c \in DaysOf(activeMethods) :
              lastChange < c.start =>
                 Exactly(Activity!MethodBuckets, c, Between(uses, c.start, c.start + Day))
        /\ \A c \in Activity!Range(activeMethods.months)
                    \cup {d \in Activity!Range(activeMethods.completedMonth) :
                             Between(uses, d.start, d.start + Day) # {}} :
              lastChange < c.start =>
                 Exactly(Activity!MethodBuckets, c, Between(uses, c.start, c.start + Month))
    BY <1>0, <2>1, PeriodsCountExactly
  <2> QED
    BY <1>2, <2>2 DEF Exactly
<1>6. /\ \A c \in DaysOf(activeDomains) :
            lastChange < c.start =>
               Activity!DomainsExactly(c, Activity!UsesIn(c.start, c.start + Day))
      /\ \A c \in Activity!Range(activeDomains.months)
                  \cup {d \in Activity!Range(activeDomains.completedMonth) :
                           \E u \in Activity!UsesIn(d.start, d.start + Day) : OnDomain(u)} :
            lastChange < c.start =>
               Activity!DomainsExactly(c, Activity!UsesIn(c.start, c.start + Month))
  <2> DEFINE R == {u \in uses : OnDomain(u)}
             B == Activity!DomainBuckets
  <2>1. GoodStats(B, activeDomains) /\ Counted(B, activeDomains, R, lastChange)
        /\ \A u \in R : u.time \in Int
    BY <1>0, <1>1 DEF CountedInv, PeriodsInv
  <2> HIDE DEF R
  <2>2. /\ \A c \in DaysOf(activeDomains) :
              lastChange < c.start => Exactly(B, c, Between(R, c.start, c.start + Day))
        /\ \A c \in Activity!Range(activeDomains.months)
                    \cup {d \in Activity!Range(activeDomains.completedMonth) :
                             Between(R, d.start, d.start + Day) # {}} :
              lastChange < c.start => Exactly(B, c, Between(R, c.start, c.start + Month))
    BY <1>0, <2>1, PeriodsCountExactly
  <2>3. ASSUME NEW c, NEW x, NEW y, Exactly(B, c, Between(R, x, y))
        PROVE  Activity!DomainsExactly(c, Activity!UsesIn(x, y))
    <3>1. Activity!DomainsExactly(c, {u \in Activity!UsesIn(x, y) : OnDomain(u)})
      BY <1>3, <2>3 DEF Exactly, R
    <3> QED
      BY <3>1, OnlyRelevantCount
  <2>4. \A d : Between(R, d.start, d.start + Day) # {} <=>
                 \E u \in Activity!UsesIn(d.start, d.start + Day) : OnDomain(u)
    BY <1>3 DEF R
  <2> HIDE DEF B
  <2> QED
    BY <2>2, <2>3, <2>4
<1> QED
  BY <1>4, <1>5, <1>6 DEF Activity!EveryoneIsCountedOnce, Activity!MonthsOf, OnDomain

CountedPart == part = "activity" => CountedInv

\* Every period counts every anchor, and every key by its method, that was
\* active in it exactly once (update_activity_stats, count_event), provided
\* that no key was removed or moved since the period started.
THEOREM EveryoneIsAlwaysCountedOnce == Spec => []EveryoneIsCountedOnce
<1>1. Init => CountedPart
  BY CountedInitially DEF Init, CountedPart
<1>2. CountedPart /\ [Next]_vars => CountedPart'
  <2> SUFFICES ASSUME CountedPart, [Next]_vars, part = "activity" PROVE CountedInv'
    BY StepOfAPart DEF CountedPart
  <2>1. CASE Activity!Next
    BY <2>1, CountedStep DEF CountedPart
  <2>2. CASE UNCHANGED <<now, activityVars>>
    <3>1. PeriodsInv'
      BY <2>2 DEF activityVars, CountedPart, CountedInv, PeriodsInv, GoodKeys, GoodStats,
                  Activity!Never
    <3>2. KeysTellUses'
      BY <2>2 DEF activityVars, CountedPart, CountedInv, KeysTellUses, Activity!Never
    <3>3. \A B : Relevant(B, uses)' = Relevant(B, uses)
      BY <2>2 DEF activityVars, Relevant, OnDomain
    <3> QED
      BY <2>2, <3>1, <3>2, <3>3 DEF activityVars, CountedPart, CountedInv
  <2> QED
    BY <2>1, <2>2, StepOfAPart
<1>3. CountedPart => EveryoneIsCountedOnce
  BY CountedOk DEF CountedPart, EveryoneIsCountedOnce
<1> QED
  BY <1>1, <1>2, <1>3, PTL DEF Spec

=============================================================================
