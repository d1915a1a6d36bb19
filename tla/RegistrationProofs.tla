-------------------------- MODULE RegistrationProofs --------------------------
(***************************************************************************)
(* Proofs about the two ways to add a passkey, RegistrationFlow and        *)
(* TentativeRegistration, for any number of principals, anchors, devices   *)
(* and overlapping calls, and for all limits and durations: the properties *)
(* that MCRegistration checks on a small instance.                         *)
(***************************************************************************)
EXTENDS MCRegistration, IntegerLemmas, FiniteSetTheorems, SequenceTheorems, TLAPS

-----------------------------------------------------------------------------
(***************************************************************************)
(* Tentative devices: the invariant.                                       *)
(***************************************************************************)

\* The states of a registration mode: nothing waits, a device or session waits
\* after some wrong codes, or a session is confirmed.
ModeStates ==
    {Tentative!Active}
      \cup {[Tentative!Added(s) EXCEPT !.attempts = n] :
               s \in Tentative!Subjects, n \in 0..(MaxAttempts - 1)}
      \cup {Tentative!Confirmed(s) : s \in Sessions}

\* The registration modes and the table of their ids, as they may be at a time.
GoodModes(modes, ids, time) ==
    /\ DOMAIN modes \subseteq Users
    /\ IsFiniteSet(DOMAIN modes)
    /\ Cardinality(DOMAIN modes) <= MaxModes
    /\ \A a \in DOMAIN modes :
          modes[a] \in [expiration : 1..(time + Duration),
                        id : RegIds \cup {NoId}, state : ModeStates]
    /\ DOMAIN ids \subseteq RegIds
    /\ \A id \in DOMAIN ids : /\ ids[id] \in DOMAIN modes
                              /\ modes[ids[id]].id = id

\* What the history of an anchor's window says of its registration mode: when
\* the mode ends, that it has added nothing yet, and how many wrong codes it has
\* counted, the last of which would have ended it.
WindowAgrees(mode, w) ==
    /\ mode.expiration = w.entered + Duration
    /\ w.added = 0
    /\ w.guesses < MaxAttempts
    /\ mode.state.kind # "confirmed" => w.guesses = mode.state.attempts

WindowsAgree ==
    \A a \in DOMAIN registrations : WindowAgrees(registrations[a], window[a])

\* The parts of the type invariant that do not speak of the two maps.
RestTyped ==
    /\ now \in Nat
    /\ devices \in [Users -> SUBSET Devices]
    /\ DOMAIN pubkeyIndex \subseteq Devices
    /\ \A d \in DOMAIN pubkeyIndex : pubkeyIndex[d] \in Users
    /\ DOMAIN pending \subseteq ModeCalls
    /\ \A c \in DOMAIN pending :
          pending[c] \in [anchor : Users, subject : Tentative!Subjects]
    /\ window \in [Users -> [entered : Nat, guesses : Nat, added : Nat]]

TentativeInv ==
    /\ RestTyped
    /\ GoodModes(registrations, lookup, now)
    /\ WindowsAgree
    /\ Tentative!GuessesBounded

-----------------------------------------------------------------------------
(***************************************************************************)
(* How a call changes the two maps: it prunes them, and then leaves them,  *)
(* changes the state of one mode, ends one or opens one.                   *)
(***************************************************************************)

\* The assumption on the constants, in its parts.
LEMMA TentativeConstants ==
    /\ Duration \in Nat /\ Duration > 0
    /\ MaxModes \in Nat
    /\ MaxAttempts \in Nat /\ MaxAttempts > 0
    /\ NoId \notin RegIds
    /\ Devices \cap Sessions = {}
BY MCRegistrationAssumption DEF Tentative!TentativeRegistrationAssumption

\* The cardinality that the instance means is the one of the library.
LEMMA TentativeCardinality ==
    ASSUME NEW S PROVE Tentative!Cardinality(S) = Cardinality(S)
BY DEF Tentative!Cardinality, Cardinality

\* What is known of a mode's state.
LEMMA ModeStateFact ==
    ASSUME NEW st \in ModeStates
    PROVE  /\ st.kind \in {"active", "added", "confirmed"}
           /\ st.attempts \in 0..(MaxAttempts - 1)
           /\ st.kind = "active" <=> st = Tentative!Active
           /\ st.kind = "active" => st.subjects = {} /\ st.attempts = 0
           /\ st.kind = "added" =>
                 \E s \in Tentative!Subjects :
                    st = [kind |-> "added", subjects |-> {s}, attempts |-> st.attempts]
           /\ st.kind = "confirmed" =>
                 \E s \in Sessions : st = Tentative!Confirmed(s)
<1>1. CASE st = Tentative!Active
  <2>1. st = [kind |-> "active", subjects |-> {}, attempts |-> 0]
    BY <1>1 DEF Tentative!Active
  <2> QED BY <1>1, <2>1, TentativeConstants
<1>2. CASE \E s \in Tentative!Subjects, n \in 0..(MaxAttempts - 1) :
              st = [Tentative!Added(s) EXCEPT !.attempts = n]
  <2>1. PICK s \in Tentative!Subjects, n \in 0..(MaxAttempts - 1) :
           st = [kind |-> "added", subjects |-> {s}, attempts |-> n]
    BY <1>2 DEF Tentative!Added
  <2>2. st # Tentative!Active
    BY <2>1 DEF Tentative!Active
  <2> QED BY <2>1, <2>2
<1>3. CASE \E s \in Sessions : st = Tentative!Confirmed(s)
  <2>1. PICK s \in Sessions : /\ st = Tentative!Confirmed(s)
                             /\ st = [kind |-> "confirmed", subjects |-> {s}, attempts |-> 0]
    BY <1>3 DEF Tentative!Confirmed
  <2>2. st # Tentative!Active
    BY <2>1 DEF Tentative!Active
  <2>3. st.kind = "confirmed" /\ st.attempts = 0
    BY <2>1
  <2>4. st.attempts \in 0..(MaxAttempts - 1)
    BY <2>3, TentativeConstants
  <2>5. \E x \in Sessions : st = Tentative!Confirmed(x)
    BY <2>1
  <2> QED BY <2>2, <2>3, <2>4, <2>5
<1> QED BY <1>1, <1>2, <1>3 DEF ModeStates

\* Pruning keeps some of the modes, and the ids of those only
\* (prune_expired_tentative_device_registrations).
LEMMA PruneFact ==
    ASSUME GoodModes(registrations, lookup, now)
    PROVE  /\ Tentative!LiveModes \subseteq DOMAIN registrations
           /\ DOMAIN Tentative!Modes = Tentative!LiveModes
           /\ \A a \in Tentative!LiveModes : Tentative!Modes[a] = registrations[a]
           /\ GoodModes(Tentative!Modes, Tentative!Lookup, now)
<1>1. /\ Tentative!LiveModes \subseteq DOMAIN registrations
      /\ DOMAIN Tentative!Modes = Tentative!LiveModes
      /\ \A a \in Tentative!LiveModes : Tentative!Modes[a] = registrations[a]
  BY DEF Tentative!LiveModes, Tentative!Modes, Tentative!Restrict
<1>2. /\ DOMAIN Tentative!Lookup =
            DOMAIN lookup \ {registrations[a].id : a \in DOMAIN registrations \ Tentative!LiveModes}
      /\ \A id \in DOMAIN Tentative!Lookup : Tentative!Lookup[id] = lookup[id]
  BY DEF Tentative!Lookup, Tentative!Remove, Tentative!Restrict
<1>3. /\ IsFiniteSet(Tentative!LiveModes)
      /\ Cardinality(Tentative!LiveModes) <= MaxModes
  <2>1. /\ IsFiniteSet(Tentative!LiveModes)
        /\ Cardinality(Tentative!LiveModes) <= Cardinality(DOMAIN registrations)
    BY <1>1, FS_Subset DEF GoodModes
  <2> QED BY <2>1, <1>1, FS_CardinalityType, TentativeConstants DEF GoodModes
<1>4. \A id \in DOMAIN Tentative!Lookup :
         /\ Tentative!Lookup[id] \in Tentative!LiveModes
         /\ Tentative!Modes[Tentative!Lookup[id]].id = id
  BY <1>1, <1>2 DEF GoodModes
<1>5. \A a \in DOMAIN Tentative!Modes :
         Tentative!Modes[a] \in [expiration : 1..(now + Duration),
                        id : RegIds \cup {NoId}, state : ModeStates]
  BY <1>1 DEF GoodModes
<1>6. GoodModes(Tentative!Modes, Tentative!Lookup, now)
  BY <1>1, <1>2, <1>3, <1>4, <1>5 DEF GoodModes
<1> QED BY <1>1, <1>6

\* A change of one mode's state.
LEMMA SetStateFact ==
    ASSUME GoodModes(registrations, lookup, now),
           NEW a \in Tentative!LiveModes, NEW st \in ModeStates,
           Tentative!SetState(a, st)
    PROVE  /\ GoodModes(registrations', lookup', now)
           /\ DOMAIN registrations' = Tentative!LiveModes
           /\ registrations'[a] = [registrations[a] EXCEPT !.state = st]
           /\ \A b \in DOMAIN registrations' : b # a => registrations'[b] = registrations[b]
<1> DEFINE M == Tentative!Modes
<1>1. /\ DOMAIN M = Tentative!LiveModes
      /\ \A b \in Tentative!LiveModes : M[b] = registrations[b]
      /\ GoodModes(M, Tentative!Lookup, now)
  BY PruneFact
<1>2. registrations' = [M EXCEPT ![a].state = st] /\ lookup' = Tentative!Lookup
  BY DEF Tentative!SetState
<1> HIDE DEF M
<1>3. M[a] \in [expiration : 1..(now + Duration),
                id : RegIds \cup {NoId}, state : ModeStates]
  BY <1>1 DEF GoodModes
<1>4. /\ DOMAIN registrations' = DOMAIN M
      /\ registrations'[a] = [M[a] EXCEPT !.state = st]
      /\ \A b \in DOMAIN registrations' : b # a => registrations'[b] = M[b]
  BY <1>1, <1>2
<1>5. registrations'[a] \in [expiration : 1..(now + Duration),
                id : RegIds \cup {NoId}, state : ModeStates]
       /\ registrations'[a].id = M[a].id
  BY <1>3, <1>4
<1>6. GoodModes(registrations', lookup', now)
  BY <1>1, <1>2, <1>4, <1>5 DEF GoodModes
<1> QED BY <1>1, <1>4, <1>6

\* The end of a mode.
LEMMA EndModeFact ==
    ASSUME GoodModes(registrations, lookup, now),
           NEW a \in Tentative!LiveModes, Tentative!EndMode(a)
    PROVE  /\ GoodModes(registrations', lookup', now)
           /\ DOMAIN registrations' = Tentative!LiveModes \ {a}
           /\ \A b \in DOMAIN registrations' : registrations'[b] = registrations[b]
<1> DEFINE M == Tentative!Modes
           L == Tentative!Lookup
<1>1. /\ DOMAIN M = Tentative!LiveModes
      /\ \A b \in Tentative!LiveModes : M[b] = registrations[b]
      /\ GoodModes(M, L, now)
  BY PruneFact
<1>2. /\ DOMAIN registrations' = DOMAIN M \ {a}
      /\ \A b \in DOMAIN registrations' : registrations'[b] = M[b]
      /\ DOMAIN lookup' = DOMAIN L \ {M[a].id}
      /\ \A id \in DOMAIN lookup' : lookup'[id] = L[id]
  BY DEF Tentative!EndMode, Tentative!Remove, Tentative!Restrict
<1> HIDE DEF M, L
<1>3. /\ IsFiniteSet(DOMAIN registrations')
      /\ Cardinality(DOMAIN registrations') <= MaxModes
  <2>1. /\ IsFiniteSet(DOMAIN registrations')
        /\ Cardinality(DOMAIN registrations') <= Cardinality(DOMAIN M)
    BY <1>1, <1>2, FS_Subset DEF GoodModes
  <2> QED BY <2>1, <1>1, FS_CardinalityType, TentativeConstants DEF GoodModes
<1>4. GoodModes(registrations', lookup', now)
  BY <1>1, <1>2, <1>3 DEF GoodModes
<1> QED BY <1>1, <1>2, <1>4

\* A new mode, whose id may be one that another mode has.
LEMMA EnterFact ==
    ASSUME RestTyped, GoodModes(registrations, lookup, now),
           NEW a \in Users, NEW id \in RegIds \cup {NoId}, Tentative!Enter(a, id)
    PROVE  /\ GoodModes(registrations', lookup', now)
           /\ a \notin Tentative!LiveModes
           /\ DOMAIN registrations' = Tentative!LiveModes \cup {a}
           /\ registrations'[a] = [expiration |-> now + Duration, id |-> id,
                                   state |-> Tentative!Active]
           /\ \A b \in DOMAIN registrations' : b # a => registrations'[b] = registrations[b]
<1> DEFINE M == Tentative!Modes
           L == Tentative!Lookup
           r == [expiration |-> now + Duration, id |-> id, state |-> Tentative!Active]
<1>1. /\ DOMAIN M = Tentative!LiveModes
      /\ \A b \in Tentative!LiveModes : M[b] = registrations[b]
      /\ GoodModes(M, L, now)
  BY PruneFact
<1>2. /\ a \notin DOMAIN M
      /\ ~(Cardinality(DOMAIN M) >= MaxModes)
      /\ registrations' = Tentative!Put(M, a, r)
      /\ lookup' = IF id = NoId THEN L ELSE Tentative!Put(L, id, a)
  BY <1>1, TentativeCardinality DEF Tentative!Enter, Tentative!TooManyModes
<1>3. r \in [expiration : 1..(now + Duration), id : RegIds \cup {NoId}, state : ModeStates]
  BY TentativeConstants DEF RestTyped, ModeStates
<1>4. r.id = id
  OBVIOUS
<1> HIDE DEF M, L, r
<1>5. /\ DOMAIN registrations' = DOMAIN M \cup {a}
      /\ registrations'[a] = r
      /\ \A b \in DOMAIN registrations' : b # a => registrations'[b] = M[b]
  BY <1>2 DEF Tentative!Put
<1>6. /\ DOMAIN lookup' = IF id = NoId THEN DOMAIN L ELSE DOMAIN L \cup {id}
      /\ \A i \in DOMAIN lookup' : lookup'[i] = IF i = id THEN a ELSE L[i]
  <2>1. CASE id = NoId
    BY <2>1, <1>2, <1>1, TentativeConstants DEF GoodModes
  <2>2. CASE id # NoId
    BY <2>2, <1>2 DEF Tentative!Put
  <2> QED BY <2>1, <2>2
<1>7. /\ IsFiniteSet(DOMAIN registrations')
      /\ Cardinality(DOMAIN registrations') <= MaxModes
  <2>1. IsFiniteSet(DOMAIN M) /\ Cardinality(DOMAIN M) \in Nat
    BY <1>1, FS_CardinalityType DEF GoodModes
  <2>2. /\ IsFiniteSet(DOMAIN M \cup {a})
        /\ Cardinality(DOMAIN M \cup {a}) = Cardinality(DOMAIN M) + 1
    BY <2>1, <1>2, FS_AddElement
  <2> QED BY <2>1, <2>2, <1>2, <1>5, TentativeConstants
<1>8. \A b \in DOMAIN registrations' :
         registrations'[b] \in [expiration : 1..(now + Duration),
                                id : RegIds \cup {NoId}, state : ModeStates]
  BY <1>1, <1>3, <1>5 DEF GoodModes
<1>9. \A i \in DOMAIN lookup' : /\ lookup'[i] \in DOMAIN registrations'
                                /\ registrations'[lookup'[i]].id = i
  BY <1>1, <1>2, <1>4, <1>5, <1>6 DEF GoodModes
<1>10. GoodModes(registrations', lookup', now)
  BY <1>1, <1>5, <1>6, <1>7, <1>8, <1>9 DEF GoodModes
<1>11. /\ a \notin Tentative!LiveModes
       /\ DOMAIN registrations' = Tentative!LiveModes \cup {a}
       /\ \A b \in DOMAIN registrations' : b # a => registrations'[b] = registrations[b]
  BY <1>1, <1>2, <1>5
<1> QED BY <1>5, <1>10, <1>11 DEF r

-----------------------------------------------------------------------------
(***************************************************************************)
(* Tentative devices: the invariant holds, and every step is as promised.  *)
(***************************************************************************)

\* Writing an anchor keeps the types of the devices and their index.
LEMMA WriteTyped ==
    ASSUME RestTyped, NEW a \in Users, NEW ds \in SUBSET Devices, Tentative!Write(a, ds)
    PROVE  /\ devices' \in [Users -> SUBSET Devices]
           /\ DOMAIN pubkeyIndex' \subseteq Devices
           /\ \A d \in DOMAIN pubkeyIndex' : pubkeyIndex'[d] \in Users
<1>1. devices' \in [Users -> SUBSET Devices]
  BY DEF RestTyped, Tentative!Write
<1> DEFINE removed == {d \in devices[a] \ ds : d \in DOMAIN pubkeyIndex /\ pubkeyIndex[d] = a}
           added == (ds \ devices[a]) \ DOMAIN pubkeyIndex
           kept == Tentative!Remove(pubkeyIndex, removed)
<1>2. /\ DOMAIN kept \subseteq DOMAIN pubkeyIndex
      /\ \A d \in DOMAIN kept : kept[d] = pubkeyIndex[d]
  BY DEF Tentative!Remove, Tentative!Restrict
<1>3. pubkeyIndex' = [d \in DOMAIN kept \cup added |-> IF d \in added THEN a ELSE kept[d]]
  BY DEF Tentative!Write
<1>4. added \subseteq Devices
  OBVIOUS
<1> HIDE DEF kept, added, removed
<1> QED BY <1>1, <1>2, <1>3, <1>4 DEF RestTyped

\* A step keeps what the invariant says of one anchor's mode and window if it
\* changes neither, or if it ends the mode.
LEMMA KeepWindows ==
    ASSUME WindowsAgree,
           \A a \in DOMAIN registrations' :
              /\ a \in DOMAIN registrations
              /\ registrations'[a] = registrations[a]
              /\ window'[a] = window[a]
    PROVE  WindowsAgree'
BY DEF WindowsAgree, WindowAgrees

\* What is known of a mode that has not expired.
LEMMA LiveModeFact ==
    ASSUME TentativeInv, NEW a \in Tentative!LiveModes
    PROVE  /\ a \in Users /\ a \in DOMAIN registrations
           /\ registrations[a].state \in ModeStates
           /\ registrations[a].expiration \in Nat
           /\ now < registrations[a].expiration
           /\ WindowAgrees(registrations[a], window[a])
           /\ window[a] \in [entered : Nat, guesses : Nat, added : Nat]
<1>1. a \in DOMAIN registrations /\ registrations[a].expiration > now
  BY DEF Tentative!LiveModes
<1>2. registrations[a] \in [expiration : 1..(now + Duration),
                            id : RegIds \cup {NoId}, state : ModeStates]
  BY <1>1 DEF TentativeInv, GoodModes
<1>3. a \in Users
  BY <1>1 DEF TentativeInv, GoodModes
<1> QED
  BY <1>1, <1>2, <1>3, TentativeConstants DEF TentativeInv, RestTyped, WindowsAgree

\* What a call promises: the invariant, and the two action properties.
StepIsGood ==
    /\ TentativeInv'
    /\ Tentative!NoSubstitutionStep
    /\ Tentative!AddedWithinWindowStep

\* Calls that leave the maps and the windows alone; the clock may advance.
LEMMA QuietStep ==
    ASSUME TentativeInv, RestTyped', now' \in Nat, now' >= now,
           UNCHANGED <<registrations, lookup, window>>
    PROVE  StepIsGood
<1>1. GoodModes(registrations', lookup', now')
  BY TentativeConstants DEF GoodModes, TentativeInv, RestTyped
<1>2. WindowsAgree' /\ Tentative!GuessesBounded'
  BY DEF TentativeInv, WindowsAgree, WindowAgrees, Tentative!GuessesBounded
<1>3. Tentative!NoSubstitutionStep
  BY DEF Tentative!NoSubstitutionStep
<1>4. Tentative!AddedWithinWindowStep
  BY DEF Tentative!AddedWithinWindowStep, TentativeInv, RestTyped
<1> QED BY <1>1, <1>2, <1>3, <1>4 DEF StepIsGood, TentativeInv

\* Calls that prune and no more.
LEMMA PruneStep ==
    ASSUME TentativeInv, RestTyped', now' = now, UNCHANGED window,
           registrations' = Tentative!Modes, lookup' = Tentative!Lookup
    PROVE  StepIsGood
<1>1. /\ GoodModes(registrations', lookup', now')
      /\ DOMAIN registrations' = Tentative!LiveModes
      /\ \A a \in Tentative!LiveModes : /\ a \in DOMAIN registrations
                                       /\ registrations'[a] = registrations[a]
  BY PruneFact DEF TentativeInv
<1>2. WindowsAgree'
  BY <1>1, KeepWindows DEF TentativeInv
<1>3. Tentative!GuessesBounded'
  BY DEF TentativeInv, Tentative!GuessesBounded
<1>4. Tentative!NoSubstitutionStep
  BY <1>1 DEF Tentative!NoSubstitutionStep
<1>5. Tentative!AddedWithinWindowStep
  BY DEF Tentative!AddedWithinWindowStep, TentativeInv, RestTyped
<1> QED BY <1>1, <1>2, <1>3, <1>4, <1>5 DEF StepIsGood, TentativeInv

\* A mode takes its first subject, or its subject is confirmed.
LEMMA SubjectStep ==
    ASSUME TentativeInv, RestTyped', now' = now, UNCHANGED window,
           NEW a \in Tentative!LiveModes, NEW st \in ModeStates,
           Tentative!SetState(a, st),
           registrations[a].state.kind # "confirmed",
           st.kind # "confirmed" => st.attempts = registrations[a].state.attempts,
           registrations[a].state.subjects \subseteq st.subjects
    PROVE  StepIsGood
<1>1. /\ GoodModes(registrations', lookup', now')
      /\ DOMAIN registrations' = Tentative!LiveModes
      /\ registrations'[a] = [registrations[a] EXCEPT !.state = st]
      /\ \A b \in DOMAIN registrations' : b # a => registrations'[b] = registrations[b]
  BY SetStateFact DEF TentativeInv
<1>2. registrations[a] \in [expiration : 1..(now + Duration),
                            id : RegIds \cup {NoId}, state : ModeStates]
  BY LiveModeFact DEF TentativeInv, GoodModes
<1>3. /\ registrations'[a].expiration = registrations[a].expiration
      /\ registrations'[a].state = st
  BY <1>1, <1>2
<1>4. WindowsAgree'
  <2> SUFFICES ASSUME NEW b \in DOMAIN registrations'
               PROVE  WindowAgrees(registrations'[b], window'[b])
    BY DEF WindowsAgree
  <2>1. WindowAgrees(registrations[b], window[b])
    BY <1>1, LiveModeFact
  <2>2. CASE b = a
    BY <2>1, <2>2, <1>3 DEF WindowAgrees
  <2>3. CASE b # a
    BY <2>1, <2>3, <1>1 DEF WindowAgrees
  <2> QED BY <2>2, <2>3
<1>5. Tentative!GuessesBounded'
  BY DEF TentativeInv, Tentative!GuessesBounded
<1>6. Tentative!NoSubstitutionStep
  BY <1>1, <1>3 DEF Tentative!NoSubstitutionStep
<1>7. Tentative!AddedWithinWindowStep
  BY DEF Tentative!AddedWithinWindowStep, TentativeInv, RestTyped
<1> QED BY <1>1, <1>4, <1>5, <1>6, <1>7 DEF StepIsGood, TentativeInv

\* A mode ends; a device of it may be added.
LEMMA EndStep ==
    ASSUME TentativeInv, RestTyped', now' = now,
           NEW a \in Tentative!LiveModes, Tentative!EndMode(a),
           \/ UNCHANGED window
           \/ window' = [window EXCEPT ![a].added = @ + 1]
           \/ window' = [window EXCEPT ![a].guesses = @ + 1]
    PROVE  StepIsGood
<1>1. /\ GoodModes(registrations', lookup', now')
      /\ DOMAIN registrations' = Tentative!LiveModes \ {a}
      /\ \A b \in DOMAIN registrations' : registrations'[b] = registrations[b]
  BY EndModeFact DEF TentativeInv
<1>2. /\ a \in Users
      /\ registrations[a].expiration \in Nat
      /\ now < registrations[a].expiration
      /\ WindowAgrees(registrations[a], window[a])
  BY LiveModeFact
<1>3. /\ window \in [Users -> [entered : Nat, guesses : Nat, added : Nat]]
      /\ \A b \in Users : b # a => window'[b] = window[b]
      /\ window'[a].added > window[a].added => window[a].added = 0
      /\ window'[a].guesses \in {window[a].guesses, window[a].guesses + 1}
  BY <1>2 DEF TentativeInv, RestTyped, WindowAgrees
<1>4. WindowsAgree'
  <2> SUFFICES ASSUME NEW b \in DOMAIN registrations'
               PROVE  /\ b \in DOMAIN registrations
                      /\ registrations'[b] = registrations[b]
                      /\ window'[b] = window[b]
    BY KeepWindows DEF TentativeInv
  <2> QED BY <1>1, <1>3, LiveModeFact
<1>5. Tentative!GuessesBounded'
  <2> SUFFICES ASSUME NEW b \in Users
               PROVE  window'[b].guesses <= MaxAttempts
    BY DEF Tentative!GuessesBounded
  <2>1. window[b].guesses \in Nat /\ window[b].guesses <= MaxAttempts
    BY <1>3 DEF TentativeInv, Tentative!GuessesBounded
  <2>2. CASE b = a
    BY <2>1, <2>2, <1>2, <1>3, TentativeConstants DEF WindowAgrees
  <2> QED BY <2>1, <2>2, <1>3
<1>6. Tentative!NoSubstitutionStep
  BY <1>1 DEF Tentative!NoSubstitutionStep
<1>7. Tentative!AddedWithinWindowStep
  <2> SUFFICES ASSUME NEW b \in Users, window'[b].added > window[b].added
               PROVE  /\ window[b].added = 0
                      /\ now < window[b].entered + Duration
                      /\ window[b].guesses < MaxAttempts
    BY DEF Tentative!AddedWithinWindowStep
  <2>1. b = a
    BY <1>3
  <2> QED BY <2>1, <1>2 DEF WindowAgrees
<1> QED BY <1>1, <1>4, <1>5, <1>6, <1>7 DEF StepIsGood, TentativeInv

\* A wrong code that is not the last.
LEMMA WrongCodeStep ==
    ASSUME TentativeInv, RestTyped', now' = now,
           NEW a \in Tentative!LiveModes, NEW st \in ModeStates,
           Tentative!SetState(a, st),
           registrations[a].state.kind = "added",
           st.kind = "added",
           st.attempts = registrations[a].state.attempts + 1,
           registrations[a].state.subjects \subseteq st.subjects,
           window' = [window EXCEPT ![a].guesses = @ + 1]
    PROVE  StepIsGood
<1>1. /\ GoodModes(registrations', lookup', now')
      /\ DOMAIN registrations' = Tentative!LiveModes
      /\ registrations'[a] = [registrations[a] EXCEPT !.state = st]
      /\ \A b \in DOMAIN registrations' : b # a => registrations'[b] = registrations[b]
  BY SetStateFact DEF TentativeInv
<1>2. /\ a \in Users
      /\ WindowAgrees(registrations[a], window[a])
      /\ registrations[a] \in [expiration : 1..(now + Duration),
                               id : RegIds \cup {NoId}, state : ModeStates]
  BY LiveModeFact DEF TentativeInv, GoodModes
<1>3. /\ registrations'[a].expiration = registrations[a].expiration
      /\ registrations'[a].state = st
  BY <1>1, <1>2
<1>4. /\ \A b \in Users : b # a => window'[b] = window[b]
      /\ \A b \in Users : window'[b].added = window[b].added
      /\ window'[a].entered = window[a].entered
      /\ window'[a].guesses = window[a].guesses + 1
      /\ \A b \in Users : window[b].guesses \in Nat /\ window[b].added \in Nat
  BY <1>2 DEF TentativeInv, RestTyped
<1>5. /\ window'[a].guesses = st.attempts
      /\ st.attempts < MaxAttempts
  BY <1>2, <1>4, ModeStateFact, TentativeConstants DEF WindowAgrees
<1>6. WindowsAgree'
  <2> SUFFICES ASSUME NEW b \in DOMAIN registrations'
               PROVE  WindowAgrees(registrations'[b], window'[b])
    BY DEF WindowsAgree
  <2>1. b \in Users /\ WindowAgrees(registrations[b], window[b])
    BY <1>1, LiveModeFact
  <2>2. CASE b = a
    BY <2>1, <2>2, <1>3, <1>4, <1>5 DEF WindowAgrees
  <2>3. CASE b # a
    BY <2>1, <2>3, <1>1, <1>4
  <2> QED BY <2>2, <2>3
<1>7. Tentative!GuessesBounded'
  <2> SUFFICES ASSUME NEW b \in Users
               PROVE  window'[b].guesses <= MaxAttempts
    BY DEF Tentative!GuessesBounded
  <2> QED
    BY <1>4, <1>5, TentativeConstants DEF TentativeInv, Tentative!GuessesBounded
<1>8. Tentative!NoSubstitutionStep
  BY <1>1, <1>3 DEF Tentative!NoSubstitutionStep
<1>9. Tentative!AddedWithinWindowStep
  BY <1>4 DEF Tentative!AddedWithinWindowStep
<1> QED BY <1>1, <1>6, <1>7, <1>8, <1>9 DEF StepIsGood, TentativeInv

\* A new mode.
LEMMA EnterStep ==
    ASSUME TentativeInv, RestTyped', now' = now,
           NEW a \in Users, NEW id \in RegIds \cup {NoId}, Tentative!Enter(a, id)
    PROVE  StepIsGood
<1>1. /\ GoodModes(registrations', lookup', now')
      /\ a \notin Tentative!LiveModes
      /\ DOMAIN registrations' = Tentative!LiveModes \cup {a}
      /\ registrations'[a] = [expiration |-> now + Duration, id |-> id,
                              state |-> Tentative!Active]
      /\ \A b \in DOMAIN registrations' : b # a => registrations'[b] = registrations[b]
  BY EnterFact DEF TentativeInv
<1>2. /\ \A b \in Users : b # a => window'[b] = window[b]
      /\ window'[a] = [entered |-> now, guesses |-> 0, added |-> 0]
      /\ \A b \in Users : window[b].guesses \in Nat /\ window[b].added \in Nat
  BY DEF Tentative!Enter, TentativeInv, RestTyped
<1>3. WindowsAgree'
  <2> SUFFICES ASSUME NEW b \in DOMAIN registrations'
               PROVE  WindowAgrees(registrations'[b], window'[b])
    BY DEF WindowsAgree
  <2>1. CASE b = a
    BY <2>1, <1>1, <1>2, TentativeConstants DEF WindowAgrees, Tentative!Active
  <2>2. CASE b # a
    BY <2>2, <1>1, <1>2, LiveModeFact
  <2> QED BY <2>1, <2>2
<1>4. Tentative!GuessesBounded'
  <2> SUFFICES ASSUME NEW b \in Users
               PROVE  window'[b].guesses <= MaxAttempts
    BY DEF Tentative!GuessesBounded
  <2> QED BY <1>2, TentativeConstants DEF TentativeInv, Tentative!GuessesBounded
<1>5. Tentative!NoSubstitutionStep
  BY <1>1 DEF Tentative!NoSubstitutionStep
<1>6. Tentative!AddedWithinWindowStep
  BY <1>2 DEF Tentative!AddedWithinWindowStep
<1> QED BY <1>1, <1>3, <1>4, <1>5, <1>6 DEF StepIsGood, TentativeInv

\* The types of the rest, action by action.
LEMMA RestStep ==
    ASSUME TentativeInv, Tentative!Next
    PROVE  RestTyped' /\ now' \in Nat /\ now' >= now
<1> USE DEF TentativeInv
<1>1. CASE Tentative!Prune
  BY <1>1 DEF Tentative!Prune, RestTyped
<1>2. CASE \E a \in Users : Tentative!ExitByOwner(a)
  BY <1>2 DEF Tentative!ExitByOwner, RestTyped
<1>3. CASE \E a \in Users : Tentative!WrongCode(a)
  BY <1>3 DEF Tentative!WrongCode, RestTyped
<1>4. CASE \E a \in Users, id \in RegIds \cup {NoId} : Tentative!Enter(a, id)
  BY <1>4 DEF Tentative!Enter, RestTyped
<1>5. CASE \E a \in Users, d \in Devices : Tentative!AddDevice(a, d)
  <2>1. PICK a \in Users, d \in Devices : Tentative!AddDevice(a, d)
    BY <1>5
  <2>2. devices[a] \cup {d} \in SUBSET Devices
    BY DEF RestTyped
  <2> QED BY <2>1, <2>2, WriteTyped DEF Tentative!AddDevice, RestTyped
<1>6. CASE \E a \in Users, d \in Devices : Tentative!RemoveDevice(a, d)
  <2>1. PICK a \in Users, d \in Devices : Tentative!RemoveDevice(a, d)
    BY <1>6
  <2>2. devices[a] \ {d} \in SUBSET Devices
    BY DEF RestTyped
  <2> QED BY <2>1, <2>2, WriteTyped DEF Tentative!RemoveDevice, RestTyped
<1>7. CASE \E a \in Users, d \in Devices :
              Tentative!ConfirmDevice(a, d) \/ Tentative!ExitWithDevice(a, d)
  <2>1. PICK a \in Users, d \in Devices :
              Tentative!ConfirmDevice(a, d) \/ Tentative!ExitWithDevice(a, d)
    BY <1>7
  <2>2. devices[a] \cup {d} \in SUBSET Devices
    BY DEF RestTyped
  <2>3. /\ Tentative!Write(a, devices[a] \cup {d})
        /\ window' = [window EXCEPT ![a].added = @ + 1]
        /\ UNCHANGED <<now, pending>>
    BY <2>1 DEF Tentative!ConfirmDevice, Tentative!ExitWithDevice
  <2>4. window' \in [Users -> [entered : Nat, guesses : Nat, added : Nat]]
    BY <2>3 DEF RestTyped
  <2> QED BY <2>2, <2>3, <2>4, WriteTyped DEF RestTyped
<1>8. CASE \E a \in Users, s \in Sessions : Tentative!ConfirmSession(a, s)
  BY <1>8 DEF Tentative!ConfirmSession, RestTyped
<1>9. CASE \E a \in Users, s \in Tentative!Subjects, c \in ModeCalls :
              Tentative!RequestCode(a, s, c)
  BY <1>9 DEF Tentative!RequestCode, RestTyped, Tentative!Put
<1>10. CASE \E c \in ModeCalls : Tentative!CodeCreated(c) \/ Tentative!CodeFailed(c)
  BY <1>10 DEF Tentative!CodeCreated, Tentative!CodeFailed, RestTyped,
               Tentative!Remove, Tentative!Restrict
<1>11. CASE Tentative!Tick
  BY <1>11 DEF Tentative!Tick, RestTyped
<1>12. CASE Tentative!Upgrade
  BY <1>12 DEF Tentative!Upgrade, RestTyped, Tentative!Empty
<1> QED
  BY <1>1, <1>2, <1>3, <1>4, <1>5, <1>6, <1>7, <1>8, <1>9, <1>10, <1>11, <1>12
     DEF Tentative!Next

\* Every call keeps the invariant and is as promised.
LEMMA TentativeStep ==
    ASSUME TentativeInv, Tentative!Next
    PROVE  StepIsGood
<1>0. RestTyped' /\ now' \in Nat /\ now' >= now
  BY RestStep
<1>1. CASE Tentative!Prune
  BY <1>0, <1>1, PruneStep DEF Tentative!Prune
<1>2. CASE \E a \in Users : Tentative!ExitByOwner(a)
  BY <1>0, <1>2, EndStep DEF Tentative!ExitByOwner
<1>3. CASE \E a \in Users : Tentative!WrongCode(a)
  <2>1. PICK a \in Users : Tentative!WrongCode(a)
    BY <1>3
  <2>2. PICK s \in Tentative!Subjects : Tentative!Waiting(a, s)
    BY <2>1 DEF Tentative!WrongCode
  <2>3. a \in Tentative!LiveModes /\ registrations[a].state.kind = "added"
    BY <2>2 DEF Tentative!Waiting
  <2> DEFINE n == registrations[a].state.attempts + 1
             st == [registrations[a].state EXCEPT !.attempts = n]
  <2>4. /\ now' = now
        /\ window' = [window EXCEPT ![a].guesses = @ + 1]
        /\ IF Tentative!LastAttempt(n) THEN Tentative!EndMode(a)
                                       ELSE Tentative!SetState(a, st)
    BY <2>1 DEF Tentative!WrongCode
  <2>5. CASE Tentative!LastAttempt(n)
    BY <2>3, <2>4, <2>5, <1>0, EndStep
  <2>6. CASE ~Tentative!LastAttempt(n)
    <3>1. PICK x \in Tentative!Subjects :
             registrations[a].state = [kind |-> "added", subjects |-> {x},
                                       attempts |-> registrations[a].state.attempts]
      BY <2>3, LiveModeFact, ModeStateFact
    <3>2. registrations[a].state.attempts \in Nat /\ n < MaxAttempts
      BY <2>3, <2>6, LiveModeFact, ModeStateFact, TentativeConstants
         DEF Tentative!LastAttempt
    <3>3. st = [kind |-> "added", subjects |-> {x}, attempts |-> n]
      BY <3>1
    <3>4. st \in ModeStates
      <4>1. n \in 0..(MaxAttempts - 1)
        BY <3>2, TentativeConstants
      <4>2. st = [Tentative!Added(x) EXCEPT !.attempts = n]
        BY <3>3 DEF Tentative!Added
      <4> QED BY <4>1, <4>2 DEF ModeStates
    <3>5. /\ st.kind = "added" /\ st.attempts = n
          /\ registrations[a].state.subjects \subseteq st.subjects
      BY <3>1, <3>3
    <3> HIDE DEF st
    <3> QED BY <2>3, <2>4, <2>6, <3>4, <3>5, <1>0, WrongCodeStep
  <2> QED BY <2>5, <2>6
<1>4. CASE \E a \in Users, id \in RegIds \cup {NoId} : Tentative!Enter(a, id)
  BY <1>0, <1>4, EnterStep DEF Tentative!Enter
<1>5. CASE \E a \in Users, d \in Devices :
              Tentative!AddDevice(a, d) \/ Tentative!RemoveDevice(a, d)
  BY <1>0, <1>5, QuietStep DEF Tentative!AddDevice, Tentative!RemoveDevice
<1>6. CASE \E a \in Users, d \in Devices :
              Tentative!ConfirmDevice(a, d) \/ Tentative!ExitWithDevice(a, d)
  BY <1>0, <1>6, EndStep
     DEF Tentative!ConfirmDevice, Tentative!ExitWithDevice, Tentative!Waiting
<1>7. CASE \E a \in Users, s \in Sessions : Tentative!ConfirmSession(a, s)
  <2>1. PICK a \in Users, s \in Sessions : Tentative!ConfirmSession(a, s)
    BY <1>7
  <2>2. /\ a \in Tentative!LiveModes
        /\ registrations[a].state.kind = "added"
        /\ s \in registrations[a].state.subjects
        /\ Tentative!SetState(a, Tentative!Confirmed(s))
        /\ now' = now /\ UNCHANGED window
    BY <2>1 DEF Tentative!ConfirmSession, Tentative!Waiting
  <2>3. registrations[a].state.subjects \subseteq Tentative!Confirmed(s).subjects
    BY <2>2, LiveModeFact, ModeStateFact DEF Tentative!Confirmed
  <2>4. /\ Tentative!Confirmed(s) \in ModeStates
        /\ Tentative!Confirmed(s).kind = "confirmed"
    <3>1. Tentative!Confirmed(s) \in ModeStates
      BY DEF ModeStates
    <3> QED BY <3>1 DEF Tentative!Confirmed
  <2> QED BY <2>2, <2>3, <2>4, <1>0, SubjectStep
<1>8. CASE \E a \in Users, s \in Tentative!Subjects, c \in ModeCalls :
              Tentative!RequestCode(a, s, c)
  BY <1>0, <1>8, QuietStep DEF Tentative!RequestCode
<1>9. CASE \E c \in ModeCalls : Tentative!CodeCreated(c)
  <2>1. PICK c \in ModeCalls : Tentative!CodeCreated(c)
    BY <1>9
  <2> DEFINE a == pending[c].anchor
             s == pending[c].subject
  <2>2. /\ c \in DOMAIN pending /\ now' = now /\ UNCHANGED window
        /\ \/ Tentative!Registrable(a) /\ Tentative!SetState(a, Tentative!Added(s))
           \/ registrations' = Tentative!Modes /\ lookup' = Tentative!Lookup
    BY <2>1 DEF Tentative!CodeCreated
  <2>3. CASE registrations' = Tentative!Modes /\ lookup' = Tentative!Lookup
    BY <2>2, <2>3, <1>0, PruneStep
  <2>4. CASE Tentative!Registrable(a) /\ Tentative!SetState(a, Tentative!Added(s))
    <3>1. a \in Tentative!LiveModes /\ registrations[a].state = Tentative!Active
      BY <2>4 DEF Tentative!Registrable
    <3>2. s \in Tentative!Subjects
      BY <2>2 DEF TentativeInv, RestTyped
    <3>3. /\ Tentative!Added(s) \in ModeStates
          /\ Tentative!Added(s).attempts = 0
      <4>1. Tentative!Added(s) = [Tentative!Added(s) EXCEPT !.attempts = 0]
        BY DEF Tentative!Added
      <4>2. 0 \in 0..(MaxAttempts - 1)
        BY TentativeConstants
      <4>3. Tentative!Added(s).attempts = 0
        BY DEF Tentative!Added
      <4> QED BY <3>2, <4>1, <4>2, <4>3 DEF ModeStates
    <3>4. /\ registrations[a].state.kind # "confirmed"
          /\ registrations[a].state.attempts = 0
          /\ registrations[a].state.subjects = {}
      BY <3>1 DEF Tentative!Active
    <3> HIDE DEF a, s
    <3> QED BY <2>2, <2>4, <3>1, <3>3, <3>4, <1>0, SubjectStep
  <2> QED BY <2>2, <2>3, <2>4
<1>10. CASE \E c \in ModeCalls : Tentative!CodeFailed(c)
  BY <1>0, <1>10, QuietStep DEF Tentative!CodeFailed
<1>11. CASE Tentative!Tick
  BY <1>0, <1>11, QuietStep DEF Tentative!Tick
<1>12. CASE Tentative!Upgrade
  <2>1. /\ registrations' = Tentative!Empty /\ lookup' = Tentative!Empty
        /\ now' = now /\ UNCHANGED window
        /\ DOMAIN registrations' = {} /\ DOMAIN lookup' = {}
    BY <1>12 DEF Tentative!Upgrade, Tentative!Empty
  <2>2. GoodModes(registrations', lookup', now')
    BY <2>1, FS_EmptySet, TentativeConstants DEF GoodModes
  <2>3. WindowsAgree' /\ Tentative!GuessesBounded'
    BY <2>1 DEF WindowsAgree, TentativeInv, Tentative!GuessesBounded
  <2>4. Tentative!NoSubstitutionStep
    BY <2>1 DEF Tentative!NoSubstitutionStep
  <2>5. Tentative!AddedWithinWindowStep
    BY <2>1 DEF Tentative!AddedWithinWindowStep, TentativeInv, RestTyped
  <2> QED BY <1>0, <2>2, <2>3, <2>4, <2>5 DEF StepIsGood, TentativeInv
<1> QED
  BY <1>1, <1>2, <1>3, <1>4, <1>5, <1>6, <1>7, <1>8, <1>9, <1>10, <1>11, <1>12
     DEF Tentative!Next

\* The invariant holds at the start.
LEMMA TentativeStart == Tentative!Init => TentativeInv
<1> SUFFICES ASSUME Tentative!Init PROVE TentativeInv
  OBVIOUS
<1>1. DOMAIN registrations = {} /\ DOMAIN lookup = {} /\ DOMAIN pubkeyIndex = {}
      /\ DOMAIN pending = {}
  BY DEF Tentative!Init, Tentative!Empty
<1>2. GoodModes(registrations, lookup, now)
  BY <1>1, FS_EmptySet, TentativeConstants DEF GoodModes
<1>3. RestTyped
  BY <1>1 DEF Tentative!Init, RestTyped
<1>4. WindowsAgree /\ Tentative!GuessesBounded
  BY <1>1, TentativeConstants DEF Tentative!Init, WindowsAgree, Tentative!GuessesBounded
<1> QED BY <1>2, <1>3, <1>4 DEF TentativeInv

\* What the invariant is for.
LEMMA TentativeInvImplies ==
    ASSUME TentativeInv
    PROVE  Tentative!TypeOK /\ Tentative!LookupIsSound /\ Tentative!GuessesBounded
<1>1. Tentative!LookupIsSound /\ Tentative!GuessesBounded
  BY DEF TentativeInv, GoodModes, Tentative!LookupIsSound
<1>2. ASSUME NEW a \in DOMAIN registrations
      PROVE  LET r == registrations[a]
             IN  /\ r.expiration \in 1..(now + Duration)
                 /\ r.id \in RegIds \cup {NoId}
                 /\ \/ r.state = Tentative!Active
                    \/ \E s \in Tentative!Subjects, n \in 0..(MaxAttempts - 1) :
                          r.state = [Tentative!Added(s) EXCEPT !.attempts = n]
                    \/ \E s \in Sessions : r.state = Tentative!Confirmed(s)
  BY <1>2 DEF TentativeInv, GoodModes, ModeStates
<1>3. Cardinality(DOMAIN registrations) <= MaxModes
  BY DEF TentativeInv, GoodModes
<1>4. Tentative!TypeOK
  BY <1>2, <1>3, TentativeCardinality
     DEF TentativeInv, GoodModes, RestTyped, Tentative!TypeOK
<1> QED BY <1>1, <1>4

\* A behaviour of the union in which the tentative devices run keeps their
\* invariant.
LEMMA TentativeAlways == Spec => [](part = "tentative" => TentativeInv)
<1> DEFINE I == part = "tentative" => TentativeInv
<1>1. Init => I
  BY TentativeStart DEF Init
<1>2. I /\ [Next]_vars => I'
  <2> SUFFICES ASSUME I, [Next]_vars, part' = "tentative" PROVE TentativeInv'
    OBVIOUS
  <2>1. part = "tentative"
    BY DEF Next, vars
  <2>2. CASE UNCHANGED vars
    BY <2>1, <2>2 DEF vars, TentativeInv, RestTyped, WindowsAgree, WindowAgrees,
                      Tentative!GuessesBounded
  <2>3. CASE Next
    BY <2>1, <2>3, TentativeStep DEF Next, StepIsGood
  <2> QED BY <2>2, <2>3
<1> QED BY <1>1, <1>2, PTL DEF Spec

\* lookup_by_registration_mode_id leads to the anchor that chose the id, though
\* modes expire, are taken over and end in every order; the modes stay within
\* MAX_ANCHORS_IN_REGISTRATION_MODE and the wrong codes of one mode within
\* MAX_DEVICE_REGISTRATION_ATTEMPTS.
THEOREM IdsLeadToTheirAnchors == Spec => []LookupIsSound
<1>1. (part = "tentative" => TentativeInv) => LookupIsSound
  BY TentativeInvImplies DEF LookupIsSound
<1> QED BY <1>1, TentativeAlways, PTL

\* While a mode lasts nobody replaces the device or session that the owner was
\* shown, and what is confirmed is added once, in time, and not after the last
\* wrong code.
THEOREM NothingIsSubstituted == Spec => NoSubstitution
<1> DEFINE I == part = "tentative" => TentativeInv
           Good == part = "tentative" =>
                      Tentative!NoSubstitutionStep /\ Tentative!AddedWithinWindowStep
<1>1. I /\ [Next]_vars => [Good]_vars
  <2> SUFFICES ASSUME I, Next, part = "tentative" PROVE Good
    OBVIOUS
  <2> QED BY TentativeStep DEF Next, StepIsGood
<1> QED BY <1>1, TentativeAlways, PTL DEF Spec, NoSubstitution

-----------------------------------------------------------------------------
(***************************************************************************)
(* Registration flows: the invariant.                                      *)
(***************************************************************************)

FlowRecord == [step : {"captcha", "finish"}, created : Nat]
QueueEntry == [principal : Users, expiration : Nat]
CallRecord == [kind : {"start", "retry"}, principal : Users, created : Nat]

FlowTyped ==
    /\ now \in Nat
    /\ DOMAIN flows \subseteq Users /\ IsFiniteSet(DOMAIN flows)
    /\ \A p \in DOMAIN flows : flows[p] \in FlowRecord
    /\ DOMAIN pending \subseteq FlowCalls /\ IsFiniteSet(DOMAIN pending)
    /\ \A c \in DOMAIN pending : pending[c] \in CallRecord
    /\ bucket \in [tokens : 0..MaxTokens, stamp : 0..now] \cup {Flow!NoBucket}
    /\ admitted \in [Users -> Nat]
    /\ cleared \in [Users -> Nat]
    /\ registered \in [Users -> Nat]

\* Every flow of a map has an entry in a queue.
Queued(fs, queue) ==
    \A p \in DOMAIN fs : \E j \in 1..Len(queue) : queue[j].principal = p

QueueInv ==
    /\ expirations \in Seq(QueueEntry)
    /\ Queued(flows, expirations)

\* What the rate limit let in since time t and may still become or be a flow:
\* the principals that have a flow of that time, or that a call awaiting a new
\* captcha could give it back to, and the calls that have yet to create theirs.
Recent(fs, calls, t) ==
    {p \in DOMAIN fs : fs[p].created >= t}
      \cup {calls[c].principal :
               c \in {d \in DOMAIN calls : calls[d].kind = "retry" /\ calls[d].created >= t}}

StartsSince(calls, t) ==
    {c \in DOMAIN calls : calls[c].kind = "start" /\ calls[c].created >= t}

Claims(fs, calls, t) ==
    ({"flow"} \X Recent(fs, calls, t)) \cup ({"start"} \X StartsSince(calls, t))

\* Claims and tokens are bounded by the tokens of a full bucket and those that
\* were added since, one for each TimePerToken.
WithinRate(n, b, t) ==
    n > 0 => /\ b # Flow!NoBucket
             /\ TimePerToken * (n + b.tokens - MaxTokens)
                    <= b.stamp - t + TimePerToken - 1

RateInv ==
    \A t \in Int : WithinRate(Cardinality(Claims(flows, pending, t)), bucket, t)

\* The flows, and those ready to finish, that a principal has: one or none.
Has(fs, p) == IF p \in DOMAIN fs THEN 1 ELSE 0
HasFinish(fs, p) == IF p \in DOMAIN fs /\ fs[p].step = "finish" THEN 1 ELSE 0

StartsOf(calls, p) ==
    {c \in DOMAIN calls : calls[c].kind = "start" /\ calls[c].principal = p}

PaidInv ==
    \A p \in Users :
        /\ registered[p] + Has(flows, p) + Cardinality(StartsOf(pending, p)) <= admitted[p]
        /\ registered[p] + HasFinish(flows, p) <= cleared[p]

FlowInv == FlowTyped /\ QueueInv /\ RateInv /\ PaidInv /\ Flow!TK!TypeOK

-----------------------------------------------------------------------------
(***************************************************************************)
(* The rate limit.                                                         *)
(***************************************************************************)

\* The assumption on the constants, in its parts.
LEMMA FlowConstants ==
    /\ FlowExpiration \in Nat /\ FlowExpiration > 0
    /\ MaxTokens \in Nat
    /\ TimePerToken \in Nat /\ TimePerToken > 0
    /\ KeyExpiration \in Nat /\ MaxToPrune \in Nat /\ MaxIdentities \in Nat
BY MCRegistrationAssumption DEF Flow!RegistrationFlowAssumption

\* The quotient of two natural numbers.
LEMMA Quotient ==
    ASSUME NEW a \in Nat, NEW b \in Nat, b > 0
    PROVE  /\ a \div b \in Nat
           /\ (a \div b) * b <= a
           /\ a < (a \div b) * b + b
OBVIOUS

\* The instance's least and greatest elements and cardinality are the library's.
LEMMA FlowLibrary ==
    ASSUME NEW S
    PROVE  /\ Flow!Min(S) = Min(S) /\ Flow!Max(S) = Max(S)
           /\ Flow!Cardinality(S) = Cardinality(S)
<1>1. Flow!Min(S) = Min(S)
  BY DEF Flow!Min, Min
<1>2. Flow!Max(S) = Max(S)
  BY DEF Flow!Max, Max
<1>3. Flow!Cardinality(S) = Cardinality(S)
  BY DEF Flow!Cardinality, Cardinality
<1> QED BY <1>1, <1>2, <1>3

\* What add_tokens gives: never more than a full bucket, and its time stamp
\* advances by TimePerToken for every token.
LEMMA RefillFact ==
    ASSUME FlowTyped
    PROVE  /\ Flow!Refilled \in [tokens : 0..MaxTokens, stamp : 0..now]
           /\ now - Flow!Refilled.stamp < TimePerToken
           /\ bucket # Flow!NoBucket =>
                 TimePerToken * (Flow!Refilled.tokens - bucket.tokens)
                    <= Flow!Refilled.stamp - bucket.stamp
<1> DEFINE R == Flow!Refilled
           new == (now - bucket.stamp) \div TimePerToken
<1>1. CASE bucket = Flow!NoBucket
  <2>1. R = [tokens |-> MaxTokens, stamp |-> now]
    BY <1>1 DEF Flow!Refilled
  <2> QED BY <1>1, <2>1, FlowConstants DEF FlowTyped
<1>2. CASE bucket # Flow!NoBucket
  <2>1. /\ bucket.tokens \in 0..MaxTokens /\ bucket.stamp \in 0..now
        /\ now \in Nat /\ now - bucket.stamp \in Nat
    BY <1>2 DEF FlowTyped
  <2>2. /\ new \in Nat
        /\ new * TimePerToken <= now - bucket.stamp
        /\ now - bucket.stamp < new * TimePerToken + TimePerToken
    BY <2>1, Quotient, FlowConstants
  <2> DEFINE S == {MaxTokens, bucket.tokens + new}
  <2>3. R = [tokens |-> Min(S), stamp |-> bucket.stamp + new * TimePerToken]
    BY <1>2, FlowLibrary DEF Flow!Refilled
  <2> HIDE DEF new
  <2>4. S \in SUBSET Nat /\ S # {}
    BY <2>1, <2>2, FlowConstants
  <2>5. Min(S) \in S /\ Min(S) <= MaxTokens /\ Min(S) <= bucket.tokens + new
    BY <2>4, MinNat
  <2> DEFINE m == Min(S)
             k == new * TimePerToken
  <2>6. m \in 0..MaxTokens /\ m - bucket.tokens <= new
    BY <2>1, <2>2, <2>5, FlowConstants
  <2> HIDE DEF m, S
  <2>7. k \in Nat /\ k = TimePerToken * new
    BY <2>2, FlowConstants
  <2>8. TimePerToken * (m - bucket.tokens) <= k
    <3>1. \A i, j \in Int : i <= j => TimePerToken * i <= TimePerToken * j
      BY FlowConstants
    <3>2. m - bucket.tokens \in Int /\ new \in Int
      BY <2>1, <2>2, <2>6, FlowConstants
    <3> HIDE DEF k
    <3> QED BY <3>1, <3>2, <2>6, <2>7
  <2>9. k <= now - bucket.stamp /\ now - bucket.stamp < k + TimePerToken
    BY <2>2
  <2>10. R = [tokens |-> m, stamp |-> bucket.stamp + k]
    BY <2>3 DEF m
  <2> HIDE DEF k, R
  <2>11. R.tokens = m /\ R.stamp = bucket.stamp + k
    BY <2>10
  <2>12. bucket.stamp + k \in 0..now /\ now - (bucket.stamp + k) < TimePerToken
         /\ (bucket.stamp + k) - bucket.stamp = k
    BY <2>1, <2>7, <2>9, FlowConstants
  <2>13. R \in [tokens : 0..MaxTokens, stamp : 0..now]
    BY <2>6, <2>10, <2>12
  <2> QED BY <2>8, <2>11, <2>12, <2>13 DEF R
<1> QED BY <1>1, <1>2

\* A step that makes no new claim: the bucket may be refilled, or a token lost.
LEMMA RateKept ==
    ASSUME FlowTyped, NEW t \in Int, NEW n \in Nat, NEW m \in Nat,
           WithinRate(n, bucket, t), m <= n,
           bucket' = bucket \/ bucket' = Flow!Refilled \/ Flow!TakeToken
    PROVE  WithinRate(m, bucket', t)
<1> SUFFICES ASSUME m > 0
             PROVE  /\ bucket' # Flow!NoBucket
                    /\ TimePerToken * (m + bucket'.tokens - MaxTokens)
                           <= bucket'.stamp - t + TimePerToken - 1
  BY DEF WithinRate
<1>1. /\ bucket # Flow!NoBucket
      /\ TimePerToken * (n + bucket.tokens - MaxTokens) <= bucket.stamp - t + TimePerToken - 1
  BY DEF WithinRate
<1>2. bucket.tokens \in Nat /\ bucket.stamp \in Nat
  BY <1>1, FlowConstants DEF FlowTyped
<1>3. /\ Flow!Refilled \in [tokens : 0..MaxTokens, stamp : 0..now]
      /\ TimePerToken * (Flow!Refilled.tokens - bucket.tokens)
             <= Flow!Refilled.stamp - bucket.stamp
  BY <1>1, RefillFact
<1>4. \E x \in Nat, y \in Nat :
         /\ bucket' = [tokens |-> x, stamp |-> y]
         /\ TimePerToken * (x - bucket.tokens) <= y - bucket.stamp
  <2>1. CASE bucket' = bucket
    <3>1. bucket = [tokens |-> bucket.tokens, stamp |-> bucket.stamp]
      BY <1>1 DEF FlowTyped
    <3> QED BY <2>1, <3>1, <1>2, FlowConstants
  <2>2. CASE bucket' = Flow!Refilled
    BY <2>2, <1>3, FlowConstants
  <2>3. CASE Flow!TakeToken
    <3> DEFINE x == Flow!Refilled.tokens - 1
               y == Flow!Refilled.stamp
    <3>1. x \in Nat /\ y \in Nat /\ bucket' = [tokens |-> x, stamp |-> y]
      BY <2>3, <1>3, FlowConstants DEF Flow!TakeToken
    <3>2. x - bucket.tokens <= Flow!Refilled.tokens - bucket.tokens
      BY <1>2, <1>3, FlowConstants
    <3>3. TimePerToken * (x - bucket.tokens)
             <= TimePerToken * (Flow!Refilled.tokens - bucket.tokens)
      <4>1. \A i, j \in Int : i <= j => TimePerToken * i <= TimePerToken * j
        BY FlowConstants
      <4>2. x - bucket.tokens \in Int /\ Flow!Refilled.tokens - bucket.tokens \in Int
        BY <3>1, <1>2, <1>3, FlowConstants
      <4> HIDE DEF x
      <4> QED BY <4>1, <4>2, <3>2
    <3>4. TimePerToken * (x - bucket.tokens) <= y - bucket.stamp
      <4>1. /\ TimePerToken * (x - bucket.tokens) \in Int
            /\ TimePerToken * (Flow!Refilled.tokens - bucket.tokens) \in Int
        BY <3>1, <1>2, <1>3, FlowConstants
      <4> HIDE DEF x
      <4> QED BY <4>1, <3>1, <3>3, <1>2, <1>3
    <3> QED BY <3>1, <3>4
  <2> QED BY <2>1, <2>2, <2>3
<1>5. PICK x \in Nat, y \in Nat :
         /\ bucket' = [tokens |-> x, stamp |-> y]
         /\ TimePerToken * (x - bucket.tokens) <= y - bucket.stamp
  BY <1>4
<1>6. TimePerToken * (m + x - MaxTokens) <= y - t + TimePerToken - 1
  <2> DEFINE T == TimePerToken
             a == n + bucket.tokens - MaxTokens
             b == x - bucket.tokens
             e == n - m
  <2>1. a \in Int /\ b \in Int /\ e \in Nat /\ T \in Nat
    BY <1>2, FlowConstants
  <2>2. m + x - MaxTokens = a + b - e
    BY <1>2, FlowConstants
  <2>3. T * (a + b - e) = T * a + T * b - T * e /\ T * e >= 0
        /\ T * a \in Int /\ T * b \in Int /\ T * e \in Int
    BY <2>1
  <2>4. T * a <= bucket.stamp - t + T - 1 /\ T * b <= y - bucket.stamp
    BY <1>1, <1>5
  <2> HIDE DEF a, b, e
  <2> QED BY <2>1, <2>2, <2>3, <2>4, <1>2, FlowConstants
<1> QED
  <2>1. bucket'.tokens = x /\ bucket'.stamp = y /\ bucket' # Flow!NoBucket
    BY <1>5 DEF Flow!NoBucket
  <2> QED BY <2>1, <1>6

\* A step that makes a claim takes a token for it.
LEMMA RateTaken ==
    ASSUME FlowTyped, NEW t \in Int, NEW n \in Nat, NEW m \in Nat,
           WithinRate(n, bucket, t), m <= n + 1, t <= now, Flow!TakeToken
    PROVE  WithinRate(m, bucket', t)
<1> SUFFICES ASSUME m > 0
             PROVE  /\ bucket' # Flow!NoBucket
                    /\ TimePerToken * (m + bucket'.tokens - MaxTokens)
                           <= bucket'.stamp - t + TimePerToken - 1
  BY DEF WithinRate
<1> DEFINE x == Flow!Refilled.tokens
           y == Flow!Refilled.stamp
           T == TimePerToken
<1>1. /\ x \in 0..MaxTokens /\ y \in 0..now /\ now - y < T /\ now \in Nat
      /\ bucket' = [tokens |-> x - 1, stamp |-> y] /\ x > 0
  BY RefillFact DEF Flow!TakeToken, FlowTyped
<1>2. bucket' # Flow!NoBucket /\ bucket'.tokens = x - 1 /\ bucket'.stamp = y
  <2> HIDE DEF x, y
  <2> QED BY <1>1, FlowConstants DEF Flow!NoBucket
<1>3. CASE n > 0
  <2>1. /\ bucket # Flow!NoBucket
        /\ T * (n + bucket.tokens - MaxTokens) <= bucket.stamp - t + T - 1
        /\ T * (x - bucket.tokens) <= y - bucket.stamp
    BY <1>3, RefillFact DEF WithinRate
  <2>2. bucket.tokens \in Nat /\ bucket.stamp \in Nat
    BY <2>1, FlowConstants DEF FlowTyped
  <2> DEFINE a == n + bucket.tokens - MaxTokens
             b == x - bucket.tokens
             e == n + 1 - m
  <2>3. a \in Int /\ b \in Int /\ e \in Nat /\ T \in Nat
    BY <2>2, <1>1, FlowConstants
  <2>4. m + (x - 1) - MaxTokens = a + b - e
    BY <1>1, <2>2, FlowConstants
  <2>5. T * (a + b - e) = T * a + T * b - T * e /\ T * e >= 0
        /\ T * a \in Int /\ T * b \in Int /\ T * e \in Int
    BY <2>3
  <2>6. T * a <= bucket.stamp - t + T - 1 /\ T * b <= y - bucket.stamp
    BY <2>1
  <2> HIDE DEF a, b, e
  <2> QED BY <1>1, <1>2, <2>2, <2>3, <2>4, <2>5, <2>6, FlowConstants
<1>4. CASE n = 0
  <2>1. m = 1
    BY <1>4
  <2>2. x - MaxTokens \in Int /\ x - MaxTokens <= 0 /\ T \in Nat
    BY <1>1, FlowConstants
  <2>3. T * (x - MaxTokens) <= 0
    <3>1. \A i \in Int : i <= 0 => T * i <= 0
      BY FlowConstants
    <3> QED BY <3>1, <2>2
  <2>4. m + (x - 1) - MaxTokens = x - MaxTokens
    BY <2>1, <1>1, FlowConstants
  <2> HIDE DEF x, y
  <2> QED BY <1>1, <1>2, <2>2, <2>3, <2>4, FlowConstants
<1> QED BY <1>3, <1>4

-----------------------------------------------------------------------------
(***************************************************************************)
(* Claims on the rate limit.                                               *)
(***************************************************************************)

\* A finite set with one more element.
LEMMA AddOne ==
    ASSUME NEW A, IsFiniteSet(A), NEW x
    PROVE  /\ IsFiniteSet(A \cup {x})
           /\ Cardinality(A) \in Nat /\ Cardinality(A \cup {x}) \in Nat
           /\ Cardinality(A \cup {x}) <= Cardinality(A) + 1
<1>1. /\ IsFiniteSet(A \cup {x})
      /\ Cardinality(A \cup {x}) = IF x \in A THEN Cardinality(A) ELSE Cardinality(A) + 1
  BY FS_AddElement
<1>2. Cardinality(A) \in Nat /\ Cardinality(A \cup {x}) \in Nat
  BY <1>1, FS_CardinalityType
<1> QED BY <1>1, <1>2

\* The claims on finitely many flows and calls are finite.
LEMMA ClaimsAreFinite ==
    ASSUME NEW fs, NEW calls, IsFiniteSet(DOMAIN fs), IsFiniteSet(DOMAIN calls), NEW t \in Int
    PROVE  /\ IsFiniteSet(Claims(fs, calls, t))
           /\ Cardinality(Claims(fs, calls, t)) \in Nat
<1> DEFINE retries == {d \in DOMAIN calls : calls[d].kind = "retry" /\ calls[d].created >= t}
           starts == {c \in DOMAIN calls : calls[c].kind = "start" /\ calls[c].created >= t}
           recent == {p \in DOMAIN fs : fs[p].created >= t}
           revived == {calls[c].principal : c \in retries}
<1>1. IsFiniteSet(retries) /\ IsFiniteSet(starts) /\ IsFiniteSet(recent)
  <2>1. retries \in SUBSET DOMAIN calls /\ starts \in SUBSET DOMAIN calls
        /\ recent \in SUBSET DOMAIN fs
    OBVIOUS
  <2> QED BY <2>1, FS_Subset
<1>2. IsFiniteSet(revived)
  <2> DEFINE f == [c \in retries |-> calls[c].principal]
  <2>1. f \in Surjection(retries, revived)
    BY DEF Surjection
  <2> QED BY <1>1, <2>1, FS_Surjection
<1>3. IsFiniteSet({"flow"}) /\ IsFiniteSet({"start"})
  BY FS_Singleton
<1>4. IsFiniteSet(recent \cup revived)
  BY <1>1, <1>2, FS_Union
<1>5. /\ IsFiniteSet({"flow"} \X (recent \cup revived))
      /\ IsFiniteSet({"start"} \X starts)
  BY <1>1, <1>3, <1>4, FS_Product
<1>6. IsFiniteSet(({"flow"} \X (recent \cup revived)) \cup ({"start"} \X starts))
  BY <1>5, FS_Union
<1> QED BY <1>6, FS_CardinalityType DEF Claims, Recent, StartsSince

\* One map of flows has none that another has not, or one.
NoNewFlows(fs, old) ==
    /\ DOMAIN fs \subseteq DOMAIN old
    /\ \A p \in DOMAIN fs : fs[p] = old[p]

OneNewFlow(fs, old, p, flow) ==
    /\ DOMAIN fs \subseteq DOMAIN old \cup {p}
    /\ \A q \in DOMAIN fs : \/ q \in DOMAIN old /\ fs[q] = old[q]
                            \/ q = p /\ fs[q] = flow

\* A step that has no other recent flows and starts makes no claim.
LEMMA ClaimsShrink ==
    ASSUME NEW fs, NEW old, NEW calls, NEW before, NEW t \in Int,
           IsFiniteSet(DOMAIN old), IsFiniteSet(DOMAIN before),
           Recent(fs, calls, t) \subseteq Recent(old, before, t),
           StartsSince(calls, t) \subseteq StartsSince(before, t)
    PROVE  /\ Cardinality(Claims(fs, calls, t)) \in Nat
           /\ Cardinality(Claims(old, before, t)) \in Nat
           /\ Cardinality(Claims(fs, calls, t)) <= Cardinality(Claims(old, before, t))
<1>1. Claims(fs, calls, t) \subseteq Claims(old, before, t)
  BY DEF Claims
<1> QED BY <1>1, ClaimsAreFinite, FS_Subset, FS_CardinalityType

\* A claim that a step makes is one more.
LEMMA ClaimsGrow ==
    ASSUME NEW fs, NEW old, NEW calls, NEW before, NEW t \in Int, NEW x,
           IsFiniteSet(DOMAIN old), IsFiniteSet(DOMAIN before),
           \/ /\ Recent(fs, calls, t) \subseteq Recent(old, before, t) \cup {x}
              /\ StartsSince(calls, t) \subseteq StartsSince(before, t)
           \/ /\ Recent(fs, calls, t) \subseteq Recent(old, before, t)
              /\ StartsSince(calls, t) \subseteq StartsSince(before, t) \cup {x}
    PROVE  /\ Cardinality(Claims(fs, calls, t)) \in Nat
           /\ Cardinality(Claims(old, before, t)) \in Nat
           /\ Cardinality(Claims(fs, calls, t)) <= Cardinality(Claims(old, before, t)) + 1
<1> DEFINE A == Claims(old, before, t)
           B == Claims(fs, calls, t)
<1>1. IsFiniteSet(A) /\ Cardinality(A) \in Nat
  BY ClaimsAreFinite
<1>2. \E y : B \subseteq A \cup {y}
  <2>1. B \subseteq A \cup {<<"flow", x>>} \/ B \subseteq A \cup {<<"start", x>>}
    BY DEF Claims
  <2> QED BY <2>1
<1>3. PICK y : B \subseteq A \cup {y}
  BY <1>2
<1> HIDE DEF A, B
<1>4. /\ IsFiniteSet(A \cup {y}) /\ Cardinality(A \cup {y}) \in Nat
      /\ Cardinality(A \cup {y}) <= Cardinality(A) + 1
  BY <1>1, AddOne
<1>5. Cardinality(B) <= Cardinality(A \cup {y}) /\ Cardinality(B) \in Nat
  BY <1>3, <1>4, FS_Subset, FS_CardinalityType
<1> QED BY <1>1, <1>4, <1>5 DEF A, B

\* A call's claim that becomes a flow's is one, not two.
Moves(fs, old, calls, before, t) ==
    \E x : \E c \in StartsSince(before, t) :
        /\ Recent(fs, calls, t) \subseteq Recent(old, before, t) \cup {x}
        /\ StartsSince(calls, t) \subseteq StartsSince(before, t) \ {c}

LEMMA ClaimsMove ==
    ASSUME NEW fs, NEW old, NEW calls, NEW before, NEW t \in Int,
           IsFiniteSet(DOMAIN old), IsFiniteSet(DOMAIN before),
           Moves(fs, old, calls, before, t)
    PROVE  /\ Cardinality(Claims(fs, calls, t)) \in Nat
           /\ Cardinality(Claims(old, before, t)) \in Nat
           /\ Cardinality(Claims(fs, calls, t)) <= Cardinality(Claims(old, before, t))
<1>0. PICK x : \E c \in StartsSince(before, t) :
         /\ Recent(fs, calls, t) \subseteq Recent(old, before, t) \cup {x}
         /\ StartsSince(calls, t) \subseteq StartsSince(before, t) \ {c}
  BY DEF Moves
<1>c. PICK c \in StartsSince(before, t) :
         /\ Recent(fs, calls, t) \subseteq Recent(old, before, t) \cup {x}
         /\ StartsSince(calls, t) \subseteq StartsSince(before, t) \ {c}
  BY <1>0
<1> DEFINE A == Claims(old, before, t)
           B == Claims(fs, calls, t)
           y == <<"start", c>>
           z == <<"flow", x>>
<1>1. IsFiniteSet(A) /\ Cardinality(A) \in Nat
  BY ClaimsAreFinite
<1>2. y \in A
  BY DEF Claims
<1>3. B \subseteq (A \ {y}) \cup {z}
  BY <1>c DEF Claims
<1> HIDE DEF A, B, y, z
<1>4. IsFiniteSet(A \ {y}) /\ Cardinality(A \ {y}) = Cardinality(A) - 1
  BY <1>1, <1>2, FS_RemoveElement
<1>5. /\ IsFiniteSet((A \ {y}) \cup {z})
      /\ Cardinality((A \ {y}) \cup {z}) \in Nat
      /\ Cardinality((A \ {y}) \cup {z}) <= Cardinality(A \ {y}) + 1
  BY <1>4, AddOne
<1>6. Cardinality(B) <= Cardinality((A \ {y}) \cup {z}) /\ Cardinality(B) \in Nat
  BY <1>3, <1>5, FS_Subset, FS_CardinalityType
<1> QED BY <1>1, <1>4, <1>5, <1>6 DEF A, B

-----------------------------------------------------------------------------
(***************************************************************************)
(* Pruning the flows and the queue of their expirations.                   *)
(***************************************************************************)

\* How many entries leave the queue.
LEMMA FlowPruneCount ==
    ASSUME FlowTyped, QueueInv
    PROVE  Flow!PruneCount \in 0..Len(expirations)
<1> DEFINE m == Min({MaxToPrune, Len(expirations)})
           S == {n \in 0..m : \A j \in 1..n : expirations[j].expiration <= now}
<1>1. Len(expirations) \in Nat
  BY LenProperties DEF QueueInv
<1>2. m \in Nat /\ m <= Len(expirations)
  <2>1. {MaxToPrune, Len(expirations)} \in SUBSET Nat
    BY <1>1, FlowConstants
  <2> QED BY <2>1, <1>1, MinNat
<1>3. Flow!PruneCount = Max(S)
  BY FlowLibrary DEF Flow!PruneCount
<1> HIDE DEF m
<1>4. S \in SUBSET (0..m) /\ S # {}
  <2>1. 0 \in S
    BY <1>2
  <2> QED BY <2>1
<1> HIDE DEF S
<1>5. Max(S) \in S
  <2>1. m \in Int
    BY <1>2
  <2> QED BY <1>4, <2>1, MaxNat
<1>6. Max(S) \in 0..m
  BY <1>4, <1>5
<1> HIDE DEF S, m
<1> QED BY <1>1, <1>2, <1>3, <1>6

\* What leaves the queue takes its flow along, so that the rest is queued.
LEMMA FlowPruneFact ==
    ASSUME FlowTyped, QueueInv
    PROVE  /\ NoNewFlows(Flow!FlowsAfterPrune, flows)
           /\ Flow!QueueAfterPrune \in Seq(QueueEntry)
           /\ Queued(Flow!FlowsAfterPrune, Flow!QueueAfterPrune)
<1> DEFINE n == Flow!PruneCount
           len == Len(expirations)
           Q == Flow!QueueAfterPrune
           F == Flow!FlowsAfterPrune
<1>1. n \in 0..len /\ len \in Nat /\ expirations \in Seq(QueueEntry)
  BY FlowPruneCount, LenProperties DEF QueueInv
<1>2. /\ DOMAIN F = DOMAIN flows \ {expirations[j].principal : j \in 1..n}
      /\ \A p \in DOMAIN F : F[p] = flows[p]
  BY DEF Flow!FlowsAfterPrune, Flow!Restrict
<1>3. Q = SubSeq(expirations, n + 1, len)
  BY DEF Flow!QueueAfterPrune
<1> HIDE DEF n, Q, F
<1>4. \A i \in (n + 1)..len : expirations[i] \in QueueEntry
  BY <1>1, ElementOfSeq
<1>5. /\ Q \in Seq(QueueEntry)
      /\ Len(Q) = IF n + 1 <= len THEN len - (n + 1) + 1 ELSE 0
      /\ \A i \in 1..(len - n) : Q[i] = expirations[n + i]
  BY <1>1, <1>3, <1>4, SubSeqProperties
<1>6. Queued(F, Q)
  <2> SUFFICES ASSUME NEW p \in DOMAIN F
               PROVE  \E j \in 1..Len(Q) : Q[j].principal = p
    BY DEF Queued
  <2>1. PICK j \in 1..len : expirations[j].principal = p
    BY <1>2 DEF QueueInv, Queued
  <2>2. j > n
    BY <1>1, <1>2, <2>1
  <2>3. j - n \in 1..Len(Q) /\ Q[j - n] = expirations[j]
    BY <1>1, <1>5, <2>1, <2>2
  <2> QED BY <2>1, <2>3
<1>7. NoNewFlows(F, flows)
  BY <1>2 DEF NoNewFlows
<1> QED BY <1>5, <1>6, <1>7 DEF Q, F

\* new_registration_flow: at most the new flow is new, and it is queued.
LEMMA NewFlowFact ==
    ASSUME FlowTyped, QueueInv, NEW p \in Users, NEW flow \in FlowRecord,
           Flow!NewRegistrationFlow(p, flow)
    PROVE  /\ OneNewFlow(flows', flows, p, flow)
           /\ QueueInv'
<1> DEFINE Q == Flow!QueueAfterPrune
           F == Flow!FlowsAfterPrune
           entry == [principal |-> p, expiration |-> flow.created + FlowExpiration]
<1>1. NoNewFlows(F, flows) /\ Q \in Seq(QueueEntry) /\ Queued(F, Q)
  BY FlowPruneFact
<1>2. \/ flows' = F /\ expirations' = Q
      \/ /\ flows' = Flow!Put(F, p, flow)
         /\ expirations' = Append(Q, entry)
  BY DEF Flow!NewRegistrationFlow
<1>3. entry \in QueueEntry /\ entry.principal = p
  BY FlowConstants DEF FlowRecord, QueueEntry
<1> HIDE DEF F, Q, entry
<1>4. CASE flows' = F /\ expirations' = Q
  BY <1>1, <1>4 DEF OneNewFlow, NoNewFlows, QueueInv
<1>5. CASE flows' = Flow!Put(F, p, flow) /\ expirations' = Append(Q, entry)
  <2>1. /\ DOMAIN flows' = DOMAIN F \cup {p}
        /\ \A q \in DOMAIN flows' : flows'[q] = IF q = p THEN flow ELSE F[q]
    BY <1>5 DEF Flow!Put
  <2>2. OneNewFlow(flows', flows, p, flow)
    BY <1>1, <2>1 DEF OneNewFlow, NoNewFlows
  <2>3. /\ expirations' \in Seq(QueueEntry)
        /\ Len(expirations') = Len(Q) + 1
        /\ \A i \in 1..Len(Q) : expirations'[i] = Q[i]
        /\ expirations'[Len(Q) + 1] = entry
        /\ Len(Q) \in Nat
    BY <1>1, <1>3, <1>5, AppendProperties, LenProperties
  <2>4. Queued(flows', expirations')
    <3> SUFFICES ASSUME NEW q \in DOMAIN flows'
                 PROVE  \E j \in 1..Len(expirations') : expirations'[j].principal = q
      BY DEF Queued
    <3>1. CASE q = p
      BY <3>1, <1>3, <2>3
    <3>2. CASE q # p
      <4>1. PICK j \in 1..Len(Q) : Q[j].principal = q
        BY <3>2, <2>1, <1>1 DEF Queued
      <4> QED BY <4>1, <2>3
    <3> QED BY <3>1, <3>2
  <2> QED BY <2>2, <2>3, <2>4 DEF QueueInv
<1> QED BY <1>2, <1>4, <1>5

\* update_registration_flow: at most the flow that was there is another.
LEMMA UpdateFlowFact ==
    ASSUME FlowTyped, QueueInv, NEW p \in Users, NEW flow \in FlowRecord,
           Flow!UpdateRegistrationFlow(p, flow)
    PROVE  /\ OneNewFlow(flows', flows, p, flow)
           /\ DOMAIN flows' \subseteq DOMAIN flows
           /\ QueueInv'
<1> DEFINE Q == Flow!QueueAfterPrune
           F == Flow!FlowsAfterPrune
<1>1. NoNewFlows(F, flows) /\ Q \in Seq(QueueEntry) /\ Queued(F, Q)
  BY FlowPruneFact
<1>2. /\ flows' = IF p \in DOMAIN F THEN Flow!Put(F, p, flow) ELSE F
      /\ expirations' = Q
  BY DEF Flow!UpdateRegistrationFlow
<1> HIDE DEF F, Q
<1>3. DOMAIN flows' = DOMAIN F /\ OneNewFlow(flows', flows, p, flow)
  <2>1. CASE p \notin DOMAIN F
    BY <2>1, <1>1, <1>2 DEF OneNewFlow, NoNewFlows
  <2>2. CASE p \in DOMAIN F
    BY <2>2, <1>1, <1>2 DEF OneNewFlow, NoNewFlows, Flow!Put
  <2> QED BY <2>1, <2>2
<1>4. DOMAIN flows' \subseteq DOMAIN flows
  BY <1>1, <1>3 DEF NoNewFlows
<1>5. QueueInv'
  BY <1>1, <1>2, <1>3 DEF QueueInv, Queued
<1> QED BY <1>3, <1>4, <1>5

\* remove_registration_flow: the entry in the queue may stay.
LEMMA RemoveFlowFact ==
    ASSUME FlowTyped, QueueInv, NEW p \in Users, Flow!RemoveRegistrationFlow(p)
    PROVE  /\ NoNewFlows(flows', flows) /\ p \notin DOMAIN flows'
           /\ QueueInv'
<1>1. /\ NoNewFlows(Flow!FlowsAfterPrune, flows)
      /\ Flow!QueueAfterPrune \in Seq(QueueEntry)
      /\ Queued(Flow!FlowsAfterPrune, Flow!QueueAfterPrune)
  BY FlowPruneFact
<1>2. /\ DOMAIN flows' = DOMAIN Flow!FlowsAfterPrune \ {p}
      /\ \A q \in DOMAIN flows' : flows'[q] = Flow!FlowsAfterPrune[q]
      /\ expirations' = Flow!QueueAfterPrune
  BY DEF Flow!RemoveRegistrationFlow, Flow!Drop, Flow!Restrict
<1> QED BY <1>1, <1>2 DEF NoNewFlows, QueueInv, Queued

-----------------------------------------------------------------------------
(***************************************************************************)
(* What the steps leave typed.                                             *)
(***************************************************************************)

FlowsTyped ==
    /\ DOMAIN flows \subseteq Users /\ IsFiniteSet(DOMAIN flows)
    /\ \A p \in DOMAIN flows : flows[p] \in FlowRecord

CallsTyped ==
    /\ DOMAIN pending \subseteq FlowCalls /\ IsFiniteSet(DOMAIN pending)
    /\ \A c \in DOMAIN pending : pending[c] \in CallRecord

LEMMA TypedFlows ==
    ASSUME FlowTyped, NEW p \in Users, NEW flow \in FlowRecord,
           NoNewFlows(flows', flows) \/ OneNewFlow(flows', flows, p, flow)
    PROVE  FlowsTyped'
<1>1. DOMAIN flows' \subseteq DOMAIN flows \cup {p}
  BY DEF NoNewFlows, OneNewFlow
<1>2. IsFiniteSet(DOMAIN flows \cup {p})
  BY AddOne DEF FlowTyped
<1>3. IsFiniteSet(DOMAIN flows')
  BY <1>1, <1>2, FS_Subset
<1> QED BY <1>1, <1>3 DEF FlowTyped, FlowsTyped, NoNewFlows, OneNewFlow

\* A call that begins to wait, and one that ends.
LEMMA TypedCalls ==
    ASSUME FlowTyped, NEW c \in FlowCalls, NEW r \in CallRecord,
           pending' = Flow!Put(pending, c, r) \/ pending' = Flow!Drop(pending, c)
    PROVE  CallsTyped'
<1>1. DOMAIN pending' \subseteq DOMAIN pending \cup {c}
  BY DEF Flow!Put, Flow!Drop, Flow!Restrict
<1>2. IsFiniteSet(DOMAIN pending \cup {c})
  BY AddOne DEF FlowTyped
<1>3. IsFiniteSet(DOMAIN pending')
  BY <1>1, <1>2, FS_Subset
<1>4. \A d \in DOMAIN pending' : pending'[d] \in CallRecord
  BY DEF FlowTyped, Flow!Put, Flow!Drop, Flow!Restrict
<1> QED BY <1>1, <1>3, <1>4 DEF FlowTyped, CallsTyped

LEMMA TypedBucket ==
    ASSUME FlowTyped, now' = now,
           bucket' = bucket \/ bucket' = Flow!Refilled \/ Flow!TakeToken
    PROVE  bucket' \in [tokens : 0..MaxTokens, stamp : 0..now'] \cup {Flow!NoBucket}
<1>1. Flow!Refilled \in [tokens : 0..MaxTokens, stamp : 0..now]
  BY RefillFact
<1>2. CASE Flow!TakeToken
  <2> DEFINE R == Flow!Refilled
  <2>1. R.tokens > 0 /\ bucket' = [R EXCEPT !.tokens = @ - 1]
    BY <1>2 DEF Flow!TakeToken
  <2> HIDE DEF R
  <2>2. R \in [tokens : 0..MaxTokens, stamp : 0..now]
    BY <1>1 DEF R
  <2> QED BY <2>1, <2>2, FlowConstants
<1> QED BY <1>1, <1>2 DEF FlowTyped

\* The typed parts together.
LEMMA TypedAgain ==
    ASSUME FlowTyped, FlowsTyped', CallsTyped', now' = now,
           bucket' \in [tokens : 0..MaxTokens, stamp : 0..now'] \cup {Flow!NoBucket},
           admitted' \in [Users -> Nat], cleared' \in [Users -> Nat],
           registered' \in [Users -> Nat]
    PROVE  FlowTyped'
BY DEF FlowTyped, FlowsTyped, CallsTyped

\* The keys are left alone.
LEMMA KeysUntouched ==
    ASSUME Flow!TK!TypeOK, now' \in Nat, UNCHANGED <<devices, tempKeys, keyExpirations>>
    PROVE  Flow!TK!TypeOK'
BY DEF Flow!TK!TypeOK

\* The calls of a principal that have yet to create a flow.
LEMMA StartsFinite ==
    ASSUME FlowTyped, NEW p
    PROVE  /\ IsFiniteSet(StartsOf(pending, p))
           /\ Cardinality(StartsOf(pending, p)) \in Nat
<1>1. StartsOf(pending, p) \in SUBSET DOMAIN pending
  BY DEF StartsOf
<1> QED BY <1>1, FS_Subset, FS_CardinalityType DEF FlowTyped

\* Has and HasFinish count one flow, and a change of flows of one principal.
LEMMA HasFact ==
    ASSUME NEW fs, NEW old, NEW p, NEW flow, NEW q,
           NoNewFlows(fs, old) \/ OneNewFlow(fs, old, p, flow)
    PROVE  /\ Has(old, q) \in {0, 1} /\ HasFinish(old, q) \in {0, 1}
           /\ Has(fs, q) \in {0, 1} /\ HasFinish(fs, q) \in {0, 1}
           /\ q # p \/ NoNewFlows(fs, old) =>
                 /\ Has(fs, q) <= Has(old, q)
                 /\ HasFinish(fs, q) <= HasFinish(old, q)
           /\ flow.step # "finish" => HasFinish(fs, q) <= HasFinish(old, q)
BY DEF Has, HasFinish, NoNewFlows, OneNewFlow

-----------------------------------------------------------------------------
(***************************************************************************)
(* Every call keeps the invariant.                                         *)
(***************************************************************************)

\* The rates after a step without new claims, and after one that takes a token.
LEMMA RateAfterKeep ==
    ASSUME FlowTyped, RateInv,
           bucket' = bucket \/ bucket' = Flow!Refilled \/ Flow!TakeToken,
           \A t \in Int :
              LET n == Cardinality(Claims(flows, pending, t))
                  m == Cardinality(Claims(flows', pending', t))
              IN  n \in Nat /\ m \in Nat /\ m <= n
    PROVE  RateInv'
<1> SUFFICES ASSUME NEW t \in Int
             PROVE  WithinRate(Cardinality(Claims(flows', pending', t)), bucket', t)
  BY DEF RateInv
<1> DEFINE n == Cardinality(Claims(flows, pending, t))
           m == Cardinality(Claims(flows', pending', t))
<1>1. n \in Nat /\ m \in Nat /\ m <= n /\ WithinRate(n, bucket, t)
  BY DEF RateInv
<1> HIDE DEF n, m
<1>2. WithinRate(m, bucket', t)
  BY <1>1, RateKept
<1> QED BY <1>2 DEF m

LEMMA RateAfterTake ==
    ASSUME FlowTyped, RateInv, Flow!TakeToken, NEW x,
           \A t \in Int :
              \/ /\ Recent(flows', pending', t) \subseteq Recent(flows, pending, t) \cup {x}
                 /\ StartsSince(pending', t) \subseteq StartsSince(pending, t)
              \/ /\ Recent(flows', pending', t) \subseteq Recent(flows, pending, t)
                 /\ StartsSince(pending', t) \subseteq StartsSince(pending, t) \cup {x},
           \A t \in Int : t > now =>
              /\ Recent(flows', pending', t) \subseteq Recent(flows, pending, t)
              /\ StartsSince(pending', t) \subseteq StartsSince(pending, t)
    PROVE  RateInv'
<1> SUFFICES ASSUME NEW t \in Int
             PROVE  WithinRate(Cardinality(Claims(flows', pending', t)), bucket', t)
  BY DEF RateInv
<1> DEFINE n == Cardinality(Claims(flows, pending, t))
           m == Cardinality(Claims(flows', pending', t))
<1>1. WithinRate(n, bucket, t)
  BY DEF RateInv
<1>2. IsFiniteSet(DOMAIN flows) /\ IsFiniteSet(DOMAIN pending) /\ now \in Nat
  BY DEF FlowTyped
<1>3. CASE t > now
  <2>1. n \in Nat /\ m \in Nat /\ m <= n
    BY <1>2, <1>3, ClaimsShrink
  <2> HIDE DEF n, m
  <2>2. WithinRate(m, bucket', t)
    BY <1>1, <2>1, RateKept
  <2> QED BY <2>2 DEF m
<1>4. CASE t <= now
  <2>1. n \in Nat /\ m \in Nat /\ m <= n + 1
    BY <1>2, ClaimsGrow
  <2> HIDE DEF n, m
  <2>2. WithinRate(m, bucket', t)
    BY <1>1, <1>4, <2>1, RateTaken
  <2> QED BY <2>2 DEF m
<1> QED BY <1>2, <1>3, <1>4

\* identity_registration_start is refused.
LEMMA StartRefusedKeeps ==
    ASSUME FlowInv, Flow!StartRefused
    PROVE  FlowInv'
<1>1. /\ UNCHANGED <<flows, expirations, pending, now, devices, tempKeys, keyExpirations,
                     admitted, cleared, registered>>
      /\ bucket' = Flow!Refilled \/ Flow!TakeToken
  BY DEF Flow!StartRefused, Flow!flowVars, Flow!keyVars, Flow!history
<1>2. FlowTyped'
  <2>1. FlowsTyped' /\ CallsTyped'
    BY <1>1 DEF FlowInv, FlowTyped, FlowsTyped, CallsTyped
  <2>2. FlowTyped
    BY DEF FlowInv
  <2>3. bucket' \in [tokens : 0..MaxTokens, stamp : 0..now'] \cup {Flow!NoBucket}
    BY <1>1, <2>2, TypedBucket
  <2> QED BY <1>1, <2>1, <2>3 DEF FlowInv, FlowTyped, FlowsTyped, CallsTyped
<1>3. QueueInv' /\ PaidInv'
  BY <1>1 DEF FlowInv, QueueInv, Queued, PaidInv, Has, HasFinish, StartsOf
<1>4. RateInv'
  <2>1. \A t \in Int : Cardinality(Claims(flows, pending, t)) \in Nat
    BY ClaimsAreFinite DEF FlowInv, FlowTyped
  <2>2. flows' = flows /\ pending' = pending
    BY <1>1
  <2> QED BY <1>1, <2>1, <2>2, RateAfterKeep DEF FlowInv
<1>5. Flow!TK!TypeOK'
  BY <1>1, KeysUntouched DEF FlowInv, FlowTyped
<1> QED BY <1>2, <1>3, <1>4, <1>5 DEF FlowInv

\* identity_registration_start, no captcha required.
LEMMA StartWithoutCaptchaKeeps ==
    ASSUME FlowInv, NEW p \in Users, Flow!StartWithoutCaptcha(p)
    PROVE  FlowInv'
<1> DEFINE flow == [step |-> "finish", created |-> now]
<1>1. FlowTyped /\ QueueInv /\ now \in Nat
  BY DEF FlowInv, FlowTyped
<1>2. /\ Flow!TakeToken
      /\ Flow!NewRegistrationFlow(p, flow)
      /\ admitted' = [admitted EXCEPT ![p] = @ + 1]
      /\ cleared' = [cleared EXCEPT ![p] = @ + 1]
      /\ UNCHANGED <<pending, now, devices, tempKeys, keyExpirations, registered>>
  BY DEF Flow!StartWithoutCaptcha, Flow!Count, Flow!keyVars
<1>3. flow \in FlowRecord
  BY <1>1 DEF FlowRecord
<1>4. OneNewFlow(flows', flows, p, flow) /\ QueueInv'
  BY <1>1, <1>2, <1>3, NewFlowFact
<1>5. FlowTyped'
  <2>1. FlowsTyped'
    BY <1>1, <1>3, <1>4, TypedFlows
  <2>2. CallsTyped'
    BY <1>1, <1>2 DEF FlowTyped, CallsTyped
  <2>3. bucket' \in [tokens : 0..MaxTokens, stamp : 0..now'] \cup {Flow!NoBucket}
    BY <1>1, <1>2, TypedBucket
  <2>4. /\ admitted' \in [Users -> Nat] /\ cleared' \in [Users -> Nat]
        /\ registered' \in [Users -> Nat] /\ now' = now
    BY <1>1, <1>2 DEF FlowTyped
  <2> QED BY <1>1, <2>1, <2>2, <2>3, <2>4, TypedAgain
<1>6. RateInv'
  <2> HIDE DEF flow
  <2>1. flow.created = now
    BY DEF flow
  <2>2. \A t \in Int : /\ Recent(flows', pending', t) \subseteq Recent(flows, pending, t) \cup {p}
                      /\ StartsSince(pending', t) \subseteq StartsSince(pending, t)
    BY <1>2, <1>4 DEF Recent, StartsSince, OneNewFlow
  <2>3. \A t \in Int : t > now =>
           /\ Recent(flows', pending', t) \subseteq Recent(flows, pending, t)
           /\ StartsSince(pending', t) \subseteq StartsSince(pending, t)
    BY <1>1, <1>2, <1>4, <2>1 DEF Recent, StartsSince, OneNewFlow
  <2> QED BY <1>1, <1>2, <2>2, <2>3, RateAfterTake DEF FlowInv
<1>7. PaidInv'
  <2> SUFFICES ASSUME NEW q \in Users
      PROVE /\ registered'[q] + Has(flows', q) + Cardinality(StartsOf(pending', q)) <= admitted'[q]
            /\ registered'[q] + HasFinish(flows', q) <= cleared'[q]
    BY DEF PaidInv
  <2>1. /\ registered[q] + Has(flows, q) + Cardinality(StartsOf(pending, q)) <= admitted[q]
        /\ registered[q] + HasFinish(flows, q) <= cleared[q]
    BY DEF FlowInv, PaidInv
  <2>2. /\ Has(flows, q) \in {0, 1} /\ HasFinish(flows, q) \in {0, 1}
        /\ Has(flows', q) \in {0, 1} /\ HasFinish(flows', q) \in {0, 1}
        /\ q # p => /\ Has(flows', q) <= Has(flows, q)
                    /\ HasFinish(flows', q) <= HasFinish(flows, q)
    BY <1>4, HasFact
  <2>3. /\ registered'[q] = registered[q] /\ registered[q] \in Nat
        /\ admitted[q] \in Nat /\ cleared[q] \in Nat
        /\ admitted'[q] = IF q = p THEN admitted[q] + 1 ELSE admitted[q]
        /\ cleared'[q] = IF q = p THEN cleared[q] + 1 ELSE cleared[q]
        /\ pending' = pending
    BY <1>1, <1>2 DEF FlowTyped
  <2>4. Cardinality(StartsOf(pending, q)) \in Nat
    BY <1>1, StartsFinite
  <2> QED BY <2>1, <2>2, <2>3, <2>4
<1>8. Flow!TK!TypeOK'
  BY <1>1, <1>2, KeysUntouched DEF FlowInv
<1> QED BY <1>4, <1>5, <1>6, <1>7, <1>8 DEF FlowInv

\* identity_registration_start up to the await.
LEMMA StartWithCaptchaKeeps ==
    ASSUME FlowInv, NEW p \in Users, NEW c \in FlowCalls, Flow!StartWithCaptcha(p, c)
    PROVE  FlowInv'
<1> DEFINE r == [kind |-> "start", principal |-> p, created |-> now]
<1>1. FlowTyped /\ QueueInv /\ now \in Nat
  BY DEF FlowInv, FlowTyped
<1>2. /\ Flow!TakeToken
      /\ c \notin DOMAIN pending
      /\ pending' = Flow!Put(pending, c, r)
      /\ admitted' = [admitted EXCEPT ![p] = @ + 1]
      /\ UNCHANGED <<flows, expirations, now, devices, tempKeys, keyExpirations,
                     cleared, registered>>
  BY DEF Flow!StartWithCaptcha, Flow!Count, Flow!keyVars, Flow!flowVars
<1>3. r \in CallRecord
  BY <1>1 DEF CallRecord
<1>4. /\ DOMAIN pending' = DOMAIN pending \cup {c}
      /\ pending'[c] = r
      /\ \A d \in DOMAIN pending : pending'[d] = pending[d]
  BY <1>2 DEF Flow!Put
<1>5. r.kind = "start" /\ r.principal = p /\ r.created = now
  OBVIOUS
<1>6. FlowTyped'
  <2>1. FlowsTyped'
    BY <1>1, <1>2 DEF FlowTyped, FlowsTyped
  <2>2. CallsTyped'
    BY <1>1, <1>2, <1>3, TypedCalls
  <2>3. bucket' \in [tokens : 0..MaxTokens, stamp : 0..now'] \cup {Flow!NoBucket}
    BY <1>1, <1>2, TypedBucket
  <2>4. /\ admitted' \in [Users -> Nat] /\ cleared' \in [Users -> Nat]
        /\ registered' \in [Users -> Nat] /\ now' = now
    BY <1>1, <1>2 DEF FlowTyped
  <2> QED BY <1>1, <2>1, <2>2, <2>3, <2>4, TypedAgain
<1> HIDE DEF r
<1>7. RateInv'
  <2>1. \A t \in Int :
           /\ Recent(flows', pending', t) \subseteq Recent(flows, pending, t)
           /\ StartsSince(pending', t) \subseteq StartsSince(pending, t) \cup {c}
    BY <1>2, <1>4, <1>5 DEF Recent, StartsSince
  <2>2. \A t \in Int : t > now =>
           StartsSince(pending', t) \subseteq StartsSince(pending, t)
    BY <1>1, <1>4, <1>5 DEF StartsSince
  <2> QED BY <1>1, <1>2, <2>1, <2>2, RateAfterTake DEF FlowInv
<1>8. PaidInv'
  <2> SUFFICES ASSUME NEW q \in Users
      PROVE /\ registered'[q] + Has(flows', q) + Cardinality(StartsOf(pending', q)) <= admitted'[q]
            /\ registered'[q] + HasFinish(flows', q) <= cleared'[q]
    BY DEF PaidInv
  <2>1. /\ registered[q] + Has(flows, q) + Cardinality(StartsOf(pending, q)) <= admitted[q]
        /\ registered[q] + HasFinish(flows, q) <= cleared[q]
    BY DEF FlowInv, PaidInv
  <2>2. /\ registered'[q] = registered[q] /\ registered[q] \in Nat
        /\ admitted[q] \in Nat /\ cleared'[q] = cleared[q] /\ flows' = flows
        /\ admitted'[q] = IF q = p THEN admitted[q] + 1 ELSE admitted[q]
    BY <1>1, <1>2 DEF FlowTyped
  <2>3. /\ IsFiniteSet(StartsOf(pending, q))
        /\ Cardinality(StartsOf(pending, q)) \in Nat
    BY <1>1, StartsFinite
  <2>4. StartsOf(pending', q) = IF q = p THEN StartsOf(pending, q) \cup {c}
                                         ELSE StartsOf(pending, q)
    BY <1>2, <1>4, <1>5 DEF StartsOf
  <2>5. /\ Cardinality(StartsOf(pending', q)) \in Nat
        /\ Cardinality(StartsOf(pending', q)) <=
              IF q = p THEN Cardinality(StartsOf(pending, q)) + 1
                       ELSE Cardinality(StartsOf(pending, q))
    <3>1. CASE q = p
      <4>1. StartsOf(pending', q) = StartsOf(pending, q) \cup {c}
        BY <2>4, <3>1
      <4> QED BY <3>1, <4>1, <2>3, AddOne
    <3>2. CASE q # p
      BY <3>2, <2>3, <2>4
    <3> QED BY <3>1, <3>2
  <2>6. Has(flows, q) \in {0, 1}
    BY DEF Has
  <2> QED BY <2>1, <2>2, <2>3, <2>5, <2>6
<1>9. Flow!TK!TypeOK'
  BY <1>1, <1>2, KeysUntouched DEF FlowInv
<1>10. QueueInv'
  BY <1>1, <1>2 DEF QueueInv, Queued
<1> QED BY <1>6, <1>7, <1>8, <1>9, <1>10 DEF FlowInv

\* The rest of it: the call's token is now the flow's, or lost.
LEMMA CaptchaCreatedKeeps ==
    ASSUME FlowInv, NEW c \in FlowCalls, Flow!CaptchaCreated(c)
    PROVE  FlowInv'
<1> DEFINE p == pending[c].principal
           flow == [step |-> "captcha", created |-> pending[c].created]
<1>1. FlowTyped /\ QueueInv
  BY DEF FlowInv
<1>2. /\ c \in DOMAIN pending /\ pending[c].kind = "start"
      /\ Flow!NewRegistrationFlow(p, flow)
      /\ pending' = Flow!Drop(pending, c)
      /\ UNCHANGED <<bucket, now, devices, tempKeys, keyExpirations,
                     admitted, cleared, registered>>
  BY DEF Flow!CaptchaCreated, Flow!keyVars, Flow!history
<1>3. pending[c] \in CallRecord
  BY <1>1, <1>2 DEF FlowTyped
<1>4. p \in Users /\ flow \in FlowRecord
  BY <1>3 DEF CallRecord, FlowRecord
<1>5. flow.created = pending[c].created /\ flow.step # "finish"
  OBVIOUS
<1> HIDE DEF flow
<1>6. OneNewFlow(flows', flows, p, flow) /\ QueueInv'
  BY <1>1, <1>2, <1>4, NewFlowFact
<1>7. /\ DOMAIN pending' = DOMAIN pending \ {c}
      /\ \A d \in DOMAIN pending' : pending'[d] = pending[d]
  BY <1>2 DEF Flow!Drop, Flow!Restrict
<1>8. FlowTyped'
  <2>1. FlowsTyped'
    BY <1>1, <1>4, <1>6, TypedFlows
  <2>2. CallsTyped'
    BY <1>1, <1>2, <1>3, TypedCalls
  <2>3. bucket' \in [tokens : 0..MaxTokens, stamp : 0..now'] \cup {Flow!NoBucket}
    BY <1>1, <1>2, TypedBucket
  <2>4. /\ admitted' \in [Users -> Nat] /\ cleared' \in [Users -> Nat]
        /\ registered' \in [Users -> Nat] /\ now' = now
    BY <1>1, <1>2 DEF FlowTyped
  <2> QED BY <1>1, <2>1, <2>2, <2>3, <2>4, TypedAgain
<1>9. RateInv'
  <2> SUFFICES ASSUME NEW t \in Int
               PROVE  /\ Cardinality(Claims(flows, pending, t)) \in Nat
                      /\ Cardinality(Claims(flows', pending', t)) \in Nat
                      /\ Cardinality(Claims(flows', pending', t))
                            <= Cardinality(Claims(flows, pending, t))
    BY <1>1, <1>2, RateAfterKeep DEF FlowInv
  <2>1. IsFiniteSet(DOMAIN flows) /\ IsFiniteSet(DOMAIN pending)
    BY <1>1 DEF FlowTyped
  <2>2. CASE pending[c].created >= t
    <3>1. c \in StartsSince(pending, t)
      BY <1>2, <2>2 DEF StartsSince
    <3>2. /\ Recent(flows', pending', t) \subseteq Recent(flows, pending, t) \cup {p}
          /\ StartsSince(pending', t) \subseteq StartsSince(pending, t) \ {c}
      BY <1>6, <1>7 DEF Recent, StartsSince, OneNewFlow
    <3>3. Moves(flows', flows, pending', pending, t)
      BY <3>1, <3>2 DEF Moves
    <3> QED BY <2>1, <3>3, ClaimsMove
  <2>3. CASE ~(pending[c].created >= t)
    <3>1. /\ Recent(flows', pending', t) \subseteq Recent(flows, pending, t)
          /\ StartsSince(pending', t) \subseteq StartsSince(pending, t)
      BY <1>5, <1>6, <1>7, <2>3 DEF Recent, StartsSince, OneNewFlow
    <3> QED BY <2>1, <3>1, ClaimsShrink
  <2> QED BY <2>2, <2>3
<1>10. PaidInv'
  <2> SUFFICES ASSUME NEW q \in Users
      PROVE /\ registered'[q] + Has(flows', q) + Cardinality(StartsOf(pending', q)) <= admitted'[q]
            /\ registered'[q] + HasFinish(flows', q) <= cleared'[q]
    BY DEF PaidInv
  <2>1. /\ registered[q] + Has(flows, q) + Cardinality(StartsOf(pending, q)) <= admitted[q]
        /\ registered[q] + HasFinish(flows, q) <= cleared[q]
    BY DEF FlowInv, PaidInv
  <2>2. /\ Has(flows, q) \in {0, 1} /\ HasFinish(flows, q) \in {0, 1}
        /\ Has(flows', q) \in {0, 1} /\ HasFinish(flows', q) \in {0, 1}
        /\ q # p => Has(flows', q) <= Has(flows, q)
        /\ HasFinish(flows', q) <= HasFinish(flows, q)
    BY <1>5, <1>6, HasFact
  <2>3. /\ registered'[q] = registered[q] /\ registered[q] \in Nat
        /\ admitted'[q] = admitted[q] /\ admitted[q] \in Nat
        /\ cleared'[q] = cleared[q] /\ cleared[q] \in Nat
    BY <1>1, <1>2 DEF FlowTyped
  <2>4. /\ IsFiniteSet(StartsOf(pending, q))
        /\ Cardinality(StartsOf(pending, q)) \in Nat
    BY <1>1, StartsFinite
  <2>5. /\ StartsOf(pending', q) = StartsOf(pending, q) \ {c}
        /\ q = p => c \in StartsOf(pending, q)
    BY <1>2, <1>7 DEF StartsOf
  <2>6. Cardinality(StartsOf(pending', q)) =
           IF c \in StartsOf(pending, q) THEN Cardinality(StartsOf(pending, q)) - 1
                                         ELSE Cardinality(StartsOf(pending, q))
    BY <2>4, <2>5, FS_RemoveElement
  <2> QED BY <2>1, <2>2, <2>3, <2>4, <2>5, <2>6
<1>11. Flow!TK!TypeOK'
  <2>1. now' \in Nat
    BY <1>1, <1>2 DEF FlowTyped
  <2> QED BY <1>2, <2>1, KeysUntouched DEF FlowInv
<1> QED BY <1>6, <1>8, <1>9, <1>10, <1>11 DEF FlowInv

\* What the two calls do that change the step of a flow, if it still exists.
LEMMA UpdateKeeps ==
    ASSUME FlowInv, NEW p \in Users, NEW flow \in FlowRecord,
           Flow!UpdateRegistrationFlow(p, flow),
           CallsTyped', DOMAIN pending' \subseteq DOMAIN pending,
           \A d \in DOMAIN pending' : pending'[d] = pending[d],
           \A t \in Int : flow.created >= t => p \in Recent(flows, pending, t),
           \/ flow.step # "finish" /\ UNCHANGED cleared
           \/ cleared' = [cleared EXCEPT ![p] = @ + 1] /\ HasFinish(flows, p) = 0,
           UNCHANGED <<bucket, now, devices, tempKeys, keyExpirations, admitted, registered>>
    PROVE  FlowInv'
<1>1. FlowTyped /\ QueueInv
  BY DEF FlowInv
<1>2. /\ OneNewFlow(flows', flows, p, flow)
      /\ DOMAIN flows' \subseteq DOMAIN flows
      /\ QueueInv'
  BY <1>1, UpdateFlowFact
<1>3. FlowTyped'
  <2>1. FlowsTyped'
    BY <1>1, <1>2, TypedFlows
  <2>2. bucket' \in [tokens : 0..MaxTokens, stamp : 0..now'] \cup {Flow!NoBucket}
    BY <1>1, TypedBucket
  <2>3. /\ admitted' \in [Users -> Nat] /\ cleared' \in [Users -> Nat]
        /\ registered' \in [Users -> Nat] /\ now' = now
    BY <1>1 DEF FlowTyped
  <2> QED BY <1>1, <2>1, <2>2, <2>3, TypedAgain
<1>4. RateInv'
  <2> SUFFICES ASSUME NEW t \in Int
               PROVE  /\ Cardinality(Claims(flows, pending, t)) \in Nat
                      /\ Cardinality(Claims(flows', pending', t)) \in Nat
                      /\ Cardinality(Claims(flows', pending', t))
                            <= Cardinality(Claims(flows, pending, t))
    BY <1>1, RateAfterKeep DEF FlowInv
  <2>1. IsFiniteSet(DOMAIN flows) /\ IsFiniteSet(DOMAIN pending)
    BY <1>1 DEF FlowTyped
  <2>2. /\ Recent(flows', pending', t) \subseteq Recent(flows, pending, t)
        /\ StartsSince(pending', t) \subseteq StartsSince(pending, t)
    BY <1>2 DEF Recent, StartsSince, OneNewFlow
  <2> QED BY <2>1, <2>2, ClaimsShrink
<1>5. PaidInv'
  <2> SUFFICES ASSUME NEW q \in Users
      PROVE /\ registered'[q] + Has(flows', q) + Cardinality(StartsOf(pending', q)) <= admitted'[q]
            /\ registered'[q] + HasFinish(flows', q) <= cleared'[q]
    BY DEF PaidInv
  <2>1. /\ registered[q] + Has(flows, q) + Cardinality(StartsOf(pending, q)) <= admitted[q]
        /\ registered[q] + HasFinish(flows, q) <= cleared[q]
    BY DEF FlowInv, PaidInv
  <2>2. /\ Has(flows, q) \in {0, 1} /\ HasFinish(flows, q) \in {0, 1}
        /\ Has(flows', q) \in {0, 1} /\ HasFinish(flows', q) \in {0, 1}
        /\ q # p => HasFinish(flows', q) <= HasFinish(flows, q)
        /\ flow.step # "finish" => HasFinish(flows', q) <= HasFinish(flows, q)
    BY <1>2, HasFact
  <2>3. Has(flows', q) <= Has(flows, q)
    BY <1>2 DEF Has
  <2>4. /\ registered'[q] = registered[q] /\ registered[q] \in Nat
        /\ admitted'[q] = admitted[q] /\ admitted[q] \in Nat /\ cleared[q] \in Nat
        /\ cleared \in [Users -> Nat]
    BY <1>1 DEF FlowTyped
  <2>5. \/ cleared'[q] = cleared[q] /\ HasFinish(flows', q) <= HasFinish(flows, q)
        \/ cleared'[q] = cleared[q] + 1 /\ HasFinish(flows, q) = 0
    BY <2>2, <2>4
  <2>6. registered'[q] + HasFinish(flows', q) <= cleared'[q]
    BY <2>1, <2>2, <2>4, <2>5
  <2>7. /\ Cardinality(StartsOf(pending, q)) \in Nat
        /\ Cardinality(StartsOf(pending', q)) \in Nat
        /\ Cardinality(StartsOf(pending', q)) <= Cardinality(StartsOf(pending, q))
    <3>1. StartsOf(pending', q) \in SUBSET StartsOf(pending, q)
      BY DEF StartsOf
    <3> QED BY <1>1, <3>1, StartsFinite, FS_Subset, FS_CardinalityType
  <2> QED BY <2>1, <2>2, <2>3, <2>4, <2>6, <2>7
<1>6. Flow!TK!TypeOK'
  <2>1. now' \in Nat
    BY <1>1 DEF FlowTyped
  <2> QED BY <2>1, KeysUntouched DEF FlowInv
<1> QED BY <1>2, <1>3, <1>4, <1>5, <1>6 DEF FlowInv

\* check_captcha with the correct solution.
LEMMA SolveCaptchaKeeps ==
    ASSUME FlowInv, NEW p \in Users, Flow!SolveCaptcha(p)
    PROVE  FlowInv'
<1> DEFINE flow == [step |-> "finish", created |-> flows[p].created]
<1>1. FlowTyped
  BY DEF FlowInv
<1>2. /\ p \in DOMAIN flows /\ flows[p].step = "captcha"
      /\ Flow!UpdateRegistrationFlow(p, flow)
      /\ cleared' = [cleared EXCEPT ![p] = @ + 1]
      /\ UNCHANGED <<bucket, pending, now, devices, tempKeys, keyExpirations,
                     admitted, registered>>
  BY DEF Flow!SolveCaptcha, Flow!InProgress, Flow!Count, Flow!keyVars
<1>3. flow \in FlowRecord
  BY <1>1, <1>2 DEF FlowTyped, FlowRecord
<1>4. flow.created = flows[p].created
  OBVIOUS
<1> HIDE DEF flow
<1>5. /\ CallsTyped' /\ DOMAIN pending' \subseteq DOMAIN pending
      /\ \A d \in DOMAIN pending' : pending'[d] = pending[d]
  BY <1>1, <1>2 DEF FlowTyped, CallsTyped
<1>6. \A t \in Int : flow.created >= t => p \in Recent(flows, pending, t)
  BY <1>2, <1>4 DEF Recent
<1>7. HasFinish(flows, p) = 0
  BY <1>2 DEF HasFinish
<1> QED BY <1>2, <1>3, <1>5, <1>6, <1>7, UpdateKeeps

\* check_captcha with a wrong solution: the flow gets its new captcha.
LEMMA CaptchaReplacedKeeps ==
    ASSUME FlowInv, NEW c \in FlowCalls, Flow!CaptchaReplaced(c)
    PROVE  FlowInv'
<1> DEFINE p == pending[c].principal
           flow == [step |-> "captcha", created |-> pending[c].created]
<1>1. FlowTyped
  BY DEF FlowInv
<1>2. /\ c \in DOMAIN pending /\ pending[c].kind = "retry"
      /\ Flow!UpdateRegistrationFlow(p, flow)
      /\ pending' = Flow!Drop(pending, c)
      /\ UNCHANGED <<bucket, now, devices, tempKeys, keyExpirations,
                     admitted, cleared, registered>>
  BY DEF Flow!CaptchaReplaced, Flow!keyVars, Flow!history
<1>3. pending[c] \in CallRecord
  BY <1>1, <1>2 DEF FlowTyped
<1>4. p \in Users /\ flow \in FlowRecord
  BY <1>3 DEF CallRecord, FlowRecord
<1>5. flow.created = pending[c].created /\ flow.step # "finish"
  OBVIOUS
<1> HIDE DEF flow
<1>6. /\ DOMAIN pending' \subseteq DOMAIN pending
      /\ \A d \in DOMAIN pending' : pending'[d] = pending[d]
  BY <1>2 DEF Flow!Drop, Flow!Restrict
<1>7. CallsTyped'
  BY <1>1, <1>2, <1>3, TypedCalls
<1>8. \A t \in Int : flow.created >= t => p \in Recent(flows, pending, t)
  BY <1>2, <1>5 DEF Recent
<1> QED BY <1>2, <1>4, <1>5, <1>6, <1>7, <1>8, UpdateKeeps

\* A call begins to wait for a new captcha, or ends with nothing.
LEMMA CallsOnlyKeep ==
    ASSUME FlowInv, CallsTyped',
           \A t \in Int : /\ Recent(flows, pending', t) \subseteq Recent(flows, pending, t)
                         /\ StartsSince(pending', t) \subseteq StartsSince(pending, t),
           \A q \in Users : StartsOf(pending', q) \subseteq StartsOf(pending, q),
           UNCHANGED <<flows, expirations, bucket, now, devices, tempKeys, keyExpirations,
                       admitted, cleared, registered>>
    PROVE  FlowInv'
<1>1. FlowTyped /\ now \in Nat
  BY DEF FlowInv, FlowTyped
<1>2. FlowTyped'
  BY <1>1 DEF FlowTyped, CallsTyped
<1>3. QueueInv'
  BY DEF FlowInv, QueueInv, Queued
<1>4. RateInv'
  <2> SUFFICES ASSUME NEW t \in Int
               PROVE  /\ Cardinality(Claims(flows, pending, t)) \in Nat
                      /\ Cardinality(Claims(flows', pending', t)) \in Nat
                      /\ Cardinality(Claims(flows', pending', t))
                            <= Cardinality(Claims(flows, pending, t))
    BY <1>1, RateAfterKeep DEF FlowInv
  <2>1. IsFiniteSet(DOMAIN flows) /\ IsFiniteSet(DOMAIN pending) /\ flows' = flows
    BY <1>1 DEF FlowTyped
  <2> QED BY <2>1, ClaimsShrink
<1>5. PaidInv'
  <2> SUFFICES ASSUME NEW q \in Users
      PROVE /\ registered'[q] + Has(flows', q) + Cardinality(StartsOf(pending', q)) <= admitted'[q]
            /\ registered'[q] + HasFinish(flows', q) <= cleared'[q]
    BY DEF PaidInv
  <2>1. /\ registered[q] + Has(flows, q) + Cardinality(StartsOf(pending, q)) <= admitted[q]
        /\ registered[q] + HasFinish(flows, q) <= cleared[q]
    BY DEF FlowInv, PaidInv
  <2>2. /\ registered[q] \in Nat /\ admitted[q] \in Nat /\ Has(flows, q) \in {0, 1}
    BY <1>1 DEF FlowTyped, Has
  <2>3. /\ Cardinality(StartsOf(pending, q)) \in Nat
        /\ Cardinality(StartsOf(pending', q)) \in Nat
        /\ Cardinality(StartsOf(pending', q)) <= Cardinality(StartsOf(pending, q))
    BY <1>1, StartsFinite, FS_Subset, FS_CardinalityType
  <2>4. registered' = registered /\ admitted' = admitted /\ cleared' = cleared
        /\ flows' = flows
    OBVIOUS
  <2> QED BY <2>1, <2>2, <2>3, <2>4
<1>6. Flow!TK!TypeOK'
  BY <1>1, KeysUntouched DEF FlowInv
<1> QED BY <1>2, <1>3, <1>4, <1>5, <1>6 DEF FlowInv

\* check_captcha with a wrong solution, up to the await.
LEMMA FailCaptchaKeeps ==
    ASSUME FlowInv, NEW p \in Users, NEW c \in FlowCalls, Flow!FailCaptcha(p, c)
    PROVE  FlowInv'
<1> DEFINE r == [kind |-> "retry", principal |-> p, created |-> flows[p].created]
<1>1. /\ p \in DOMAIN flows /\ c \notin DOMAIN pending
      /\ pending' = Flow!Put(pending, c, r)
      /\ UNCHANGED <<flows, expirations, bucket, now, devices, tempKeys, keyExpirations,
                     admitted, cleared, registered>>
  BY DEF Flow!FailCaptcha, Flow!InProgress, Flow!keyVars, Flow!flowVars, Flow!history
<1>2. FlowTyped
  BY DEF FlowInv
<1>3. r \in CallRecord
  BY <1>1, <1>2 DEF FlowTyped, FlowRecord, CallRecord
<1>4. CallsTyped'
  BY <1>1, <1>2, <1>3, TypedCalls
<1>5. r.kind = "retry" /\ r.principal = p /\ r.created = flows[p].created
  OBVIOUS
<1> HIDE DEF r
<1>6. /\ DOMAIN pending' = DOMAIN pending \cup {c}
      /\ pending'[c] = r
      /\ \A d \in DOMAIN pending : pending'[d] = pending[d]
  BY <1>1 DEF Flow!Put
<1>7. \A t \in Int : /\ Recent(flows, pending', t) \subseteq Recent(flows, pending, t)
                    /\ StartsSince(pending', t) \subseteq StartsSince(pending, t)
  BY <1>1, <1>5, <1>6 DEF Recent, StartsSince
<1>8. \A q \in Users : StartsOf(pending', q) \subseteq StartsOf(pending, q)
  BY <1>5, <1>6 DEF StartsOf
<1> QED BY <1>1, <1>4, <1>7, <1>8, CallsOnlyKeep

\* raw_rand fails.
LEMMA CaptchaFailedKeeps ==
    ASSUME FlowInv, NEW c \in FlowCalls, Flow!CaptchaFailed(c)
    PROVE  FlowInv'
<1>1. /\ c \in DOMAIN pending /\ pending' = Flow!Drop(pending, c)
      /\ UNCHANGED <<flows, expirations, bucket, now, devices, tempKeys, keyExpirations,
                     admitted, cleared, registered>>
  BY DEF Flow!CaptchaFailed, Flow!keyVars, Flow!flowVars, Flow!history
<1>2. FlowTyped /\ pending[c] \in CallRecord
  BY <1>1 DEF FlowInv, FlowTyped
<1>3. CallsTyped'
  BY <1>1, <1>2, TypedCalls
<1>4. /\ DOMAIN pending' = DOMAIN pending \ {c}
      /\ \A d \in DOMAIN pending' : pending'[d] = pending[d]
  BY <1>1 DEF Flow!Drop, Flow!Restrict
<1>5. \A t \in Int : /\ Recent(flows, pending', t) \subseteq Recent(flows, pending, t)
                    /\ StartsSince(pending', t) \subseteq StartsSince(pending, t)
  BY <1>4 DEF Recent, StartsSince
<1>6. \A q \in Users : StartsOf(pending', q) \subseteq StartsOf(pending, q)
  BY <1>4 DEF StartsOf
<1> QED BY <1>1, <1>3, <1>5, <1>6, CallsOnlyKeep

\* The number of a new identity.
LEMMA NewIdentity ==
    ASSUME FlowInv, Flow!Cardinality(DOMAIN devices) + 1 <= MaxIdentities
    PROVE  /\ Flow!Cardinality(DOMAIN devices) + 1 \in 1..MaxIdentities
           /\ Flow!TK!Identities = 1..MaxIdentities
<1>1. DOMAIN devices \in SUBSET (1..MaxIdentities)
  BY DEF FlowInv, Flow!TK!TypeOK, Flow!TK!Identities
<1>2. IsFiniteSet(1..MaxIdentities)
  BY FS_Interval, FlowConstants
<1>3. Cardinality(DOMAIN devices) \in Nat
  BY <1>1, <1>2, FS_Subset, FS_CardinalityType
<1> QED BY <1>3, FlowLibrary, FlowConstants DEF Flow!TK!Identities

\* A new identity with its first device, whose temporary key the caller becomes.
LEMMA KeysAfterDevice ==
    ASSUME FlowInv, now \in Nat, now' = now, NEW i \in 1..MaxIdentities,
           NEW d \in Devices, NEW p \in Users,
           devices' = Flow!Put(devices, i, {d}), Flow!TK!AddTempKey(i, d, p)
    PROVE  Flow!TK!TypeOK'
<1> DEFINE key == <<i, d>>
           entry == [key |-> key, expiration |-> now + KeyExpiration]
           value == [principal |-> p, expiration |-> now + KeyExpiration]
<1>1. /\ tempKeys' = Flow!TK!Put(tempKeys, key, value)
      /\ keyExpirations' = Append(keyExpirations, entry)
  BY DEF Flow!TK!AddTempKey
<1>2. key \in Flow!TK!Keys
  BY DEF Flow!TK!Keys, Flow!TK!Identities
<1>3. /\ entry \in [key : Flow!TK!Keys, expiration : Nat]
      /\ value \in [principal : Users, expiration : Nat]
  BY <1>2, FlowConstants
<1> HIDE DEF entry, value, key
<1>4. /\ DOMAIN devices' \subseteq Flow!TK!Identities
      /\ \A j \in DOMAIN devices' : devices'[j] \subseteq Devices
  BY DEF Flow!Put, FlowInv, Flow!TK!TypeOK, Flow!TK!Identities
<1>5. /\ DOMAIN tempKeys' \subseteq Flow!TK!Keys
      /\ \A k \in DOMAIN tempKeys' : tempKeys'[k] \in [principal : Users, expiration : Nat]
  BY <1>1, <1>2, <1>3 DEF Flow!TK!Put, FlowInv, Flow!TK!TypeOK
<1>6. keyExpirations' \in Seq([key : Flow!TK!Keys, expiration : Nat])
  <2>1. keyExpirations \in Seq([key : Flow!TK!Keys, expiration : Nat])
    BY DEF FlowInv, Flow!TK!TypeOK
  <2> QED BY <1>1, <1>3, <2>1, AppendProperties
<1> QED BY <1>4, <1>5, <1>6 DEF Flow!TK!TypeOK

\* identity_registration_finish, with a device or with an OpenID credential.
LEMMA FinishKeeps ==
    ASSUME FlowInv, NEW p \in Users,
           Flow!FinishWithOpenId(p) \/ \E d \in Devices : Flow!FinishWithDevice(p, d)
    PROVE  FlowInv'
<1> DEFINE i == Flow!Cardinality(DOMAIN devices) + 1
<1>1. FlowTyped /\ QueueInv /\ now \in Nat
  BY DEF FlowInv, FlowTyped
<1>2. /\ p \in DOMAIN flows /\ flows[p].step = "finish"
      /\ i <= MaxIdentities
      /\ Flow!RemoveRegistrationFlow(p)
      /\ registered' = [registered EXCEPT ![p] = @ + 1]
      /\ UNCHANGED <<bucket, pending, now, admitted, cleared>>
  BY DEF Flow!FinishWithOpenId, Flow!FinishWithDevice, Flow!FinishReady, Flow!InProgress,
         Flow!Count
<1>3. \/ /\ devices' = Flow!Put(devices, i, {})
         /\ UNCHANGED <<tempKeys, keyExpirations>>
      \/ \E d \in Devices : /\ devices' = Flow!Put(devices, i, {d})
                             /\ Flow!TK!AddTempKey(i, d, p)
  BY DEF Flow!FinishWithOpenId, Flow!FinishWithDevice
<1>4. i \in 1..MaxIdentities /\ Flow!TK!Identities = 1..MaxIdentities
  BY <1>2, NewIdentity
<1> HIDE DEF i
<1>5. NoNewFlows(flows', flows) /\ p \notin DOMAIN flows' /\ QueueInv'
  BY <1>1, <1>2, RemoveFlowFact
<1>6. FlowTyped'
  <2>1. flows[p] \in FlowRecord
    BY <1>1, <1>2 DEF FlowTyped
  <2>2. FlowsTyped'
    BY <1>1, <1>5, <2>1, TypedFlows
  <2>3. CallsTyped'
    BY <1>1, <1>2 DEF FlowTyped, CallsTyped
  <2>4. bucket' \in [tokens : 0..MaxTokens, stamp : 0..now'] \cup {Flow!NoBucket}
    BY <1>1, <1>2, TypedBucket
  <2>5. /\ admitted' \in [Users -> Nat] /\ cleared' \in [Users -> Nat]
        /\ registered' \in [Users -> Nat] /\ now' = now
    BY <1>1, <1>2 DEF FlowTyped
  <2> QED BY <1>1, <2>2, <2>3, <2>4, <2>5, TypedAgain
<1>7. RateInv'
  <2> SUFFICES ASSUME NEW t \in Int
               PROVE  /\ Cardinality(Claims(flows, pending, t)) \in Nat
                      /\ Cardinality(Claims(flows', pending', t)) \in Nat
                      /\ Cardinality(Claims(flows', pending', t))
                            <= Cardinality(Claims(flows, pending, t))
    BY <1>1, <1>2, RateAfterKeep DEF FlowInv
  <2>1. IsFiniteSet(DOMAIN flows) /\ IsFiniteSet(DOMAIN pending)
    BY <1>1 DEF FlowTyped
  <2>2. /\ Recent(flows', pending', t) \subseteq Recent(flows, pending, t)
        /\ StartsSince(pending', t) \subseteq StartsSince(pending, t)
    BY <1>2, <1>5 DEF Recent, StartsSince, NoNewFlows
  <2> QED BY <2>1, <2>2, ClaimsShrink
<1>8. PaidInv'
  <2> SUFFICES ASSUME NEW q \in Users
      PROVE /\ registered'[q] + Has(flows', q) + Cardinality(StartsOf(pending', q)) <= admitted'[q]
            /\ registered'[q] + HasFinish(flows', q) <= cleared'[q]
    BY DEF PaidInv
  <2>1. /\ registered[q] + Has(flows, q) + Cardinality(StartsOf(pending, q)) <= admitted[q]
        /\ registered[q] + HasFinish(flows, q) <= cleared[q]
    BY DEF FlowInv, PaidInv
  <2>2. /\ Has(flows, q) \in {0, 1} /\ HasFinish(flows, q) \in {0, 1}
        /\ Has(flows', q) \in {0, 1} /\ HasFinish(flows', q) \in {0, 1}
        /\ Has(flows', q) <= Has(flows, q)
        /\ HasFinish(flows', q) <= HasFinish(flows, q)
    BY <1>5, HasFact
  <2>3. q = p => /\ Has(flows, q) = 1 /\ HasFinish(flows, q) = 1
                 /\ Has(flows', q) = 0 /\ HasFinish(flows', q) = 0
    BY <1>2, <1>5 DEF Has, HasFinish
  <2>4. /\ registered[q] \in Nat /\ admitted[q] \in Nat /\ cleared[q] \in Nat
        /\ registered'[q] = IF q = p THEN registered[q] + 1 ELSE registered[q]
        /\ admitted' = admitted /\ cleared' = cleared /\ pending' = pending
    BY <1>1, <1>2 DEF FlowTyped
  <2>5. Cardinality(StartsOf(pending, q)) \in Nat
    BY <1>1, StartsFinite
  <2> QED BY <2>1, <2>2, <2>3, <2>4, <2>5
<1>9. Flow!TK!TypeOK'
  <2>1. CASE /\ devices' = Flow!Put(devices, i, {})
             /\ UNCHANGED <<tempKeys, keyExpirations>>
    BY <1>1, <1>2, <1>4, <2>1 DEF Flow!Put, FlowInv, Flow!TK!TypeOK
  <2>2. CASE \E d \in Devices : /\ devices' = Flow!Put(devices, i, {d})
                                /\ Flow!TK!AddTempKey(i, d, p)
    BY <1>1, <1>2, <1>4, <2>2, KeysAfterDevice
  <2> QED BY <1>3, <2>1, <2>2
<1> QED BY <1>5, <1>6, <1>7, <1>8, <1>9 DEF FlowInv

\* An upgrade forgets the flows, the calls and the bucket.
LEMMA UpgradeKeeps ==
    ASSUME FlowInv, Flow!Upgrade
    PROVE  FlowInv'
<1>1. /\ flows' = Flow!NoFlows /\ pending' = Flow!NoFlows
      /\ expirations' = <<>> /\ bucket' = Flow!NoBucket
      /\ tempKeys' = Flow!TK!NoKeys /\ keyExpirations' = <<>>
      /\ UNCHANGED <<now, devices, admitted, cleared, registered>>
      /\ DOMAIN flows' = {} /\ DOMAIN pending' = {} /\ DOMAIN tempKeys' = {}
  BY DEF Flow!Upgrade, Flow!TK!Upgrade, Flow!history, Flow!NoFlows, Flow!TK!NoKeys
<1>2. FlowTyped'
  BY <1>1, FS_EmptySet DEF FlowInv, FlowTyped
<1>3. QueueInv'
  BY <1>1, EmptySeq DEF QueueInv, Queued
<1>4. RateInv'
  <2> SUFFICES ASSUME NEW t \in Int
               PROVE  WithinRate(Cardinality(Claims(flows', pending', t)), bucket', t)
    BY DEF RateInv
  <2>1. Claims(flows', pending', t) = {}
    BY <1>1 DEF Claims, Recent, StartsSince
  <2> QED BY <2>1, FS_EmptySet DEF WithinRate
<1>5. PaidInv'
  <2> SUFFICES ASSUME NEW q \in Users
      PROVE /\ registered'[q] + Has(flows', q) + Cardinality(StartsOf(pending', q)) <= admitted'[q]
            /\ registered'[q] + HasFinish(flows', q) <= cleared'[q]
    BY DEF PaidInv
  <2>1. /\ registered[q] + Has(flows, q) + Cardinality(StartsOf(pending, q)) <= admitted[q]
        /\ registered[q] + HasFinish(flows, q) <= cleared[q]
    BY DEF FlowInv, PaidInv
  <2>2. /\ StartsOf(pending', q) = {} /\ Has(flows', q) = 0 /\ HasFinish(flows', q) = 0
    BY <1>1 DEF StartsOf, Has, HasFinish
  <2>3. /\ Has(flows, q) \in {0, 1} /\ HasFinish(flows, q) \in {0, 1}
        /\ registered[q] \in Nat /\ admitted[q] \in Nat /\ cleared[q] \in Nat
        /\ registered' = registered /\ admitted' = admitted /\ cleared' = cleared
    BY <1>1 DEF Has, HasFinish, FlowInv, FlowTyped
  <2>4. Cardinality(StartsOf(pending, q)) \in Nat
    BY StartsFinite DEF FlowInv
  <2>5. Cardinality(StartsOf(pending', q)) = 0
    BY <2>2, FS_EmptySet
  <2> QED BY <2>1, <2>2, <2>3, <2>4, <2>5
<1>6. Flow!TK!TypeOK'
  <2>1. keyExpirations' \in Seq([key : Flow!TK!Keys, expiration : Nat])
    BY <1>1, EmptySeq
  <2> QED BY <1>1, <2>1 DEF FlowInv, Flow!TK!TypeOK
<1> QED BY <1>2, <1>3, <1>4, <1>5, <1>6 DEF FlowInv

\* Time goes on, or nothing happens.
LEMMA TickKeeps ==
    ASSUME FlowInv, now' \in Nat, now' >= now,
           UNCHANGED <<flows, expirations, bucket, pending, devices, tempKeys,
                       keyExpirations, admitted, cleared, registered>>
    PROVE  FlowInv'
<1>1. FlowTyped'
  BY DEF FlowInv, FlowTyped
<1>2. QueueInv' /\ RateInv' /\ PaidInv'
  BY DEF FlowInv, QueueInv, Queued, RateInv, PaidInv
<1>3. Flow!TK!TypeOK'
  BY KeysUntouched DEF FlowInv
<1> QED BY <1>1, <1>2, <1>3 DEF FlowInv

LEMMA FlowStep ==
    ASSUME FlowInv, Flow!Next
    PROVE  FlowInv'
<1>1. CASE Flow!StartRefused
  BY <1>1, StartRefusedKeeps
<1>2. ASSUME NEW p \in Users,
             \/ Flow!StartWithoutCaptcha(p)
             \/ Flow!SolveCaptcha(p)
             \/ Flow!FinishWithOpenId(p)
             \/ \E d \in Devices : Flow!FinishWithDevice(p, d)
             \/ \E c \in FlowCalls : Flow!StartWithCaptcha(p, c) \/ Flow!FailCaptcha(p, c)
      PROVE  FlowInv'
  BY <1>2, StartWithoutCaptchaKeeps, SolveCaptchaKeeps, FinishKeeps, StartWithCaptchaKeeps,
     FailCaptchaKeeps
<1>3. ASSUME NEW c \in FlowCalls,
             Flow!CaptchaCreated(c) \/ Flow!CaptchaReplaced(c) \/ Flow!CaptchaFailed(c)
      PROVE  FlowInv'
  BY <1>3, CaptchaCreatedKeeps, CaptchaReplacedKeeps, CaptchaFailedKeeps
<1>4. CASE Flow!Upgrade
  BY <1>4, UpgradeKeeps
<1>5. CASE Flow!Tick
  <2>1. /\ now' = now + 1
        /\ UNCHANGED <<flows, expirations, bucket, pending, devices, tempKeys,
                       keyExpirations, admitted, cleared, registered>>
    BY <1>5 DEF Flow!Tick, Flow!TK!Tick, Flow!flowVars, Flow!history
  <2>2. now' \in Nat /\ now' >= now
    BY <2>1 DEF FlowInv, FlowTyped
  <2> QED BY <2>1, <2>2, TickKeeps
<1> QED BY <1>1, <1>2, <1>3, <1>4, <1>5 DEF Flow!Next

LEMMA FlowStart == Flow!Init => FlowInv
<1> SUFFICES ASSUME Flow!Init PROVE FlowInv
  OBVIOUS
<1>1. /\ now = 0 /\ DOMAIN flows = {} /\ DOMAIN pending = {} /\ expirations = <<>>
      /\ bucket = Flow!NoBucket /\ DOMAIN devices = {} /\ DOMAIN tempKeys = {}
      /\ keyExpirations = <<>>
      /\ admitted = [p \in Users |-> 0] /\ cleared = [p \in Users |-> 0]
      /\ registered = [p \in Users |-> 0]
  BY DEF Flow!Init, Flow!TK!Init, Flow!NoFlows, Flow!TK!NoKeys
<1>2. FlowTyped
  BY <1>1, FS_EmptySet DEF FlowTyped
<1>3. QueueInv
  BY <1>1, EmptySeq DEF QueueInv, Queued
<1>4. RateInv
  <2> SUFFICES ASSUME NEW t \in Int
               PROVE  WithinRate(Cardinality(Claims(flows, pending, t)), bucket, t)
    BY DEF RateInv
  <2>1. Claims(flows, pending, t) = {}
    BY <1>1 DEF Claims, Recent, StartsSince
  <2> QED BY <2>1, FS_EmptySet DEF WithinRate
<1>5. PaidInv
  <2> SUFFICES ASSUME NEW q \in Users
      PROVE /\ registered[q] + Has(flows, q) + Cardinality(StartsOf(pending, q)) <= admitted[q]
            /\ registered[q] + HasFinish(flows, q) <= cleared[q]
    BY DEF PaidInv
  <2>1. StartsOf(pending, q) = {} /\ Has(flows, q) = 0 /\ HasFinish(flows, q) = 0
    BY <1>1 DEF StartsOf, Has, HasFinish
  <2> QED BY <1>1, <2>1, FS_EmptySet
<1>6. Flow!TK!TypeOK
  <2>1. keyExpirations \in Seq([key : Flow!TK!Keys, expiration : Nat])
    BY <1>1, EmptySeq
  <2> QED BY <1>1, <2>1 DEF Flow!TK!TypeOK
<1> QED BY <1>2, <1>3, <1>4, <1>5, <1>6 DEF FlowInv

-----------------------------------------------------------------------------
(***************************************************************************)
(* What the invariant says of the flows.                                   *)
(***************************************************************************)

\* The invariant counts as the properties do.
LEMMA FlowCounts ==
    ASSUME FlowInv, NEW p \in Users
    PROVE  /\ Flow!Cardinality(DOMAIN flows \cap {p}) = Has(flows, p)
           /\ Flow!Cardinality({q \in DOMAIN flows \cap {p} : flows[q].step = "finish"})
                 = HasFinish(flows, p)
           /\ Flow!Cardinality(Flow!PendingStarts(p)) = Cardinality(StartsOf(pending, p))
<1>1. DOMAIN flows \cap {p} = IF p \in DOMAIN flows THEN {p} ELSE {}
  OBVIOUS
<1>2. {q \in DOMAIN flows \cap {p} : flows[q].step = "finish"} =
         IF p \in DOMAIN flows /\ flows[p].step = "finish" THEN {p} ELSE {}
  OBVIOUS
<1>3. Cardinality({p}) = 1 /\ Cardinality({}) = 0
  BY FS_Singleton, FS_EmptySet
<1>4. Flow!PendingStarts(p) = StartsOf(pending, p)
  BY DEF Flow!PendingStarts, StartsOf
<1> QED BY <1>1, <1>2, <1>3, <1>4, FlowLibrary DEF Has, HasFinish

\* The flows of the last FlowExpiration are claims, and so within the limit.
LEMMA RateBound == FlowInv => Flow!FlowsWithinRateLimit
<1> SUFFICES ASSUME FlowInv PROVE Flow!FlowsWithinRateLimit
  OBVIOUS
<1> DEFINE live == {p \in DOMAIN flows : flows[p].created + FlowExpiration > now}
           t == now - FlowExpiration + 1
           A == Claims(flows, pending, t)
           n == Cardinality(A)
           T == TimePerToken
           quotient == (FlowExpiration - 1) \div T
<1>1. /\ now \in Nat /\ t \in Int /\ IsFiniteSet(DOMAIN flows) /\ IsFiniteSet(DOMAIN pending)
      /\ \A p \in DOMAIN flows : flows[p].created \in Nat
      /\ bucket \in [tokens : 0..MaxTokens, stamp : 0..now] \cup {Flow!NoBucket}
  BY FlowConstants DEF FlowInv, FlowTyped, FlowRecord
<1>2. IsFiniteSet(A) /\ n \in Nat
  BY <1>1, ClaimsAreFinite
<1>3. Cardinality(live) <= n /\ Cardinality(live) \in Nat
  <2>1. {"flow"} \X live \subseteq A
    BY <1>1, FlowConstants DEF Claims, Recent
  <2> HIDE DEF A
  <2>2. live \in SUBSET DOMAIN flows
    OBVIOUS
  <2>3. IsFiniteSet(live) /\ Cardinality(live) \in Nat
    BY <1>1, <2>2, FS_Subset, FS_CardinalityType
  <2>4. Cardinality({"flow"} \X live) = Cardinality({"flow"}) * Cardinality(live)
    BY <2>3, FS_Singleton, FS_Product
  <2>5. Cardinality({"flow"} \X live) = Cardinality(live)
    <3>1. Cardinality({"flow"}) = 1
      BY FS_Singleton
    <3> HIDE DEF live
    <3> QED BY <2>3, <2>4, <3>1
  <2>6. Cardinality({"flow"} \X live) <= n
    BY <1>2, <2>1, FS_Subset
  <2> QED BY <2>3, <2>5, <2>6
<1>4. WithinRate(n, bucket, t)
  BY <1>1 DEF FlowInv, RateInv
<1>5. /\ quotient \in Nat /\ FlowExpiration - 1 < quotient * T + T /\ T \in Nat /\ T > 0
      /\ quotient * T = T * quotient
  BY Quotient, FlowConstants
<1> HIDE DEF A, n, live, quotient
<1>6. n <= MaxTokens + quotient + 1
  <2>1. CASE n = 0
    BY <2>1, <1>5, FlowConstants
  <2>2. CASE n > 0
    <3>1. /\ bucket # Flow!NoBucket
          /\ T * (n + bucket.tokens - MaxTokens) <= bucket.stamp - t + T - 1
      BY <1>4, <2>2 DEF WithinRate
    <3>2. bucket.tokens \in Nat /\ bucket.stamp \in 0..now
      BY <1>1, <3>1, FlowConstants
    <3> DEFINE e == n + bucket.tokens - MaxTokens
    <3>3. e \in Int /\ n - MaxTokens <= e
      BY <1>2, <3>2, FlowConstants
    <3>4. T * e <= FlowExpiration - 1 + T - 1
      BY <1>1, <3>1, <3>2, <3>3, <1>5, FlowConstants
    <3>5. T * (quotient + 2) = T * quotient + T + T
      BY <1>5
    <3>6. T * e < T * (quotient + 2)
      <4>1. T * e \in Int /\ T * quotient \in Int
        BY <1>5, <3>3
      <4> HIDE DEF e
      <4> QED BY <4>1, <1>5, <3>4, <3>5, FlowConstants
    <3>7. e < quotient + 2
      <4>1. \A i, j \in Int : i >= j => T * i >= T * j
        BY <1>5
      <4>2. quotient + 2 \in Int /\ T * e \in Int /\ T * (quotient + 2) \in Int
        BY <1>5, <3>3
      <4> HIDE DEF e
      <4> QED BY <4>1, <4>2, <3>3, <3>6
    <3> HIDE DEF e
    <3> QED BY <1>2, <1>5, <3>3, <3>7, FlowConstants
  <2> QED BY <1>2, <2>1, <2>2
<1>7. Cardinality(live) <= MaxTokens + quotient + 1
  BY <1>2, <1>3, <1>5, <1>6, FlowConstants
<1> QED BY <1>7, FlowLibrary DEF Flow!FlowsWithinRateLimit, live, quotient

\* The conjuncts that a run checks.
LEMMA FlowInvImplies ==
    ASSUME FlowInv
    PROVE  /\ Flow!TypeOK /\ Flow!EveryFlowIsPaid /\ Flow!EveryFlowIsQueued
           /\ Flow!FlowsWithinRateLimit /\ Flow!EveryFinishIsCleared
<1>1. Flow!EveryFlowIsPaid /\ Flow!EveryFinishIsCleared
  BY FlowCounts DEF FlowInv, PaidInv, Flow!EveryFlowIsPaid, Flow!EveryFinishIsCleared
<1>2. Flow!EveryFlowIsQueued
  BY DEF FlowInv, QueueInv, Queued, Flow!EveryFlowIsQueued
<1>3. Flow!TypeOK
  BY DEF FlowInv, FlowTyped, QueueInv, FlowRecord, CallRecord, QueueEntry, Flow!TypeOK,
         Flow!Steps
<1> QED BY <1>1, <1>2, <1>3, RateBound

\* A behaviour of the union in which the flows run keeps their invariant.
LEMMA FlowAlways == Spec => [](part = "flow" => FlowInv)
<1> DEFINE I == part = "flow" => FlowInv
<1>1. Init => I
  BY FlowStart DEF Init
<1>2. I /\ [Next]_vars => I'
  <2> SUFFICES ASSUME I, [Next]_vars, part' = "flow" PROVE FlowInv'
    OBVIOUS
  <2>1. part = "flow" /\ FlowInv
    BY DEF Next, vars
  <2>2. CASE UNCHANGED vars
    <3>1. now' \in Nat /\ now' >= now
      BY <2>1, <2>2 DEF vars, FlowInv, FlowTyped
    <3>2. UNCHANGED <<flows, expirations, bucket, pending, devices, tempKeys,
                      keyExpirations, admitted, cleared, registered>>
      BY <2>2 DEF vars
    <3> QED BY <2>1, <3>1, <3>2, TickKeeps
  <2>3. CASE Next
    BY <2>1, <2>3, FlowStep DEF Next
  <2> QED BY <2>2, <2>3
<1> QED BY <1>1, <1>2, PTL DEF Spec

\* Calls of one principal that overlap at the await get no second flow or
\* identity out of one token; every flow stands in the queue that prunes it; and
\* no more flows live than tokens were added in a flow's life.
THEOREM FlowsAreAlwaysPaid == Spec => []FlowsArePaid
<1>1. (part = "flow" => FlowInv) => FlowsArePaid
  BY FlowInvImplies DEF FlowsArePaid
<1> QED BY <1>1, FlowAlways, PTL

\* One captcha that was solved, or not required, for each identity and each flow
\* that may become one.
THEOREM FinishesAreAlwaysCleared == Spec => []EveryFinishIsCleared
<1>1. (part = "flow" => FlowInv) => EveryFinishIsCleared
  BY FlowInvImplies DEF EveryFinishIsCleared
<1> QED BY <1>1, FlowAlways, PTL

=============================================================================
