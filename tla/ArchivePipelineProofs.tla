----------------------- MODULE ArchivePipelineProofs -----------------------
(***************************************************************************)
(* Proofs about ArchivePipeline for all values of its constants: the       *)
(* inductive invariant, the safety properties that follow from it, and the *)
(* step simulation of ArchiveLog.                                          *)
(***************************************************************************)
EXTENDS ArchivePipeline, IntegerLemmas, FiniteSetTheorems, SequenceTheorems, TLAPS

-----------------------------------------------------------------------------
(***************************************************************************)
(* Sets of sequence numbers.                                               *)
(***************************************************************************)

\* The position of a number in an interval is its distance from the start.
LEMMA RankInInterval ==
    ASSUME NEW a \in Int, NEW b \in Int, NEW s \in a..b
    PROVE  Rank(a..b, s) = s - a
<1>1. {t \in a..b : t < s} = a..(s - 1)
  OBVIOUS
<1>2. PICK c \in Int : c = s - 1
  OBVIOUS
<1>3. Cardinality(a..c) = IF a > c THEN 0 ELSE c - a + 1
  BY FS_Interval
<1>4. Cardinality(a..(s - 1)) = s - a
  BY <1>2, <1>3
<1>5. QED  BY <1>1, <1>4, Zenon DEF Rank

\* Listing an interval in order.
LEMMA InOrderInterval ==
    ASSUME NEW a \in Int, NEW b \in Int, a <= b + 1
    PROVE  /\ Cardinality(a..b) = b - a + 1
           /\ DOMAIN InOrder(a..b) = 1..(b - a + 1)
           /\ \A i \in 1..(b - a + 1) : InOrder(a..b)[i] = a + i - 1
<1>1. Cardinality(a..b) = b - a + 1
  BY FS_Interval
<1>2. ASSUME NEW i \in 1..(b - a + 1)
      PROVE  InOrder(a..b)[i] = a + i - 1
  <2>1. InOrder(a..b)[i] = CHOOSE s \in a..b : Rank(a..b, s) = i - 1
    BY <1>1 DEF InOrder
  <2>2. \A s \in a..b : Rank(a..b, s) = i - 1 <=> s = a + i - 1
    BY RankInInterval
  <2>3. a + i - 1 \in a..b
    OBVIOUS
  <2> QED  BY <2>1, <2>2, <2>3
<1>3. QED  BY <1>1, <1>2 DEF InOrder

\* With s, FirstOf also takes everything before s: a fetched batch is a
\* prefix of the buffer.
LEMMA FirstOfIsPrefix ==
    ASSUME NEW m \in Nat, NEW S \in SUBSET (0..m), NEW n \in Nat,
           NEW s \in FirstOf(S, n), NEW t \in S, t < s
    PROVE  t \in FirstOf(S, n)
<1> DEFINE Before(x) == {u \in S : u < x}
<1>1. IsFiniteSet(0..m)
  BY FS_Interval
<1>2. Before(s) \subseteq 0..m /\ Before(t) \subseteq Before(s)
  <2>1. s \in S
    BY DEF FirstOf
  <2>2. s \in Int /\ t \in Int /\ S \subseteq Int
    BY <2>1
  <2>3. ASSUME NEW u \in S, u < t PROVE u < s
    <3>1. u \in Int
      BY <2>2
    <3>2. QED  BY <3>1, <2>2, <2>3
  <2>4. Before(t) \subseteq Before(s)
    BY <2>3
  <2>5. Before(s) \subseteq S /\ S \subseteq 0..m
    OBVIOUS
  <2>6. QED  BY <2>4, <2>5
<1>3. IsFiniteSet(Before(s))
  BY <1>1, <1>2, FS_Subset
<1>4. IsFiniteSet(Before(t)) /\ Cardinality(Before(t)) <= Cardinality(Before(s))
  BY <1>2, <1>3, FS_Subset
<1>5. Cardinality(Before(t)) \in Nat /\ Cardinality(Before(s)) \in Nat
  BY <1>3, <1>4, FS_CardinalityType
<1>6. Cardinality(Before(s)) < n
  BY DEF FirstOf, Rank
<1>7. Cardinality(Before(t)) < n
  BY <1>4, <1>5, <1>6
<1>8. QED  BY <1>7 DEF FirstOf, Rank

-----------------------------------------------------------------------------
(***************************************************************************)
(* The inductive invariant.  The safety properties are not inductive: they *)
(* do not say how the buffer and the batches in flight relate to the log.  *)
(***************************************************************************)

\* highest_sequence_number is the sequence number of the last log entry.
HighestIsLast == highest = Len(log) - 1

\* The buffer holds a final segment of all sequence numbers, at least those
\* not in the log; where it overlaps the log, they agree.
BufferContinuesLog ==
    /\ Len(log) <= nextSeq
    /\ DOMAIN buffer \subseteq 0..(nextSeq - 1)
    /\ \A s \in Len(log)..(nextSeq - 1) : s \in DOMAIN buffer
    /\ \A s \in DOMAIN buffer : \A t \in s..(nextSeq - 1) : t \in DOMAIN buffer
    /\ \A s \in DOMAIN buffer :
          s < Len(log) => log[s + 1].anchor = buffer[s]

\* A batch is an interval of sequence numbers that starts no later than the
\* log ends; it agrees with the log and, beyond its end, with the buffer.
BatchContinuesLog(p) ==
    /\ DOMAIN batch[p] \subseteq 0..(nextSeq - 1)
    /\ \A s, t \in DOMAIN batch[p] : \A u \in s..t : u \in DOMAIN batch[p]
    /\ DOMAIN batch[p] # {} => \E s \in DOMAIN batch[p] : s <= Len(log)
    /\ \A s \in DOMAIN batch[p] :
          /\ s < Len(log) => batch[p][s] = log[s + 1].anchor
          /\ s >= Len(log) => s \in DOMAIN buffer /\ batch[p][s] = buffer[s]

\* What is being acknowledged is in the log.
AckCoversLog(p) ==
    pc[p] = "acking" => /\ DOMAIN batch[p] # {}
                        /\ \A s \in DOMAIN batch[p] : s < Len(log)

\* The part of the invariant that relates the two canisters.
Linked == /\ GapFreeLog
          /\ HighestIsLast
          /\ BufferContinuesLog
          /\ \A p \in Polls : BatchContinuesLog(p) /\ AckCoversLog(p)

IInv == TypeOK /\ Linked

-----------------------------------------------------------------------------
LEMMA InitEstablishesIInv == Init => IInv
<1> SUFFICES ASSUME Init PROVE IInv
  OBVIOUS
<1>1. TypeOK
  BY ConfigsAssumption, BoundsAssumption, EmptySeq
     DEF Init, TypeOK, NoBatch, None, PollStates
<1>2. GapFreeLog /\ HighestIsLast /\ BufferContinuesLog
  BY EmptySeq DEF Init, GapFreeLog, HighestIsLast, BufferContinuesLog, NoBatch, None
<1>3. ASSUME NEW p \in Polls PROVE BatchContinuesLog(p) /\ AckCoversLog(p)
  BY DEF Init, BatchContinuesLog, AckCoversLog, NoBatch
<1>4. QED  BY <1>1, <1>2, <1>3 DEF IInv, Linked

\* The log has a length, and its entries are entries.
LEMMA LogTyped ==
    ASSUME TypeOK
    PROVE  /\ Len(log) \in Nat
           /\ \A i \in 1..Len(log) : log[i] \in Entry
BY ElementOfSeq, LenProperties DEF TypeOK

\* What the first await sees, whatever ran since the fetch: everything before
\* expected_seq_nr is archived, and expected_seq_nr is the next log position.
LEMMA ExpectedIsNext ==
    ASSUME IInv, NEW p \in Polls, DOMAIN batch[p] # {}
    PROVE  /\ ExpectedSeq(Min(DOMAIN batch[p])) = Len(log)
           /\ Max(DOMAIN batch[p]) \in DOMAIN batch[p]
           /\ Max(DOMAIN batch[p]) \in Nat
           /\ \A s \in DOMAIN batch[p] : s <= Max(DOMAIN batch[p])
           /\ {s \in DOMAIN batch[p] : s >= Len(log)} =
                  Len(log)..Max(DOMAIN batch[p])
<1> DEFINE E == DOMAIN batch[p]
<1>1. /\ Len(log) \in Nat /\ nextSeq \in Nat
      /\ BatchContinuesLog(p) /\ HighestIsLast
  BY LogTyped DEF IInv, Linked, TypeOK
<1>2. E \subseteq Nat /\ E # {} /\ nextSeq - 1 \in Int
  BY <1>1 DEF BatchContinuesLog
<1>3. Min(E) \in E /\ \A s \in E : Min(E) <= s
  BY <1>2, MinNat
<1>4. Max(E) \in E /\ \A s \in E : s <= Max(E)
  <2>1. \A n \in Int : E \subseteq 0..n => Max(E) \in E /\ \A s \in E : s <= Max(E)
    BY <1>2, MaxNat
  <2>2. E \subseteq 0..(nextSeq - 1)
    BY <1>1 DEF BatchContinuesLog
  <2>3. QED  BY <1>2, <2>1, <2>2
<1>5. PICK s0 \in E : s0 <= Len(log)
  BY <1>1 DEF BatchContinuesLog
<1>6. Min(E) \in Nat /\ Max(E) \in Nat /\ s0 \in Nat /\ Min(E) <= Len(log)
  BY <1>1, <1>2, <1>3, <1>4, <1>5
<1>7. ExpectedSeq(Min(E)) = Len(log)
  BY <1>1, <1>6 DEF ExpectedSeq, HighestIsLast, None
<1>8. {s \in E : s >= Len(log)} = Len(log)..Max(E)
  <2>1. ASSUME NEW u \in Len(log)..Max(E) PROVE u \in E
    <3>1. u \in Min(E)..Max(E)
      BY <1>1, <1>6
    <3>2. QED  BY <1>1, <1>3, <1>4, <3>1 DEF BatchContinuesLog
  <2>2. ASSUME NEW u \in E, u >= Len(log) PROVE u \in Len(log)..Max(E)
    BY <1>1, <1>2, <1>4, <1>6, <2>2
  <2>3. QED  BY <1>1, <1>6, <2>1, <2>2
<1>9. QED  BY <1>4, <1>6, <1>7, <1>8

\* A function on 1..n is a sequence of length n.
LEMMA FunctionIsSeq ==
    ASSUME NEW T, NEW n \in Nat, NEW f \in [1..n -> T]
    PROVE  f \in Seq(T) /\ Len(f) = n
<1>1. f \in Seq(T)
  BY SeqDef
<1>2. Len(f) \in Nat /\ DOMAIN f = 1..Len(f)
  BY <1>1, LenProperties
<1>3. QED  BY <1>1, <1>2

\* What ProcessBatch appends when the batch brings something new.
LEMMA WriteAppends ==
    ASSUME IInv, NEW p \in Polls, DOMAIN batch[p] # {}, NEW hi,
           hi = Max(DOMAIN batch[p]), hi >= Len(log),
           WriteEntries(batch[p], {s \in DOMAIN batch[p] : s >= Len(log)})
    PROVE  /\ log' \in Seq(Entry)
           /\ Len(log') = hi + 1
           /\ \A i \in 1..Len(log) : log'[i] = log[i]
           /\ \A i \in (Len(log) + 1)..(hi + 1) :
                 log'[i] = [seq |-> i - 1, anchor |-> batch[p][i - 1]]
           /\ index' \subseteq Anchors \X Nat
<1> DEFINE S == Len(log)..hi
           new == [i \in 1..Cardinality(S) |->
                     [seq |-> InOrder(S)[i], anchor |-> batch[p][InOrder(S)[i]]]]
           k == hi - Len(log) + 1
<1>1. /\ Len(log) \in Nat /\ hi \in Nat
      /\ {s \in DOMAIN batch[p] : s >= Len(log)} = S
  BY LogTyped, ExpectedIsNext DEF IInv
<1>2. log' = log \o new
  BY <1>1 DEF WriteEntries
<1>3. /\ Cardinality(S) = k
      /\ \A i \in 1..k : InOrder(S)[i] = Len(log) + i - 1
  <2>1. Len(log) \in Int /\ hi \in Int /\ Len(log) <= hi + 1
    BY <1>1
  <2>2. QED  BY <2>1, InOrderInterval
<1>4. /\ S \subseteq DOMAIN batch[p]
      /\ \A s \in S : s \in Nat /\ batch[p][s] \in Anchors
  BY <1>1 DEF IInv, Linked, TypeOK
<1>5. ASSUME NEW i \in 1..k
      PROVE  /\ new[i] = [seq |-> Len(log) + i - 1,
                          anchor |-> batch[p][Len(log) + i - 1]]
             /\ new[i] \in Entry
  <2>1. Len(log) + i - 1 \in S
    BY <1>1
  <2>2. new[i] = [seq |-> Len(log) + i - 1, anchor |-> batch[p][Len(log) + i - 1]]
    BY <1>3
  <2>3. QED  BY <2>1, <2>2, <1>4 DEF Entry
<1>6. new \in Seq(Entry) /\ Len(new) = k
  <2>1. k \in Nat /\ DOMAIN new = 1..k
    BY <1>1, <1>3
  <2>2. new \in [1..k -> Entry]
    BY <2>1, <1>5
  <2> HIDE DEF new, k
  <2>3. QED  BY <2>1, <2>2, FunctionIsSeq
<1>7. log \in Seq(Entry)
  BY DEF IInv, Linked, TypeOK
<1>8. /\ log' \in Seq(Entry)
      /\ Len(log') = Len(log) + k
      /\ \A i \in 1..(Len(log) + k) :
            log'[i] = IF i <= Len(log) THEN log[i] ELSE new[i - Len(log)]
  <2> HIDE DEF new, k
  <2>1. QED  BY <1>2, <1>6, <1>7, ConcatProperties
<1>9. ASSUME NEW i \in (Len(log) + 1)..(hi + 1)
      PROVE  log'[i] = [seq |-> i - 1, anchor |-> batch[p][i - 1]]
  <2>1. i - Len(log) \in 1..k /\ Len(log) + (i - Len(log)) - 1 = i - 1
    BY <1>1
  <2>2. log'[i] = new[i - Len(log)]
    BY <1>1, <1>8
  <2>3. QED  BY <2>1, <2>2, <1>5
<1>10. index' \subseteq Anchors \X Nat
  <2>1. index' = index \cup {<<batch[p][InOrder(S)[i]], Len(log) + i - 1>> :
                                i \in 1..Cardinality(S)}
    BY <1>1 DEF WriteEntries
  <2>2. ASSUME NEW i \in 1..Cardinality(S)
        PROVE  <<batch[p][InOrder(S)[i]], Len(log) + i - 1>> \in Anchors \X Nat
    <3>1. InOrder(S)[i] \in S /\ Len(log) + i - 1 \in Nat
      BY <1>1, <1>3
    <3>2. QED  BY <3>1, <1>4
  <2>3. index \subseteq Anchors \X Nat
    BY DEF IInv, Linked, TypeOK
  <2> HIDE DEF S
  <2>4. QED  BY ONLY <2>1, <2>2, <2>3
<1>11. Len(log') = hi + 1
  BY <1>1, <1>8
<1>12. \A i \in 1..Len(log) : log'[i] = log[i]
  <2> HIDE DEF new
  <2>1. QED  BY <1>1, <1>8
<1> HIDE DEF new, S, k
<1>13. QED  BY <1>8, <1>9, <1>10, <1>11, <1>12

-----------------------------------------------------------------------------
(***************************************************************************)
(* Every step preserves the invariant.                                     *)
(***************************************************************************)

\* A step that moves no entry: batches stay or are dropped, and no
\* acknowledgement is sent.
LEMMA QuietStep ==
    ASSUME Linked,
           UNCHANGED <<nextSeq, buffer, log, highest>>,
           \A q \in Polls : batch'[q] = batch[q] \/ batch'[q] = NoBatch,
           \A q \in Polls : pc'[q] = "acking" =>
                                pc[q] = "acking" /\ batch'[q] = batch[q]
    PROVE  Linked'
<1>1. GapFreeLog' /\ HighestIsLast' /\ BufferContinuesLog'
  BY DEF Linked, GapFreeLog, HighestIsLast, BufferContinuesLog
<1>2. ASSUME NEW q \in Polls PROVE BatchContinuesLog(q)' /\ AckCoversLog(q)'
  <2>1. CASE batch'[q] = batch[q]
    BY <2>1 DEF Linked, BatchContinuesLog, AckCoversLog
  <2>2. CASE batch'[q] = NoBatch
    <3>1. DOMAIN batch'[q] = {}
      BY <2>2 DEF NoBatch
    <3>2. BatchContinuesLog(q)'
      BY <3>1 DEF BatchContinuesLog
    <3>3. AckCoversLog(q)'
      BY DEF Linked, AckCoversLog
    <3>4. QED  BY <3>2, <3>3
  <2>3. QED  BY <2>1, <2>2
<1>3. QED  BY <1>1, <1>2 DEF Linked

\* The end of an execution: its locals are gone.
LEMMA FinishTyped ==
    ASSUME TypeOK, NEW p \in Polls, Finish(p)
    PROVE  /\ pc' \in [Polls -> PollStates]
           /\ alive' \in [Polls -> BOOLEAN]
           /\ DOMAIN batch' = Polls
           /\ \A q \in Polls : batch'[q] = batch[q] \/ batch'[q] = NoBatch
           /\ \A q \in Polls : pc'[q] = "acking" =>
                                   pc[q] = "acking" /\ batch'[q] = batch[q]
           /\ \A q \in Polls :
                 /\ DOMAIN batch'[q] \subseteq Nat
                 /\ \A s \in DOMAIN batch'[q] : batch'[q][s] \in Anchors
<1>1. \A q \in Polls : batch'[q] = IF q = p THEN NoBatch ELSE batch[q]
  BY DEF TypeOK, Finish
<1>2. DOMAIN NoBatch = {}
  BY DEF NoBatch
<1>3. \A q \in Polls : pc'[q] = IF q = p THEN "idle" ELSE pc[q]
  BY DEF TypeOK, Finish
<1>4. \A q \in Polls :
         /\ DOMAIN batch'[q] \subseteq Nat
         /\ \A s \in DOMAIN batch'[q] : batch'[q][s] \in Anchors
  BY <1>1, <1>2 DEF TypeOK
<1>5. /\ pc' \in [Polls -> PollStates]
      /\ alive' \in [Polls -> BOOLEAN]
      /\ DOMAIN batch' = Polls
  BY DEF TypeOK, Finish, PollStates
<1>6. QED  BY <1>1, <1>3, <1>4, <1>5

LEMMA ArchiveOperationStep ==
    ASSUME IInv, NEW a \in Anchors, ArchiveOperation(a)
    PROVE  IInv'
<1>1. /\ nextSeq \in Nat /\ Len(log) \in Nat
      /\ nextSeq' = nextSeq + 1
      /\ DOMAIN buffer' = DOMAIN buffer \cup {nextSeq}
      /\ buffer'[nextSeq] = a
      /\ UNCHANGED <<log, highest, index, callErrors, lastFetch, pc, alive,
                     batch, config, upgrades>>
  BY LogTyped DEF IInv, TypeOK, ArchiveOperation, stableVars, infoVars, pollVars
<1>2. /\ Len(log) <= nextSeq
      /\ DOMAIN buffer \subseteq 0..(nextSeq - 1)
      /\ \A s \in DOMAIN buffer : buffer'[s] = buffer[s]
  BY <1>1 DEF IInv, Linked, BufferContinuesLog, ArchiveOperation
<1>3. TypeOK'
  <2>1. written' \in [Anchors -> Nat]
    BY DEF IInv, TypeOK, ArchiveOperation
  <2>2. DOMAIN buffer' \subseteq Nat
    BY <1>1 DEF IInv, TypeOK
  <2>3. \A s \in DOMAIN buffer' : buffer'[s] \in Anchors
    BY <1>1, <1>2 DEF IInv, TypeOK
  <2>4. QED  BY <1>1, <2>1, <2>2, <2>3 DEF IInv, TypeOK
<1>4. BufferContinuesLog'
  <2>1. ASSUME NEW s \in DOMAIN buffer' PROVE s \in 0..nextSeq
    BY <1>1, <1>2
  <2>2. ASSUME NEW s \in Len(log)..nextSeq PROVE s \in DOMAIN buffer'
    BY <1>1 DEF IInv, Linked, BufferContinuesLog
  <2>3. ASSUME NEW s \in DOMAIN buffer', NEW t \in s..nextSeq
        PROVE  t \in DOMAIN buffer'
    BY <1>1, <1>2 DEF IInv, Linked, BufferContinuesLog
  <2>4. ASSUME NEW s \in DOMAIN buffer', s < Len(log)
        PROVE  log[s + 1].anchor = buffer'[s]
    BY <1>1, <1>2, <2>4 DEF IInv, Linked, BufferContinuesLog
  <2>5. nextSeq' - 1 = nextSeq /\ Len(log') <= nextSeq'
    BY <1>1, <1>2
  <2>6. QED  BY <1>1, <2>1, <2>2, <2>3, <2>4, <2>5 DEF BufferContinuesLog
<1>5. ASSUME NEW q \in Polls PROVE BatchContinuesLog(q)' /\ AckCoversLog(q)'
  <2>1. /\ BatchContinuesLog(q) /\ AckCoversLog(q)
        /\ DOMAIN batch[q] \subseteq 0..(nextSeq' - 1)
    BY <1>1 DEF IInv, Linked, BatchContinuesLog
  <2>2. \A s \in DOMAIN batch[q] : s >= Len(log) =>
            s \in DOMAIN buffer' /\ batch[q][s] = buffer'[s]
    BY <1>1, <1>2, <2>1 DEF BatchContinuesLog
  <2>3. QED  BY <1>1, <2>1, <2>2 DEF BatchContinuesLog, AckCoversLog
<1>6. GapFreeLog' /\ HighestIsLast'
  BY <1>1 DEF IInv, Linked, GapFreeLog, HighestIsLast
<1>7. QED  BY <1>3, <1>4, <1>5, <1>6 DEF IInv, Linked

\* fetch_entries hands out a prefix of the buffer, and the buffer continues
\* the log, so the batch does.
LEMMA FetchEntriesStep ==
    ASSUME IInv, NEW p \in Polls, FetchEntries(p)
    PROVE  IInv'
<1> DEFINE F == FirstOf(DOMAIN buffer, config.fetchLimit)
<1>1. /\ nextSeq \in Nat /\ Len(log) \in Nat /\ config.fetchLimit \in Nat
      /\ BufferContinuesLog
      /\ UNCHANGED <<config, nextSeq, buffer, written, log, index, highest,
                     callErrors, lastFetch, alive, upgrades>>
  BY LogTyped, ConfigsAssumption
     DEF IInv, Linked, TypeOK, FetchEntries, iiVars, stableVars, infoVars
<1>2. F \subseteq DOMAIN buffer /\ DOMAIN buffer \subseteq 0..(nextSeq - 1)
  BY <1>1 DEF FirstOf, BufferContinuesLog
<1>3. ASSUME NEW s \in F, NEW t \in DOMAIN buffer, t <= s PROVE t \in F
  <2>1. DOMAIN buffer \subseteq 0..nextSeq
    BY <1>1, <1>2
  <2>2. s \in Int /\ t \in Int
    BY <1>1, <1>2
  <2>3. CASE t < s
    BY <1>1, <2>1, <2>3, FirstOfIsPrefix
  <2>4. QED  BY <1>3, <2>2, <2>3
<1>4. \A q \in Polls : batch'[q] = IF q = p THEN Restrict(buffer, F) ELSE batch[q]
  BY DEF FetchEntries, IInv, TypeOK
<1>5. /\ DOMAIN Restrict(buffer, F) = F
      /\ \A s \in F : Restrict(buffer, F)[s] = buffer[s]
  BY DEF Restrict
<1>6. pc' \in [Polls -> PollStates] /\ \A q \in Polls : pc'[q] = "acking" =>
          q # p /\ pc[q] = "acking"
  BY DEF FetchEntries, IInv, TypeOK, PollStates
<1> HIDE DEF F
<1>7. TypeOK'
  <2>1. DOMAIN batch' = Polls
    BY DEF FetchEntries, IInv, TypeOK
  <2>2. \A q \in Polls : /\ DOMAIN batch'[q] \subseteq Nat
                         /\ \A s \in DOMAIN batch'[q] : batch'[q][s] \in Anchors
    BY <1>2, <1>4, <1>5 DEF IInv, TypeOK
  <2>3. QED  BY <1>1, <1>6, <2>1, <2>2 DEF IInv, TypeOK
<1>8. BatchContinuesLog(p)'
  <2>1. batch'[p] = Restrict(buffer, F) /\ DOMAIN batch'[p] = F
    BY <1>4, <1>5
  <2>2. F \subseteq 0..(nextSeq - 1)
    BY <1>2
  <2>3. ASSUME NEW s \in F, NEW t \in F, NEW u \in s..t PROVE u \in F
    <3>1. s \in Int /\ t \in Int /\ u \in s..(nextSeq - 1)
      BY <1>1, <2>2
    <3>2. u \in DOMAIN buffer
      BY <1>1, <1>2, <3>1 DEF BufferContinuesLog
    <3>3. QED  BY <1>3, <3>1, <3>2
  <2>4. ASSUME NEW s \in F PROVE \E u \in F : u <= Len(log)
    <3>1. s \in 0..(nextSeq - 1)
      BY <2>2
    <3>2. CASE s <= Len(log)
      BY <3>2
    <3>3. CASE s > Len(log)
      <4>1. Len(log) \in DOMAIN buffer
        BY <1>1, <3>1, <3>3 DEF BufferContinuesLog
      <4>2. Len(log) \in F
        BY <1>1, <1>3, <3>1, <3>3, <4>1
      <4>3. QED  BY <1>1, <4>2
    <3>4. QED  BY <1>1, <3>1, <3>2, <3>3
  <2>5. ASSUME NEW s \in F
        PROVE  /\ s < Len(log) => Restrict(buffer, F)[s] = log[s + 1].anchor
               /\ s \in DOMAIN buffer
    BY <1>1, <1>2, <1>5 DEF BufferContinuesLog
  <2>6. QED  BY <1>1, <1>5, <2>1, <2>2, <2>3, <2>4, <2>5 DEF BatchContinuesLog
<1>9. ASSUME NEW q \in Polls PROVE BatchContinuesLog(q)' /\ AckCoversLog(q)'
  <2>1. CASE q = p
    BY <1>6, <1>8, <2>1 DEF AckCoversLog
  <2>2. CASE q # p
    <3>1. batch'[q] = batch[q] /\ BatchContinuesLog(q) /\ AckCoversLog(q)
      BY <1>4, <2>2 DEF IInv, Linked
    <3>2. QED  BY <1>1, <1>6, <3>1 DEF BatchContinuesLog, AckCoversLog
  <2>3. QED  BY <2>1, <2>2
<1>10. GapFreeLog' /\ HighestIsLast' /\ BufferContinuesLog'
  BY <1>1 DEF IInv, Linked, GapFreeLog, HighestIsLast, BufferContinuesLog
<1>11. QED  BY <1>7, <1>9, <1>10 DEF IInv, Linked

\* acknowledge_entries prunes only entries that are in the log.
LEMMA AcknowledgeEntriesStep ==
    ASSUME IInv, NEW p \in Polls, AcknowledgeEntries(p)
    PROVE  IInv'
<1> DEFINE hi == Max(DOMAIN batch[p])
           keep == DOMAIN buffer \ Pruned(hi)
<1>1. /\ nextSeq \in Nat /\ Len(log) \in Nat
      /\ BufferContinuesLog
      /\ UNCHANGED <<config, nextSeq, written, log, index, highest,
                     callErrors, lastFetch, alive, batch, upgrades>>
  BY LogTyped
     DEF IInv, Linked, TypeOK, AcknowledgeEntries, stableVars, infoVars
<1>2. hi \in Nat /\ hi < Len(log)
  <2>1. DOMAIN batch[p] # {} /\ \A s \in DOMAIN batch[p] : s < Len(log)
    BY DEF IInv, Linked, AckCoversLog, AcknowledgeEntries
  <2>2. hi \in DOMAIN batch[p] /\ hi \in Nat
    BY <2>1, ExpectedIsNext
  <2>3. QED  BY <2>1, <2>2
<1>3. DOMAIN buffer \subseteq Int
  BY <1>1 DEF BufferContinuesLog
<1> HIDE DEF hi
<1>4. keep = {s \in DOMAIN buffer : s > hi}
  BY <1>2, <1>3 DEF Pruned
<1>5. /\ DOMAIN buffer' = keep
      /\ \A s \in keep : buffer'[s] = buffer[s]
  BY DEF AcknowledgeEntries, Restrict, hi
<1> HIDE DEF keep
<1>6. pc' \in [Polls -> PollStates] /\ \A q \in Polls : pc'[q] = "acking" =>
          pc[q] = "acking"
  BY DEF AcknowledgeEntries, IInv, TypeOK, PollStates
<1>7. TypeOK'
  BY <1>1, <1>4, <1>5, <1>6 DEF IInv, TypeOK
<1>8. BufferContinuesLog'
  <2>1. keep \subseteq DOMAIN buffer
    BY <1>4
  <2>2. ASSUME NEW s \in Len(log)..(nextSeq - 1) PROVE s \in keep
    BY <1>1, <1>2, <1>4 DEF BufferContinuesLog
  <2>3. ASSUME NEW s \in keep, NEW t \in s..(nextSeq - 1) PROVE t \in keep
    BY <1>1, <1>2, <1>3, <1>4 DEF BufferContinuesLog
  <2>4. QED  BY <1>1, <1>5, <2>1, <2>2, <2>3 DEF BufferContinuesLog
<1>9. ASSUME NEW q \in Polls PROVE BatchContinuesLog(q)' /\ AckCoversLog(q)'
  <2>1. BatchContinuesLog(q) /\ AckCoversLog(q)
    BY DEF IInv, Linked
  <2>2. ASSUME NEW s \in DOMAIN batch[q], s >= Len(log)
        PROVE  s \in DOMAIN buffer' /\ batch[q][s] = buffer'[s]
    <3>1. s \in DOMAIN buffer /\ batch[q][s] = buffer[s] /\ s > hi
      BY <1>1, <1>2, <1>3, <2>1, <2>2 DEF BatchContinuesLog
    <3>2. QED  BY <1>4, <1>5, <3>1
  <2>3. QED  BY <1>1, <1>6, <2>1, <2>2 DEF BatchContinuesLog, AckCoversLog
<1>10. GapFreeLog' /\ HighestIsLast'
  BY <1>1 DEF IInv, Linked, GapFreeLog, HighestIsLast
<1>11. QED  BY <1>7, <1>8, <1>9, <1>10 DEF IInv, Linked

\* Archiving a batch that brings something new: the log grows to the end of
\* the batch, and what it gains is what the buffer holds for these numbers.
LEMMA ProcessNewBatchStep ==
    ASSUME IInv, NEW p \in Polls, ProcessBatch(p),
           Max(DOMAIN batch[p]) >= ExpectedSeq(Min(DOMAIN batch[p]))
    PROVE  IInv'
<1> DEFINE E == DOMAIN batch[p]
           hi == Max(E)
<1>1. /\ nextSeq \in Nat /\ Len(log) \in Nat
      /\ E # {} /\ BatchContinuesLog(p) /\ BufferContinuesLog
      /\ UNCHANGED <<config, nextSeq, buffer, written, callErrors, lastFetch,
                     alive, batch, upgrades>>
  BY LogTyped
     DEF IInv, Linked, TypeOK, ProcessBatch, iiVars, infoVars
<1>2. /\ hi \in Nat /\ hi \in E /\ hi >= Len(log)
      /\ \A s \in E : s <= hi
      /\ {s \in E : s >= Len(log)} = Len(log)..hi
      /\ ExpectedSeq(Min(E)) = Len(log)
  BY <1>1, ExpectedIsNext
<1>3. /\ WriteEntries(batch[p], {s \in E : s >= Len(log)})
      /\ highest' = hi
  <2>1. ~(hi < ExpectedSeq(Min(E)))
    BY <1>1, <1>2
  <2>2. /\ WriteEntries(batch[p], {s \in E : s >= ExpectedSeq(Min(E))})
        /\ highest' = hi
    BY <2>1, Zenon DEF ProcessBatch
  <2>3. {s \in E : s >= ExpectedSeq(Min(E))} = {s \in E : s >= Len(log)}
    BY <1>2
  <2>4. QED  BY <2>2, <2>3, Zenon
<1>4. /\ log' \in Seq(Entry)
      /\ Len(log') = hi + 1
      /\ \A i \in 1..Len(log) : log'[i] = log[i]
      /\ \A i \in (Len(log) + 1)..(hi + 1) :
            log'[i] = [seq |-> i - 1, anchor |-> batch[p][i - 1]]
      /\ index' \subseteq Anchors \X Nat
  BY <1>1, <1>2, <1>3, WriteAppends
<1>5. /\ pc' \in [Polls -> PollStates]
      /\ \A q \in Polls : q # p => pc'[q] = pc[q]
  BY DEF ProcessBatch, IInv, TypeOK, PollStates
<1>6. hi <= nextSeq - 1 /\ E \subseteq Nat
  BY <1>1, <1>2 DEF BatchContinuesLog
<1> HIDE DEF hi
<1>7. TypeOK'
  BY <1>1, <1>2, <1>3, <1>4, <1>5 DEF IInv, TypeOK
<1>8. \* Below Len(log'), the new log agrees with the buffer.
      ASSUME NEW s \in DOMAIN buffer, s <= hi PROVE log'[s + 1].anchor = buffer[s]
  <2>1. s \in Nat
    BY <1>1 DEF BufferContinuesLog
  <2>2. CASE s < Len(log)
    BY <1>1, <1>4, <2>1, <2>2 DEF BufferContinuesLog
  <2>3. CASE s >= Len(log)
    <3>1. s \in E
      BY <1>1, <1>2, <1>8, <2>1, <2>3
    <3>2. batch[p][s] = buffer[s]
      BY <1>1, <2>3, <3>1 DEF BatchContinuesLog
    <3>3. log'[s + 1] = [seq |-> s, anchor |-> batch[p][s]]
      BY <1>1, <1>2, <1>4, <1>8, <2>1, <2>3
    <3>4. QED  BY <3>2, <3>3
  <2>4. QED  BY <1>1, <2>1, <2>2, <2>3
<1>9. BufferContinuesLog'
  <2>1. \A s \in DOMAIN buffer : s \in Nat
    BY <1>1 DEF BufferContinuesLog
  <2>2. ASSUME NEW s \in DOMAIN buffer, s < Len(log') PROVE log'[s + 1].anchor = buffer[s]
    BY <1>2, <1>4, <1>8, <2>1, <2>2
  <2>3. ASSUME NEW s \in Len(log')..(nextSeq - 1) PROVE s \in DOMAIN buffer
    BY <1>1, <1>2, <1>4 DEF BufferContinuesLog
  <2>4. Len(log') <= nextSeq
    BY <1>1, <1>2, <1>4, <1>6
  <2>5. QED  BY <1>1, <2>2, <2>3, <2>4 DEF BufferContinuesLog
<1>10. ASSUME NEW q \in Polls PROVE BatchContinuesLog(q)'
  <2>1. BatchContinuesLog(q) /\ DOMAIN batch[q] \subseteq Nat
    BY <1>1 DEF IInv, Linked, BatchContinuesLog
  <2>2. ASSUME NEW s \in DOMAIN batch[q], s < Len(log')
        PROVE  batch[q][s] = log'[s + 1].anchor
    <3>1. s \in Nat /\ s <= hi
      BY <1>2, <1>4, <2>1, <2>2
    <3>2. CASE s < Len(log)
      BY <1>1, <1>4, <2>1, <3>1, <3>2 DEF BatchContinuesLog
    <3>3. CASE s >= Len(log)
      <4>1. s \in DOMAIN buffer /\ batch[q][s] = buffer[s]
        BY <2>1, <3>3 DEF BatchContinuesLog
      <4>2. QED  BY <1>8, <3>1, <4>1
    <3>4. QED  BY <1>1, <3>1, <3>2, <3>3
  <2>3. ASSUME NEW s \in DOMAIN batch[q], s >= Len(log')
        PROVE  s \in DOMAIN buffer /\ batch[q][s] = buffer[s]
    <3>1. s \in Nat /\ s >= Len(log)
      BY <1>1, <1>2, <1>4, <2>1, <2>3
    <3>2. QED  BY <2>1, <3>1 DEF BatchContinuesLog
  <2>4. ASSUME NEW s \in DOMAIN batch[q], s <= Len(log) PROVE s <= Len(log')
    BY <1>1, <1>2, <1>4, <2>1, <2>4
  <2>5. QED  BY <1>1, <2>1, <2>2, <2>3, <2>4 DEF BatchContinuesLog
<1>11. ASSUME NEW q \in Polls PROVE AckCoversLog(q)'
  <2>1. CASE q = p
    <3>1. \A s \in E : s < Len(log')
      BY <1>2, <1>4, <1>6
    <3>2. QED  BY <1>1, <2>1, <3>1 DEF AckCoversLog
  <2>2. CASE q # p
    <3>1. AckCoversLog(q) /\ pc'[q] = pc[q] /\ DOMAIN batch[q] \subseteq Nat
      BY <1>5, <2>2 DEF IInv, Linked, TypeOK
    <3>2. ASSUME NEW s \in DOMAIN batch[q], s < Len(log) PROVE s < Len(log')
      BY <1>1, <1>2, <1>4, <3>1, <3>2
    <3>3. QED  BY <1>1, <3>1, <3>2 DEF AckCoversLog
  <2>3. QED  BY <2>1, <2>2
<1>12. GapFreeLog'
  <2>1. ASSUME NEW i \in 1..(hi + 1) PROVE log'[i].seq = i - 1
    <3>1. CASE i <= Len(log)
      BY <1>1, <1>4, <3>1 DEF IInv, Linked, GapFreeLog
    <3>2. CASE i > Len(log)
      <4>1. i \in (Len(log) + 1)..(hi + 1)
        BY <1>1, <1>2, <3>2
      <4>2. log'[i] = [seq |-> i - 1, anchor |-> batch[p][i - 1]]
        BY <1>4, <4>1
      <4>3. QED  BY <4>2
    <3>3. QED  BY <1>1, <3>1, <3>2
  <2>2. QED  BY <1>4, <2>1 DEF GapFreeLog
<1>13. HighestIsLast'
  BY <1>2, <1>3, <1>4 DEF HighestIsLast
<1>14. QED  BY <1>7, <1>9, <1>10, <1>11, <1>12, <1>13 DEF IInv, Linked

\* A batch that has been archived meanwhile is acknowledged all the same.
LEMMA ProcessOldBatchStep ==
    ASSUME IInv, NEW p \in Polls, ProcessBatch(p),
           Max(DOMAIN batch[p]) < ExpectedSeq(Min(DOMAIN batch[p]))
    PROVE  IInv'
<1> DEFINE E == DOMAIN batch[p]
<1>1. /\ Len(log) \in Nat /\ E # {} /\ E \subseteq Nat
      /\ Max(E) \in Nat
      /\ \A s \in E : s <= Max(E)
      /\ Max(E) < Len(log)
  BY LogTyped, ExpectedIsNext DEF IInv, TypeOK, ProcessBatch
<1>2. UNCHANGED <<config, nextSeq, buffer, written, callErrors, lastFetch,
                  alive, batch, upgrades, log, index, highest>>
  BY <1>1, ExpectedIsNext DEF ProcessBatch, iiVars, infoVars, stableVars
<1>3. /\ pc' \in [Polls -> PollStates]
      /\ \A q \in Polls : q # p => pc'[q] = pc[q]
  BY DEF ProcessBatch, IInv, TypeOK, PollStates
<1>4. TypeOK'
  BY <1>2, <1>3 DEF IInv, TypeOK
<1>5. GapFreeLog' /\ HighestIsLast' /\ BufferContinuesLog'
  BY <1>2 DEF IInv, Linked, GapFreeLog, HighestIsLast, BufferContinuesLog
<1>6. ASSUME NEW q \in Polls PROVE BatchContinuesLog(q)' /\ AckCoversLog(q)'
  <2>1. \A s \in E : s < Len(log)
    BY <1>1
  <2>2. BatchContinuesLog(q) /\ AckCoversLog(q)
    BY DEF IInv, Linked
  <2>3. BatchContinuesLog(q)'
    BY <1>2, <2>2 DEF BatchContinuesLog
  <2>4. AckCoversLog(q)'
    BY <1>1, <1>2, <1>3, <2>1, <2>2 DEF AckCoversLog
  <2>5. QED  BY <2>3, <2>4
<1>7. QED  BY <1>4, <1>5, <1>6 DEF IInv, Linked

\* StoreCallError keeps a list of at most ErrorLimit methods.
LEMMA StoreCallErrorTyped ==
    ASSUME TypeOK, NEW m \in {"fetch_entries", "acknowledge_entries"},
           StoreCallError(m)
    PROVE  /\ callErrors' \in Seq({"fetch_entries", "acknowledge_entries"})
           /\ Len(callErrors') <= ErrorLimit
<1> DEFINE M == {"fetch_entries", "acknowledge_entries"}
           rest == IF Len(callErrors) >= ErrorLimit
                   THEN Tail(callErrors) ELSE callErrors
<1>1. /\ callErrors \in Seq(M) /\ Len(callErrors) \in Nat
      /\ Len(callErrors) <= ErrorLimit /\ ErrorLimit \in Nat \ {0}
  BY BoundsAssumption, LenProperties DEF TypeOK
<1>2. rest \in Seq(M) /\ Len(rest) \in Nat /\ Len(rest) + 1 <= ErrorLimit
  <2>1. CASE Len(callErrors) >= ErrorLimit
    <3>1. callErrors # <<>>
      BY <1>1, <2>1, EmptySeq
    <3>2. Tail(callErrors) \in Seq(M) /\ Len(Tail(callErrors)) = Len(callErrors) - 1
      BY <1>1, <3>1, HeadTailProperties
    <3>3. QED  BY <1>1, <2>1, <3>2
  <2>2. CASE ~(Len(callErrors) >= ErrorLimit)
    BY <1>1, <2>2
  <2>3. QED  BY <2>1, <2>2
<1>3. callErrors' = Append(rest, m)
  BY DEF StoreCallError
<1> HIDE DEF rest
<1>4. QED  BY <1>2, <1>3, AppendProperties

\* A batch is finite, so its size is a number.
LEMMA BatchIsFinite ==
    ASSUME IInv, NEW p \in Polls
    PROVE  Cardinality(DOMAIN batch[p]) \in Nat
<1>1. nextSeq - 1 \in Int /\ DOMAIN batch[p] \subseteq 0..(nextSeq - 1)
  BY DEF IInv, Linked, TypeOK, BatchContinuesLog
<1>2. \A n \in Int : IsFiniteSet(0..n)
  BY FS_Interval
<1>3. IsFiniteSet(0..(nextSeq - 1))
  BY <1>1, <1>2
<1>4. QED  BY <1>1, <1>3, FS_Subset, FS_CardinalityType

\* An execution that ends, whatever it recorded about itself.
LEMMA FinishStep ==
    ASSUME IInv, NEW p \in Polls, Finish(p),
           UNCHANGED <<iiVars, stableVars, upgrades>>,
           callErrors' \in Seq({"fetch_entries", "acknowledge_entries"}),
           Len(callErrors') <= ErrorLimit,
           lastFetch' \in Nat \cup {None}
    PROVE  IInv'
<1>1. UNCHANGED <<config, nextSeq, buffer, written, log, index, highest, upgrades>>
  BY DEF iiVars, stableVars
<1>2. TypeOK'
  BY <1>1, FinishTyped DEF IInv, TypeOK
<1>3. Linked'
  BY <1>1, FinishTyped, QuietStep DEF IInv
<1>4. QED  BY <1>2, <1>3 DEF IInv

\* A call leaves (StartPoll) or comes back rejected.
LEMMA CallStep ==
    ASSUME IInv, NEW p \in Polls, StartPoll(p) \/ RejectCall(p)
    PROVE  IInv'
<1>1. UNCHANGED <<config, nextSeq, buffer, written, log, index, highest,
                  callErrors, lastFetch, alive, batch, upgrades>>
  BY DEF StartPoll, RejectCall, iiVars, stableVars, infoVars
<1>2. pc' \in [Polls -> PollStates] /\ \A q \in Polls : pc'[q] = "acking" =>
          pc[q] = "acking"
  BY DEF StartPoll, RejectCall, IInv, TypeOK, PollStates
<1>3. TypeOK'
  BY <1>1, <1>2 DEF IInv, TypeOK
<1>4. Linked'
  BY <1>1, <1>2, QuietStep DEF IInv
<1>5. QED  BY <1>3, <1>4 DEF IInv

\* An upgrade of either canister.
LEMMA UpgradeStep ==
    ASSUME IInv, UpgradeArchive \/ \E c \in Configs : UpdateArchiveConfig(c)
    PROVE  IInv'
<1>1. UNCHANGED <<nextSeq, buffer, written, log, index, highest, pc, batch>>
  BY DEF UpgradeArchive, UpdateArchiveConfig, KeepStableMemory, iiVars,
         stableVars, infoVars, pollVars
<1>2. TypeOK'
  <2>1. CASE UpgradeArchive
    <3>1. alive' \in [Polls -> BOOLEAN] /\ config' = config
      BY <2>1 DEF UpgradeArchive, iiVars
    <3>2. upgrades' \in 0..MaxUpgrades
      BY <2>1, BoundsAssumption DEF UpgradeArchive, IInv, TypeOK
    <3>3. callErrors' = <<>> /\ lastFetch' = None
      BY <2>1 DEF UpgradeArchive
    <3>4. callErrors' \in Seq({"fetch_entries", "acknowledge_entries"})
          /\ Len(callErrors') <= ErrorLimit
      BY <3>3, EmptySeq, BoundsAssumption
    <3>5. QED  BY <1>1, <3>1, <3>2, <3>3, <3>4 DEF IInv, TypeOK
  <2>2. CASE \E c \in Configs : UpdateArchiveConfig(c)
    BY <1>1, <2>2 DEF UpdateArchiveConfig, IInv, TypeOK, infoVars, pollVars
  <2>3. QED  BY <2>1, <2>2
<1>3. Linked'
  BY <1>1, QuietStep DEF IInv
<1>4. QED  BY <1>2, <1>3 DEF IInv

LEMMA NextPreservesIInv == IInv /\ [Next]_vars => IInv'
<1> SUFFICES ASSUME IInv, [Next]_vars PROVE IInv'
  OBVIOUS
<1> USE DEF Next
<1>1. CASE \E a \in Anchors : ArchiveOperation(a)
  BY <1>1, ArchiveOperationStep
<1>2. CASE UpgradeArchive \/ \E c \in Configs : UpdateArchiveConfig(c)
  BY <1>2, UpgradeStep
<1>3. CASE \E p \in Polls : StartPoll(p) \/ RejectCall(p)
  BY <1>3, CallStep
<1>4. CASE \E p \in Polls : FetchEntries(p)
  BY <1>4, FetchEntriesStep
<1>5. CASE \E p \in Polls : AcknowledgeEntries(p)
  BY <1>5, AcknowledgeEntriesStep
<1>6. CASE \E p \in Polls : ProcessBatch(p)
  <2>1. PICK p \in Polls : ProcessBatch(p)
    BY <1>6
  <2>2. CASE Max(DOMAIN batch[p]) >= ExpectedSeq(Min(DOMAIN batch[p]))
    BY <2>1, <2>2, ProcessNewBatchStep
  <2>3. CASE Max(DOMAIN batch[p]) < ExpectedSeq(Min(DOMAIN batch[p]))
    BY <2>1, <2>3, ProcessOldBatchStep
  <2>4. QED  BY <2>1, <2>2, <2>3, Zenon DEF ProcessBatch
<1>7. CASE \E p \in Polls : ProcessEmptyBatch(p)
  BY <1>7, FinishStep DEF ProcessEmptyBatch, IInv, TypeOK
<1>8. CASE \E p \in Polls : FetchFailed(p) \/ AckFailed(p)
  BY <1>8, FinishStep, StoreCallErrorTyped DEF FetchFailed, AckFailed, IInv, TypeOK
<1>9. CASE \E p \in Polls : AckSucceeded(p)
  BY <1>9, FinishStep, BatchIsFinite DEF AckSucceeded, IInv, TypeOK
<1>10. CASE \E p \in Polls : DropReply(p)
  BY <1>10, FinishStep DEF DropReply, infoVars, IInv, TypeOK
<1>11. CASE UNCHANGED vars
  <2>1. UNCHANGED <<config, nextSeq, buffer, written, log, index, highest,
                    callErrors, lastFetch, pc, alive, batch, upgrades>>
    BY <1>11 DEF vars, iiVars, stableVars, infoVars, pollVars
  <2>2. TypeOK'
    BY <2>1 DEF IInv, TypeOK
  <2>3. Linked'
    BY <2>1, QuietStep DEF IInv
  <2>4. QED  BY <2>2, <2>3 DEF IInv
<1>12. QED
  BY <1>1, <1>2, <1>3, <1>4, <1>5, <1>6, <1>7, <1>8, <1>9, <1>10, <1>11

-----------------------------------------------------------------------------
(***************************************************************************)
(* The properties.                                                         *)
(***************************************************************************)

\* The invariant holds in every reachable state of the two canisters.
THEOREM Invariance == Safety => []IInv
<1>1. Init => IInv
  BY InitEstablishesIInv
<1>2. IInv /\ [Next]_vars => IInv'
  BY NextPreservesIInv
<1>3. QED  BY <1>1, <1>2, PTL DEF Safety

\* All state of II and the archive keeps its type; the error list of
\* store_call_error stays within error_buffer_limit.
THEOREM TypeCorrect == Safety => []TypeOK
<1>1. IInv => TypeOK
  BY DEF IInv
<1>2. QED  BY <1>1, Invariance, PTL

\* write_entry_internal never leaves a gap or writes a number twice, however
\* many executions of fetch_entries overlap.
THEOREM LogIsGapFree == Safety => []GapFreeLog
<1>1. IInv => GapFreeLog
  BY DEF IInv, Linked
<1>2. QED  BY <1>1, Invariance, PTL

\* An entry of the log is found there by its number and its anchor.
LEMMA LoggedAtItsNumber ==
    ASSUME TypeOK, GapFreeLog, NEW s \in Nat, s < Len(log)
    PROVE  InLog(s, log[s + 1].anchor)
<1>1. log \in Seq(Entry) /\ Len(log) \in Nat /\ s + 1 \in 1..Len(log)
  BY LogTyped DEF TypeOK
<1>2. log[s + 1] \in Entry /\ DOMAIN log = 1..Len(log)
  BY <1>1, Zenon, ElementOfSeq, LenProperties
<1>3. log[s + 1].seq = s
  BY <1>1 DEF GapFreeLog
<1>4. log[s + 1] = [seq |-> log[s + 1].seq, anchor |-> log[s + 1].anchor]
  BY <1>2 DEF Entry
<1>5. QED  BY <1>1, <1>2, <1>3, <1>4 DEF InLog, Range

\* acknowledge_entries is only ever asked to prune archived entries: those of
\* the batch, and those the buffer still has up to the last of them, are in
\* the log under their number and anchor.
THEOREM AcknowledgementsAreSafe == Safety => []AcknowledgedIsArchived
<1>1. ASSUME IInv PROVE AcknowledgedIsArchived
  <2>1. ASSUME NEW p \in Polls, pc[p] = "acking"
        PROVE  /\ \A s \in DOMAIN batch[p] : InLog(s, batch[p][s])
               /\ \A s \in Pruned(Max(DOMAIN batch[p])) : InLog(s, buffer[s])
    <3>1. /\ DOMAIN batch[p] # {} /\ \A s \in DOMAIN batch[p] : s < Len(log)
          /\ BatchContinuesLog(p) /\ BufferContinuesLog
          /\ TypeOK /\ GapFreeLog /\ Len(log) \in Nat /\ nextSeq \in Nat
      BY <1>1, <2>1, LogTyped DEF IInv, Linked, AckCoversLog, TypeOK
    <3>2. Max(DOMAIN batch[p]) \in DOMAIN batch[p] /\ Max(DOMAIN batch[p]) \in Nat
      BY <1>1, <3>1, ExpectedIsNext
    <3>3. ASSUME NEW s \in DOMAIN batch[p] PROVE InLog(s, batch[p][s])
      <4>1. s \in Nat /\ s < Len(log) /\ batch[p][s] = log[s + 1].anchor
        BY <3>1 DEF BatchContinuesLog
      <4>2. QED  BY <3>1, <4>1, LoggedAtItsNumber
    <3>4. ASSUME NEW s \in Pruned(Max(DOMAIN batch[p])) PROVE InLog(s, buffer[s])
      <4>1. s \in DOMAIN buffer /\ s <= Max(DOMAIN batch[p])
        BY DEF Pruned
      <4>2. s \in Nat /\ s < Len(log)
        BY <3>1, <3>2, <4>1 DEF BufferContinuesLog
      <4>3. buffer[s] = log[s + 1].anchor
        BY <3>1, <4>1, <4>2 DEF BufferContinuesLog
      <4>4. QED  BY <3>1, <4>2, <4>3, LoggedAtItsNumber
    <3>5. QED  BY <3>3, <3>4
  <2>2. QED  BY <2>1 DEF AcknowledgedIsArchived
<1>2. QED  BY <1>1, Invariance, PTL

\* How a step changes log and buffer, in terms of the history.
LEMMA LogGrows ==
    ASSUME IInv, [Next]_vars
    PROVE  \/ UNCHANGED <<nextSeq, log, index, written>> /\ buffer' = buffer
           \/ \E a \in Anchors : ArchiveOperation(a)
           \/ \E p \in Polls : AcknowledgeEntries(p)
           \/ \E p \in Polls : /\ ProcessBatch(p)
                               /\ Max(DOMAIN batch[p]) >= ExpectedSeq(Min(DOMAIN batch[p]))
<1>1. CASE \E p \in Polls : ProcessBatch(p)
  BY <1>1, Zenon DEF ProcessBatch, iiVars, stableVars
<1>2. CASE UNCHANGED vars
  BY <1>2 DEF vars, iiVars, stableVars
<1>3. CASE UpgradeArchive \/ \E c \in Configs : UpdateArchiveConfig(c)
  BY <1>3 DEF UpgradeArchive, UpdateArchiveConfig, KeepStableMemory, iiVars, stableVars
<1>4. CASE \E p \in Polls : \/ StartPoll(p) \/ FetchEntries(p) \/ RejectCall(p)
                            \/ ProcessEmptyBatch(p) \/ FetchFailed(p)
                            \/ AckSucceeded(p) \/ AckFailed(p) \/ DropReply(p)
  BY <1>4 DEF StartPoll, FetchEntries, RejectCall, ProcessEmptyBatch, FetchFailed,
              AckSucceeded, AckFailed, DropReply, iiVars, stableVars
<1>5. QED  BY <1>1, <1>2, <1>3, <1>4 DEF Next

\* What ProcessBatch appends, without the conditions of WriteAppends.
LEMMA ProcessAppends ==
    ASSUME IInv, NEW p \in Polls, ProcessBatch(p),
           Max(DOMAIN batch[p]) >= ExpectedSeq(Min(DOMAIN batch[p]))
    PROVE  \E hi \in Nat :
              /\ hi >= Len(log) /\ hi < nextSeq
              /\ UNCHANGED <<nextSeq, buffer, written>>
              /\ Len(log') = hi + 1
              /\ \A i \in 1..Len(log) : log'[i] = log[i]
              /\ \A i \in (Len(log) + 1)..(hi + 1) :
                    /\ i - 1 \in DOMAIN buffer
                    /\ log'[i] = [seq |-> i - 1, anchor |-> buffer[i - 1]]
              /\ WriteEntries(batch[p], Len(log)..hi)
<1> DEFINE E == DOMAIN batch[p]
           hi == Max(E)
<1>1. /\ nextSeq \in Nat /\ Len(log) \in Nat
      /\ E # {} /\ BatchContinuesLog(p)
      /\ UNCHANGED <<nextSeq, buffer, written>>
  BY LogTyped DEF IInv, Linked, TypeOK, ProcessBatch, iiVars
<1>2. /\ hi \in Nat /\ hi \in E /\ hi >= Len(log)
      /\ {s \in E : s >= Len(log)} = Len(log)..hi
      /\ ExpectedSeq(Min(E)) = Len(log)
  BY <1>1, ExpectedIsNext
<1>3. WriteEntries(batch[p], {s \in E : s >= Len(log)})
  <2>1. ~(hi < ExpectedSeq(Min(E)))
    BY <1>1, <1>2
  <2>2. WriteEntries(batch[p], {s \in E : s >= ExpectedSeq(Min(E))})
    BY <2>1, Zenon DEF ProcessBatch
  <2>3. {s \in E : s >= ExpectedSeq(Min(E))} = {s \in E : s >= Len(log)}
    BY <1>2
  <2>4. QED  BY <2>2, <2>3, Zenon
<1>4. /\ Len(log') = hi + 1
      /\ \A i \in 1..Len(log) : log'[i] = log[i]
      /\ \A i \in (Len(log) + 1)..(hi + 1) :
            log'[i] = [seq |-> i - 1, anchor |-> batch[p][i - 1]]
  BY <1>1, <1>2, <1>3, WriteAppends
<1>5. hi < nextSeq
  BY <1>1, <1>2 DEF BatchContinuesLog
<1> HIDE DEF hi
<1>6. ASSUME NEW i \in (Len(log) + 1)..(hi + 1)
      PROVE  /\ i - 1 \in DOMAIN buffer
             /\ log'[i] = [seq |-> i - 1, anchor |-> buffer[i - 1]]
  <2>1. i - 1 \in Len(log)..hi /\ i - 1 >= Len(log)
    BY <1>1, <1>2
  <2>2. i - 1 \in E
    BY <1>2, <2>1
  <2>3. i - 1 \in DOMAIN buffer /\ batch[p][i - 1] = buffer[i - 1]
    BY <1>1, <2>1, <2>2 DEF BatchContinuesLog
  <2>4. log'[i] = [seq |-> i - 1, anchor |-> batch[p][i - 1]]
    BY <1>4
  <2>5. QED  BY <2>3, <2>4
<1>7. WriteEntries(batch[p], Len(log)..hi)
  BY <1>2, <1>3, Zenon
<1>8. QED  BY <1>1, <1>2, <1>4, <1>5, <1>6, <1>7

\* No step changes or removes an archived entry.
THEOREM LogOnlyGrows == Safety => LogAppendOnly
<1>1. ASSUME IInv, [Next]_vars
      PROVE  /\ Len(log') >= Len(log)
             /\ \A i \in 1..Len(log) : log'[i] = log[i]
  <2>1. Len(log) \in Nat
    BY <1>1, LogTyped DEF IInv
  <2>2. CASE UNCHANGED log
    BY <2>1, <2>2
  <2>3. CASE \E p \in Polls :
                /\ ProcessBatch(p)
                /\ Max(DOMAIN batch[p]) >= ExpectedSeq(Min(DOMAIN batch[p]))
    <3>1. \E hi \in Nat : /\ hi >= Len(log) /\ Len(log') = hi + 1
                          /\ \A i \in 1..Len(log) : log'[i] = log[i]
      BY <1>1, <2>3, ProcessAppends
    <3>2. QED  BY <2>1, <3>1
  <2>4. QED
    BY <1>1, <2>2, <2>3, LogGrows
       DEF ArchiveOperation, AcknowledgeEntries, stableVars
<1>2. QED  BY <1>1, Invariance, PTL DEF Safety, LogAppendOnly

-----------------------------------------------------------------------------
(***************************************************************************)
(* The history: what was committed, from the log and then the buffer.      *)
(***************************************************************************)

\* The history consists of anchors: no committed operation is missing.
LEMMA HistoryTyped ==
    ASSUME IInv
    PROVE  /\ nextSeq \in Nat /\ Len(log) \in Nat /\ Len(log) <= nextSeq
           /\ History \in [1..nextSeq -> Anchors]
           /\ History \in Seq(Anchors)
           /\ Len(History) = nextSeq
<1>1. /\ nextSeq \in Nat /\ Len(log) \in Nat
      /\ BufferContinuesLog
  BY LogTyped DEF IInv, Linked, TypeOK
<1>2. ASSUME NEW i \in 1..nextSeq PROVE History[i] \in Anchors
  <2>1. CASE i <= Len(log)
    <3>1. log[i] \in Entry
      BY <1>1, <2>1, LogTyped DEF IInv
    <3>2. QED  BY <2>1, <3>1 DEF History, Entry
  <2>2. CASE i > Len(log)
    <3>1. i - 1 \in DOMAIN buffer
      BY <1>1, <2>2 DEF BufferContinuesLog
    <3>2. ~(i <= Len(log))
      BY <1>1, <2>2
    <3>3. History[i] = buffer[i - 1]
      BY <3>1, <3>2 DEF History
    <3>4. QED  BY <3>1, <3>3 DEF IInv, TypeOK
  <2>3. QED  BY <1>1, <2>1, <2>2
<1>3. History \in [1..nextSeq -> Anchors]
  BY <1>2 DEF History
<1>4. Len(log) <= nextSeq
  BY <1>1 DEF BufferContinuesLog
<1> HIDE DEF History
<1>5. History \in Seq(Anchors) /\ Len(History) = nextSeq
  BY <1>1, <1>3, FunctionIsSeq
<1>6. QED  BY <1>1, <1>3, <1>4, <1>5

\* Committing appends to the history.
LEMMA CommitAppends ==
    ASSUME IInv, NEW a \in Anchors, ArchiveOperation(a)
    PROVE  History' = Append(History, a) /\ log' = log
<1>1. /\ nextSeq \in Nat /\ Len(log) \in Nat /\ Len(log) <= nextSeq
      /\ History \in Seq(Anchors) /\ Len(History) = nextSeq
  BY HistoryTyped
<1>2. /\ nextSeq' = nextSeq + 1 /\ log' = log
      /\ DOMAIN buffer' = DOMAIN buffer \cup {nextSeq}
      /\ \A s \in DOMAIN buffer' :
            buffer'[s] = IF s = nextSeq THEN a ELSE buffer[s]
      /\ DOMAIN buffer \subseteq 0..(nextSeq - 1)
  BY DEF ArchiveOperation, stableVars, IInv, Linked, BufferContinuesLog
<1>3. ASSUME NEW i \in 1..nextSeq PROVE History'[i] = History[i]
  <2>1. i - 1 # nextSeq /\ i \in 1..nextSeq'
    BY <1>1, <1>2
  <2>2. i - 1 \in DOMAIN buffer' <=> i - 1 \in DOMAIN buffer
    BY <1>2, <2>1
  <2>3. i - 1 \in DOMAIN buffer => buffer'[i - 1] = buffer[i - 1]
    BY <1>2, <2>1
  <2>4. QED  BY <1>2, <2>1, <2>2, <2>3 DEF History
<1>4. History'[nextSeq + 1] = a
  <2>1. /\ nextSeq + 1 \in 1..nextSeq' /\ ~(nextSeq + 1 <= Len(log))
        /\ (nextSeq + 1) - 1 = nextSeq
    BY <1>1, <1>2
  <2>2. nextSeq \in DOMAIN buffer' /\ buffer'[nextSeq] = a
    BY <1>2
  <2>3. QED  BY <1>2, <2>1, <2>2 DEF History
<1>5. DOMAIN History' = 1..(nextSeq + 1)
  BY <1>2 DEF History
<1>6. History' = [i \in 1..(nextSeq + 1) |-> History'[i]]
  BY <1>2 DEF History
<1> HIDE DEF History
<1>7. /\ Append(History, a) \in Seq(Anchors)
      /\ Len(Append(History, a)) = nextSeq + 1
      /\ \A i \in 1..nextSeq : Append(History, a)[i] = History[i]
      /\ Append(History, a)[nextSeq + 1] = a
  BY <1>1, AppendProperties
<1>8. Append(History, a) \in [1..(nextSeq + 1) -> Anchors]
  BY <1>7, LenProperties
<1>9. \A i \in 1..(nextSeq + 1) : History'[i] = Append(History, a)[i]
  <2>1. \A i \in 1..(nextSeq + 1) : i \in 1..nextSeq \/ i = nextSeq + 1
    BY <1>1
  <2>2. QED  BY <1>3, <1>4, <1>7, <2>1
<1>10. QED  BY <1>2, <1>6, <1>8, <1>9

\* Every other step keeps the history.
LEMMA HistoryKept ==
    ASSUME IInv, [Next]_vars, ~ \E a \in Anchors : ArchiveOperation(a)
    PROVE  /\ History' = History /\ nextSeq' = nextSeq /\ written' = written
           /\ Len(log') >= Len(log) /\ Len(log') <= nextSeq
<1>1. /\ nextSeq \in Nat /\ Len(log) \in Nat /\ Len(log) <= nextSeq
  BY HistoryTyped
<1>2. CASE UNCHANGED <<nextSeq, log, index, written>> /\ buffer' = buffer
  BY <1>1, <1>2 DEF History
<1>3. CASE \E p \in Polls : AcknowledgeEntries(p)
  <2>1. PICK p \in Polls : AcknowledgeEntries(p)
    BY <1>3
  <2>2. IInv' /\ UNCHANGED <<nextSeq, log, written>>
    BY <2>1, AcknowledgeEntriesStep DEF AcknowledgeEntries, stableVars
  <2>3. ASSUME NEW i \in 1..nextSeq, ~(i <= Len(log))
        PROVE  /\ i - 1 \in DOMAIN buffer' /\ i - 1 \in DOMAIN buffer
               /\ buffer'[i - 1] = buffer[i - 1]
    <3>1. i - 1 \in Len(log)..(nextSeq - 1)
      BY <1>1, <2>3
    <3>2. i - 1 \in DOMAIN buffer /\ i - 1 \in DOMAIN buffer'
      BY <2>2, <3>1 DEF IInv, Linked, BufferContinuesLog
    <3>3. \A s \in DOMAIN buffer' : buffer'[s] = buffer[s]
      BY <2>1 DEF AcknowledgeEntries, Restrict
    <3>4. QED  BY <3>2, <3>3
  <2>4. QED  BY <1>1, <2>2, <2>3 DEF History
<1>4. CASE \E p \in Polls :
              /\ ProcessBatch(p)
              /\ Max(DOMAIN batch[p]) >= ExpectedSeq(Min(DOMAIN batch[p]))
  <2>1. PICK hi \in Nat :
              /\ hi >= Len(log) /\ hi < nextSeq
              /\ UNCHANGED <<nextSeq, buffer, written>>
              /\ Len(log') = hi + 1
              /\ \A i \in 1..Len(log) : log'[i] = log[i]
              /\ \A i \in (Len(log) + 1)..(hi + 1) :
                    /\ i - 1 \in DOMAIN buffer
                    /\ log'[i] = [seq |-> i - 1, anchor |-> buffer[i - 1]]
    BY <1>4, ProcessAppends
  <2>2. ASSUME NEW i \in 1..nextSeq PROVE History'[i] = History[i]
    <3>1. CASE i <= Len(log)
      <4>1. i <= Len(log') /\ log'[i] = log[i]
        BY <1>1, <2>1, <3>1
      <4>2. QED  BY <2>1, <3>1, <4>1 DEF History
    <3>2. CASE ~(i <= Len(log)) /\ i <= hi + 1
      <4>1. i \in (Len(log) + 1)..(hi + 1)
        BY <1>1, <2>1, <3>2
      <4>2. /\ i - 1 \in DOMAIN buffer
            /\ log'[i] = [seq |-> i - 1, anchor |-> buffer[i - 1]]
        BY <2>1, <4>1
      <4>3. log'[i].anchor = buffer[i - 1]
        BY <4>2
      <4>4. QED  BY <2>1, <3>2, <4>2, <4>3 DEF History
    <3>3. CASE ~(i <= hi + 1)
      <4>1. ~(i <= Len(log)) /\ ~(i <= Len(log'))
        BY <1>1, <2>1, <3>3
      <4>2. QED  BY <2>1, <4>1 DEF History
    <3>4. QED  BY <1>1, <2>1, <3>1, <3>2, <3>3
  <2>3. History' = History
    BY <2>1, <2>2 DEF History
  <2>4. QED  BY <1>1, <2>1, <2>3
<1>5. QED  BY <1>2, <1>3, <1>4, LogGrows

\* Every step of the pipeline is a commit, an archiving or a stuttering step
\* of ArchiveLog: operations are archived once and in commit order.
THEOREM ImplementsArchiveLog == Safety => AL!Safety
<1>1. ASSUME Init PROVE AL!Init
  <2>1. IInv /\ nextSeq = 0 /\ Len(log) = 0
    BY <1>1, InitEstablishesIInv, EmptySeq DEF Init
  <2>2. History \in Seq(Anchors) /\ Len(History) = 0
    BY <2>1, HistoryTyped
  <2>3. History = <<>>
    BY <2>2, EmptySeq
  <2>4. QED  BY <2>1, <2>3 DEF AL!Init
<1>2. ASSUME IInv, [Next]_vars PROVE [AL!Next]_(AL!vars)
  <2>1. CASE \E a \in Anchors : ArchiveOperation(a)
    BY <1>2, <2>1, CommitAppends DEF AL!Next, AL!Commit
  <2>2. CASE ~ \E a \in Anchors : ArchiveOperation(a)
    <3>1. /\ History' = History
          /\ Len(log') >= Len(log) /\ Len(log') <= nextSeq
          /\ nextSeq \in Nat /\ Len(log) \in Nat /\ Len(History) = nextSeq
      BY <1>2, <2>2, HistoryKept, HistoryTyped
    <3>2. Len(log') \in Nat
      BY <1>2, NextPreservesIInv, LogTyped DEF IInv
    <3>3. CASE Len(log') = Len(log)
      BY <3>1, <3>3 DEF AL!vars
    <3>4. CASE Len(log') > Len(log)
      <4>1. Len(log') \in (Len(log) + 1)..Len(History)
        BY <3>1, <3>2, <3>4
      <4>2. QED  BY <3>1, <4>1 DEF AL!Next, AL!Archive
    <3>5. QED  BY <3>1, <3>2, <3>3, <3>4
  <2>3. QED  BY <2>1, <2>2
<1>3. QED  BY <1>1, <1>2, Invariance, PTL DEF Safety, AL!Safety

\* Every operation that was written to anchor storage is in the log or in
\* the buffer: archive_operation and the pruning lose none.
THEOREM NothingIsLost == Safety => []WritesAreAccounted
<1> DEFINE At(a) == {i \in 1..nextSeq : History[i] = a}
<1>1. ASSUME Init PROVE WritesAreAccounted
  <2>1. nextSeq = 0 /\ \A a \in Anchors : written[a] = 0
    BY <1>1 DEF Init
  <2>2. ASSUME NEW a \in Anchors PROVE Cardinality(At(a)) = 0
    <3>1. At(a) = {}
      BY <2>1
    <3>2. QED  BY <3>1, FS_EmptySet
  <2>3. QED  BY <2>1, <2>2 DEF WritesAreAccounted
<1>2. ASSUME IInv, WritesAreAccounted, [Next]_vars PROVE WritesAreAccounted'
  <2>1. CASE ~ \E a \in Anchors : ArchiveOperation(a)
    <3>1. History' = History /\ nextSeq' = nextSeq /\ written' = written
      BY <1>2, <2>1, HistoryKept
    <3> HIDE DEF At
    <3>2. QED  BY <1>2, <3>1 DEF WritesAreAccounted
  <2>2. ASSUME NEW b \in Anchors, ArchiveOperation(b) PROVE WritesAreAccounted'
    <3>1. /\ nextSeq \in Nat /\ nextSeq' = nextSeq + 1
          /\ History \in Seq(Anchors) /\ Len(History) = nextSeq
          /\ History' = Append(History, b)
          /\ written' = [written EXCEPT ![b] = @ + 1]
          /\ written \in [Anchors -> Nat]
      BY <1>2, <2>2, HistoryTyped, CommitAppends DEF ArchiveOperation, IInv, TypeOK
    <3> HIDE DEF History
    <3>2. /\ \A i \in 1..nextSeq : History'[i] = History[i]
          /\ History'[nextSeq + 1] = b
      BY <3>1, AppendProperties
    <3>3. ASSUME NEW a \in Anchors
          PROVE  written'[a] = Cardinality({i \in 1..nextSeq' : History'[i] = a})
      <4>1. /\ written[a] = Cardinality(At(a))
            /\ IsFiniteSet(At(a))
            /\ nextSeq + 1 \notin At(a)
        <5>1. IsFiniteSet(1..nextSeq)
          BY <3>1, FS_Interval
        <5>2. At(a) \subseteq 1..nextSeq
          OBVIOUS
        <5>3. nextSeq + 1 \notin At(a)
          BY <3>1
        <5>4. IsFiniteSet(At(a))
          BY <5>1, <5>2, FS_Subset
        <5>5. QED  BY <1>2, <5>3, <5>4 DEF WritesAreAccounted
      <4>2. CASE a = b
        <5>1. {i \in 1..nextSeq' : History'[i] = a} = At(a) \cup {nextSeq + 1}
          BY <3>1, <3>2, <4>2
        <5> HIDE DEF At
        <5>2. Cardinality(At(a) \cup {nextSeq + 1}) = Cardinality(At(a)) + 1
          BY <4>1, FS_AddElement
        <5>3. written'[a] = written[a] + 1
          BY <3>1, <4>2
        <5>4. QED  BY <4>1, <5>1, <5>2, <5>3
      <4>3. CASE a # b
        <5>1. {i \in 1..nextSeq' : History'[i] = a} = At(a)
          BY <3>1, <3>2, <4>3
        <5> HIDE DEF At
        <5>2. written'[a] = written[a]
          BY <3>1, <4>3
        <5>3. QED  BY <4>1, <5>1, <5>2
      <4>4. QED  BY <4>2, <4>3
    <3>4. QED  BY <3>3 DEF WritesAreAccounted
  <2>3. QED  BY <2>1, <2>2
<1>3. QED  BY <1>1, <1>2, Invariance, PTL DEF Safety

\* get_anchor_entries finds all entries of an anchor and no others.
THEOREM IndexIsExact == Safety => []IndexMatchesLog
<1>1. ASSUME Init PROVE IndexMatchesLog
  <2>1. index = {} /\ Len(log) = 0
    BY <1>1, EmptySeq DEF Init
  <2>2. QED  BY <2>1 DEF IndexMatchesLog
<1>2. ASSUME IInv, IndexMatchesLog, [Next]_vars PROVE IndexMatchesLog'
  <2>1. CASE UNCHANGED <<log, index>>
    BY <1>2, <2>1 DEF IndexMatchesLog
  <2>2. ASSUME NEW p \in Polls, ProcessBatch(p),
               Max(DOMAIN batch[p]) >= ExpectedSeq(Min(DOMAIN batch[p]))
        PROVE  IndexMatchesLog'
    <3>1. PICK hi \in Nat :
              /\ hi >= Len(log) /\ hi < nextSeq
              /\ Len(log') = hi + 1
              /\ \A i \in 1..Len(log) : log'[i] = log[i]
              /\ WriteEntries(batch[p], Len(log)..hi)
      BY <1>2, <2>2, ProcessAppends
    <3> DEFINE S == Len(log)..hi
               k == hi - Len(log) + 1
               new == [i \in 1..Cardinality(S) |->
                         [seq |-> InOrder(S)[i], anchor |-> batch[p][InOrder(S)[i]]]]
    <3>2. Len(log) \in Nat /\ log \in Seq(Entry)
      BY <1>2, LogTyped DEF IInv, TypeOK
    <3>3. /\ Cardinality(S) = k
          /\ \A i \in 1..k : InOrder(S)[i] = Len(log) + i - 1
      <4>1. Len(log) \in Int /\ hi \in Int /\ Len(log) <= hi + 1
        BY <3>1, <3>2
      <4>2. QED  BY <4>1, InOrderInterval
    <3>4. \A i \in 1..k : log'[Len(log) + i].anchor = batch[p][Len(log) + i - 1]
      <4>1. /\ Max(DOMAIN batch[p]) \in Nat
            /\ Max(DOMAIN batch[p]) >= Len(log)
        <5>1. DOMAIN batch[p] # {}
          BY <2>2 DEF ProcessBatch
        <5>2. QED  BY <1>2, <2>2, <5>1, ExpectedIsNext
      <4>2. PICK h \in Nat : h = Max(DOMAIN batch[p])
        BY <4>1
      <4>3. ~(Max(DOMAIN batch[p]) < ExpectedSeq(Min(DOMAIN batch[p])))
        BY <1>2, <2>2, <4>1, <3>2, ExpectedIsNext DEF ProcessBatch
      <4>4. WriteEntries(batch[p], {s \in DOMAIN batch[p] :
                                        s >= ExpectedSeq(Min(DOMAIN batch[p]))})
        BY <2>2, <4>3, Zenon DEF ProcessBatch
      <4>5. ExpectedSeq(Min(DOMAIN batch[p])) = Len(log) /\ DOMAIN batch[p] # {}
        BY <1>2, <2>2, ExpectedIsNext DEF ProcessBatch
      <4>6. WriteEntries(batch[p], {s \in DOMAIN batch[p] : s >= Len(log)})
        BY <4>4, <4>5
      <4>7. /\ Len(log') = h + 1
            /\ \A i \in (Len(log) + 1)..(h + 1) :
                  log'[i] = [seq |-> i - 1, anchor |-> batch[p][i - 1]]
        BY <1>2, <4>1, <4>2, <4>5, <4>6, WriteAppends
      <4>8. h = hi
        BY <3>1, <4>7
      <4>9. ASSUME NEW i \in 1..k
            PROVE  log'[Len(log) + i].anchor = batch[p][Len(log) + i - 1]
        <5>1. Len(log) + i \in (Len(log) + 1)..(h + 1)
          BY <3>1, <3>2, <4>8
        <5>2. log'[Len(log) + i] =
                 [seq |-> Len(log) + i - 1, anchor |-> batch[p][Len(log) + i - 1]]
          BY <4>7, <5>1
        <5>3. QED  BY <5>2
      <4>10. QED  BY <4>9
    <3>5. index' = index \cup {<<batch[p][InOrder(S)[i]], Len(log) + i - 1>> :
                                  i \in 1..Cardinality(S)}
      BY <3>1 DEF WriteEntries
    <3> HIDE DEF S
    <3>6. \A i \in 1..k : <<batch[p][InOrder(S)[i]], Len(log) + i - 1>> =
                          <<log'[Len(log) + i].anchor, Len(log) + i - 1>>
      BY <3>3, <3>4
    <3>7. index' = index \cup {<<log'[Len(log) + i].anchor, Len(log) + i - 1>> :
                                  i \in 1..k}
      BY <3>3, <3>5, <3>6
    <3>8. {<<log'[i].anchor, i - 1>> : i \in 1..Len(log')} =
            {<<log'[i].anchor, i - 1>> : i \in 1..Len(log)} \cup
            {<<log'[Len(log) + i].anchor, Len(log) + i - 1>> : i \in 1..k}
      <4>1. \A i \in 1..Len(log') : i \in 1..Len(log) \/
                (i - Len(log) \in 1..k /\ Len(log) + (i - Len(log)) = i)
        BY <3>1, <3>2
      <4>2. \A i \in 1..Len(log) : i \in 1..Len(log')
        BY <3>1, <3>2
      <4>3. \A i \in 1..k : Len(log) + i \in 1..Len(log')
        BY <3>1, <3>2
      <4> HIDE DEF k
      <4>4. QED  BY <4>1, <4>2, <4>3
    <3>9. {<<log'[i].anchor, i - 1>> : i \in 1..Len(log)} = index
      BY <1>2, <3>1 DEF IndexMatchesLog
    <3>10. QED  BY <3>7, <3>8, <3>9, Zenon DEF IndexMatchesLog
  <2>3. QED
    BY <1>2, <2>1, <2>2, LogGrows
       DEF ArchiveOperation, AcknowledgeEntries, stableVars
<1>3. QED  BY <1>1, <1>2, Invariance, PTL DEF Safety

=============================================================================
