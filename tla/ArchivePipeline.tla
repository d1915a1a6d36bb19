-------------------------- MODULE ArchivePipeline --------------------------
(***************************************************************************)
(* The path of an anchor operation from Internet Identity (II) into the    *)
(* log of the archive canister.                                            *)
(*                                                                         *)
(* II gives every operation a sequence number and keeps it in a buffer     *)
(* (archive.rs).  The archive canister polls on a timer: it fetches a      *)
(* batch, appends what it has not seen to its log and acknowledges the     *)
(* highest sequence number, whereupon II prunes its buffer                 *)
(* (src/archive/src/main.rs).  The polls are asynchronous executions that  *)
(* overlap; a call can be rejected, a reply can be lost to an upgrade of   *)
(* the archive, and nothing orders the replies of different polls.         *)
(*                                                                         *)
(* The archive has been created (state Created, sequence_number 0).  An    *)
(* entry is known by its sequence number and its anchor.                   *)
(***************************************************************************)
EXTENDS Integers, Sequences, FiniteSets, FiniteSetsExt, Functions

CONSTANTS
    Anchors,        \* anchor numbers
    Polls,          \* executions of the archive's fetch_entries that may overlap
    Configs,        \* values of ArchiveConfig: [bufferLimit, fetchLimit]
    ErrorLimit,     \* error_buffer_limit of the archive
    MaxOps,         \* bound: anchor operations that commit
    MaxUpgrades     \* bound: upgrades of the archive canister

ASSUME ConfigsAssumption ==
    /\ Configs # {}
    /\ Configs \subseteq [bufferLimit : Nat, fetchLimit : Nat \ {0}]

ASSUME BoundsAssumption ==
    /\ ErrorLimit \in Nat \ {0}
    /\ MaxOps \in Nat
    /\ MaxUpgrades \in Nat

VARIABLES
    \* Internet Identity
    config,         \* ArchiveConfig
    nextSeq,        \* ArchiveData.sequence_number
    buffer,         \* archive_entries_buffer: sequence number |-> anchor
    written,        \* operations written to anchor storage, per anchor
    \* the archive canister, in stable memory
    log,            \* LOG
    index,          \* ANCHOR_INDEX: <<anchor, log index>>
    highest,        \* highest_sequence_number
    \* the archive canister, in heap memory
    callErrors,     \* CALL_INFO.call_errors
    lastFetch,      \* CALL_INFO.last_successful_fetch: its number_of_entries
    pc,             \* where each execution of fetch_entries is suspended
    alive,          \* does its continuation still exist
    batch,          \* its local variable entries
    upgrades        \* counts the upgrades of the archive

iiVars == <<config, nextSeq, buffer, written>>
stableVars == <<log, index, highest>>
infoVars == <<callErrors, lastFetch>>
pollVars == <<pc, alive, batch>>
vars == <<iiVars, stableVars, infoVars, pollVars, upgrades>>

\* None, for highest_sequence_number and last_successful_fetch.
None == -1

Entry == [seq : Nat, anchor : Anchors]

PollStates == {"idle", "fetching", "fetched", "fetch_rejected",
               "acking", "acked", "ack_rejected"}

\* Suspended with a reply to process.
ReplyStates == {"fetched", "fetch_rejected", "acked", "ack_rejected"}

NoBatch == [s \in {} |-> None]

TypeOK ==
    /\ config \in Configs
    /\ nextSeq \in Nat
    /\ DOMAIN buffer \subseteq Nat
    /\ \A s \in DOMAIN buffer : buffer[s] \in Anchors
    /\ written \in [Anchors -> Nat]
    /\ log \in Seq(Entry)
    /\ index \subseteq Anchors \X Nat
    /\ highest \in Nat \cup {None}
    /\ callErrors \in Seq({"fetch_entries", "acknowledge_entries"})
    /\ Len(callErrors) <= ErrorLimit
    /\ lastFetch \in Nat \cup {None}
    /\ pc \in [Polls -> PollStates]
    /\ alive \in [Polls -> BOOLEAN]
    /\ \A p \in Polls : /\ DOMAIN batch[p] \subseteq Nat
                        /\ \A s \in DOMAIN batch[p] : batch[p][s] \in Anchors
    /\ DOMAIN batch = Polls
    /\ upgrades \in 0..MaxUpgrades

-----------------------------------------------------------------------------
(***************************************************************************)
(* Sets of sequence numbers in BTreeMap order.                             *)
(***************************************************************************)

\* How many elements of S precede s.
Rank(S, s) == Cardinality({t \in S : t < s})

\* The first n elements of S.
FirstOf(S, n) == {s \in S : Rank(S, s) < n}

\* The elements of S in increasing order.
InOrder(S) ==
    [i \in 1..Cardinality(S) |-> CHOOSE s \in S : Rank(S, s) = i - 1]

-----------------------------------------------------------------------------
Init ==
    /\ config \in Configs
    /\ nextSeq = 0
    /\ buffer = NoBatch
    /\ written = [a \in Anchors |-> 0]
    /\ log = <<>>
    /\ index = {}
    /\ highest = None
    /\ callErrors = <<>>
    /\ lastFetch = None
    /\ pc = [p \in Polls |-> "idle"]
    /\ alive = [p \in Polls |-> TRUE]
    /\ batch = [p \in Polls |-> NoBatch]
    /\ upgrades = 0

-----------------------------------------------------------------------------
(***************************************************************************)
(* Internet Identity.                                                      *)
(***************************************************************************)

BufferFull == Cardinality(DOMAIN buffer) >= config.bufferLimit

\* An anchor is written and the operation is buffered.  A full buffer traps,
\* which also undoes the write: then nothing happens.
ArchiveOperation(a) ==
    /\ nextSeq < MaxOps
    /\ ~BufferFull
    /\ written' = [written EXCEPT ![a] = @ + 1]
    /\ buffer' = [s \in DOMAIN buffer \cup {nextSeq} |->
                      IF s = nextSeq THEN a ELSE buffer[s]]
    /\ nextSeq' = nextSeq + 1
    /\ UNCHANGED <<config, stableVars, infoVars, pollVars, upgrades>>

\* An upgrade of II with a new archive_config; all else is in stable memory.
UpdateArchiveConfig(c) ==
    /\ config' = c
    /\ UNCHANGED <<nextSeq, buffer, written, stableVars, infoVars, pollVars,
                   upgrades>>

\* Update call fetch_entries: the first entries by sequence number.
FetchEntries(p) ==
    /\ pc[p] = "fetching"
    /\ pc' = [pc EXCEPT ![p] = "fetched"]
    /\ batch' = [batch EXCEPT ![p] =
          Restrict(buffer, FirstOf(DOMAIN buffer, config.fetchLimit))]
    /\ UNCHANGED <<iiVars, stableVars, infoVars, alive, upgrades>>

\* Mutant: acknowledging a batch empties the whole buffer.
PruneEverything(n) == DOMAIN buffer

\* Mutant: the acknowledged entry itself stays.
PruneBelow(n) == {s \in DOMAIN buffer : s < n}

\* The entries that prune_archive_entries removes.
Pruned(n) == {s \in DOMAIN buffer : s <= n}

\* Update call acknowledge_entries: prune up to the given sequence number.
AcknowledgeEntries(p) ==
    /\ pc[p] = "acking"
    /\ pc' = [pc EXCEPT ![p] = "acked"]
    /\ buffer' = Restrict(buffer, DOMAIN buffer \ Pruned(Max(DOMAIN batch[p])))
    /\ UNCHANGED <<config, nextSeq, written, stableVars, infoVars, alive,
                   batch, upgrades>>

\* The system rejects the call: II is stopped or its queue is full.
RejectCall(p) ==
    /\ \/ /\ pc[p] = "fetching"
          /\ pc' = [pc EXCEPT ![p] = "fetch_rejected"]
       \/ /\ pc[p] = "acking"
          /\ pc' = [pc EXCEPT ![p] = "ack_rejected"]
    /\ UNCHANGED <<iiVars, stableVars, infoVars, alive, batch, upgrades>>

-----------------------------------------------------------------------------
(***************************************************************************)
(* The archive canister.                                                   *)
(***************************************************************************)

Finish(p) == /\ pc' = [pc EXCEPT ![p] = "idle"]
             /\ alive' = [alive EXCEPT ![p] = TRUE]
             /\ batch' = [batch EXCEPT ![p] = NoBatch]

\* The interval timer spawns fetch_entries, whether or not others are running.
StartPoll(p) ==
    /\ pc[p] = "idle"
    /\ pc' = [pc EXCEPT ![p] = "fetching"]
    /\ UNCHANGED <<iiVars, stableVars, infoVars, alive, batch, upgrades>>

\* Mutant: the last archived entry is expected again.
ExpectedSeqAgain(lowest) == IF highest = None THEN lowest ELSE highest

ExpectedSeq(lowest) == IF highest = None THEN lowest ELSE highest + 1

\* Mutant: the index position is counted within the batch.
WriteEntriesBatchIndex(b, S) ==
    /\ log' = log \o [i \in 1..Cardinality(S) |->
          [seq |-> InOrder(S)[i], anchor |-> b[InOrder(S)[i]]]]
    /\ index' = index \cup {<<b[InOrder(S)[i]], i - 1>> : i \in 1..Cardinality(S)}

\* write_entry_internal, for the entries with the sequence numbers S of b.
WriteEntries(b, S) ==
    /\ log' = log \o [i \in 1..Cardinality(S) |->
          [seq |-> InOrder(S)[i], anchor |-> b[InOrder(S)[i]]]]
    /\ index' = index \cup
          {<<b[InOrder(S)[i]], Len(log) + i - 1>> : i \in 1..Cardinality(S)}

\* The first await returns a batch: archive what is new, then acknowledge.
ProcessBatch(p) ==
    LET entries == DOMAIN batch[p]
        expected == ExpectedSeq(Min(entries))
    IN  /\ pc[p] = "fetched"
        /\ alive[p]
        /\ entries # {}
        /\ \/ /\ Max(entries) >= expected
              /\ WriteEntries(batch[p], {s \in entries : s >= expected})
              /\ highest' = Max(entries)
           \/ /\ Max(entries) < expected
              /\ UNCHANGED stableVars
        /\ pc' = [pc EXCEPT ![p] = "acking"]
        /\ UNCHANGED <<iiVars, infoVars, alive, batch, upgrades>>

\* The first await returns no entries, which counts as a successful fetch.
ProcessEmptyBatch(p) ==
    /\ pc[p] = "fetched"
    /\ alive[p]
    /\ DOMAIN batch[p] = {}
    /\ lastFetch' = 0
    /\ Finish(p)
    /\ UNCHANGED <<iiVars, stableVars, callErrors, upgrades>>

\* store_call_error: a bounded list that forgets the oldest error.
StoreCallError(method) ==
    callErrors' = Append(IF Len(callErrors) >= ErrorLimit
                         THEN Tail(callErrors) ELSE callErrors, method)

FetchFailed(p) ==
    /\ pc[p] = "fetch_rejected"
    /\ alive[p]
    /\ StoreCallError("fetch_entries")
    /\ Finish(p)
    /\ UNCHANGED <<iiVars, stableVars, lastFetch, upgrades>>

AckSucceeded(p) ==
    /\ pc[p] = "acked"
    /\ alive[p]
    /\ lastFetch' = Cardinality(DOMAIN batch[p])
    /\ Finish(p)
    /\ UNCHANGED <<iiVars, stableVars, callErrors, upgrades>>

AckFailed(p) ==
    /\ pc[p] = "ack_rejected"
    /\ alive[p]
    /\ StoreCallError("acknowledge_entries")
    /\ Finish(p)
    /\ UNCHANGED <<iiVars, stableVars, lastFetch, upgrades>>

\* A reply without effect: its continuation was lost in an upgrade, or it
\* traps because the log cannot grow, and its writes are undone.
DropReply(p) ==
    /\ pc[p] \in ReplyStates
    /\ alive[p] => pc[p] = "fetched" /\ DOMAIN batch[p] # {}
    /\ Finish(p)
    /\ UNCHANGED <<iiVars, stableVars, infoVars, upgrades>>

\* Mutant: initialize starts a new log, but carries highest_sequence_number over.
LoseLog == log' = <<>> /\ index' = {} /\ UNCHANGED highest

KeepStableMemory == UNCHANGED stableVars

\* post_upgrade: the log, its index and highest_sequence_number survive, the
\* call info does not, and suspended executions never resume.
UpgradeArchive ==
    /\ upgrades < MaxUpgrades
    /\ upgrades' = upgrades + 1
    /\ callErrors' = <<>>
    /\ lastFetch' = None
    /\ alive' = [p \in Polls |-> pc[p] = "idle"]
    /\ KeepStableMemory
    /\ UNCHANGED <<iiVars, pc, batch>>

-----------------------------------------------------------------------------
Next ==
    \/ \E a \in Anchors : ArchiveOperation(a)
    \/ \E c \in Configs : UpdateArchiveConfig(c)
    \/ \E p \in Polls :
          \/ StartPoll(p)
          \/ FetchEntries(p)
          \/ AcknowledgeEntries(p)
          \/ RejectCall(p)
          \/ ProcessBatch(p)
          \/ ProcessEmptyBatch(p)
          \/ FetchFailed(p)
          \/ AckSucceeded(p)
          \/ AckFailed(p)
          \/ DropReply(p)
    \/ UpgradeArchive

\* The timer keeps firing and replies are eventually processed.  Calls may be
\* rejected and a continuation may trap, but not every time.
Fairness ==
    \A p \in Polls :
        /\ WF_vars(StartPoll(p))
        /\ SF_vars(FetchEntries(p))
        /\ SF_vars(AcknowledgeEntries(p))
        /\ SF_vars(ProcessBatch(p))
        /\ WF_vars(ProcessEmptyBatch(p))
        /\ WF_vars(FetchFailed(p))
        /\ WF_vars(AckSucceeded(p))
        /\ WF_vars(AckFailed(p))
        /\ WF_vars(DropReply(p))

Safety == Init /\ [][Next]_vars
Spec == Safety /\ Fairness

-----------------------------------------------------------------------------
(***************************************************************************)
(* Properties.                                                             *)
(***************************************************************************)

\* The committed operations in commit order, as II and the archive together
\* know them.  Missing marks one that neither of them has.
Missing == "missing"

History ==
    [i \in 1..nextSeq |-> IF i <= Len(log) THEN log[i].anchor
                          ELSE IF i - 1 \in DOMAIN buffer THEN buffer[i - 1]
                          ELSE Missing]

\* The archive log holds sequence numbers 0, 1, 2, ...: overlapping executions
\* of the archive's fetch_entries never write an entry twice, skip one, or
\* write it out of order, whatever order their replies come in.
GapFreeLog == \A i \in 1..Len(log) : log[i].seq = i - 1

\* Every operation written to anchor storage is in the log or still buffered:
\* acknowledge_entries never prunes what the archive does not have, and
\* archive_operation never lets a write commit that it did not buffer.
WritesAreAccounted ==
    \A a \in Anchors :
        written[a] = Cardinality({i \in 1..nextSeq : History[i] = a})

\* The log has the entry with sequence number s and this anchor.
InLog(s, anchor) == [seq |-> s, anchor |-> anchor] \in Range(log)

\* What an acknowledgement under way was sent for, and what acknowledge_entries
\* would now prune for it, is in the log, even when the archive was upgraded
\* between write_entry, the call of acknowledge_entries and its delivery.
AcknowledgedIsArchived ==
    \A p \in Polls : pc[p] = "acking" =>
        /\ \A s \in DOMAIN batch[p] : InLog(s, batch[p][s])
        /\ \A s \in Pruned(Max(DOMAIN batch[p])) : InLog(s, buffer[s])

\* get_anchor_entries can rely on the index: it points to every log entry,
\* under the anchor of that entry, and to nothing else.
IndexMatchesLog == index = {<<log[i].anchor, i - 1>> : i \in 1..Len(log)}

\* Archived entries are never changed or removed, not even by an upgrade.
LogAppendOnly ==
    [][/\ Len(log') >= Len(log)
       /\ \A i \in 1..Len(log) : log'[i] = log[i]]_vars

\* Every buffered entry is eventually acknowledged and pruned: a full buffer,
\* which blocks all anchor operations, does not stay full.
BufferDrains ==
    \A s \in 0..(MaxOps - 1) : s \in DOMAIN buffer ~> s \notin DOMAIN buffer

\* The pipeline implements an exactly-once, ordered archive of operations.
AL == INSTANCE ArchiveLog WITH history <- History, archived <- Len(log)

ArchivesExactlyOnceInOrder == AL!Spec

=============================================================================
