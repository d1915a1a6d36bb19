--------------------------- MODULE ArchiveQueries ---------------------------
(***************************************************************************)
(* How clients read the archive page by page while it grows                *)
(* (src/archive/src/main.rs: get_entries and get_anchor_entries).          *)
(*                                                                         *)
(* The log grows at its end, with the time of Internet Identity at which   *)
(* the operation took place, which does not go back.  A page of an anchor  *)
(* ends with a cursor, from which the client asks for the next page; a     *)
(* page of the log is followed by the one that starts where it ended.      *)
(***************************************************************************)
EXTENDS Naturals, Sequences, SequencesExt, FiniteSets, FiniteSetsExt

CONSTANTS
    Anchors,                \* anchor numbers, in Nat
    Readers,                \* clients
    Limits,                 \* limits of pages that clients ask for, in Nat
    max_entries_per_call,   \* the limit of the archive
    MaxEntries,             \* bounds the log
    MaxTime,                \* bounds the time
    None                    \* no limit, no cursor, no position

QueriesAssumption ==
    /\ Anchors \subseteq Nat /\ Limits \subseteq Nat
    /\ max_entries_per_call \in Nat \ {0}
    /\ MaxEntries \in Nat /\ MaxTime \in Nat

VARIABLES
    log,    \* LOG: sequence of [anchor, timestamp]
    index,  \* ANCHOR_INDEX: set of keys <<anchor, timestamp, log index>>
    now,    \* the time of Internet Identity
    reader  \* what each client reads, from where, and what it has got

vars == <<log, index, now, reader>>

\* The order of AnchorIndexKey, which is that of its big-endian bytes.
Precedes(k, l) ==
    \/ k[1] < l[1]
    \/ k[1] = l[1] /\ k[2] < l[2]
    \/ k[1] = l[1] /\ k[2] = l[2] /\ k[3] < l[3]

\* index.range(start..end)
RangeScan(start, end) ==
    SetToSortSeq({k \in index : ~Precedes(k, start) /\ Precedes(k, end)}, Precedes)

LimitOrDefault(limit) ==
    IF limit # None /\ limit < max_entries_per_call THEN limit ELSE max_entries_per_call

\* get_entries: the positions in the log, from 0.
GetEntries(start, limit) ==
    LET n == LimitOrDefault(limit)
        first == IF start # None THEN start ELSE IF n < Len(log) THEN Len(log) - n ELSE 0
    IN  SelectSeq([i \in 1..n |-> first + i - 1], LAMBDA i : i < Len(log))

\* A cursor is a time stamp or the key in a next token.
Timestamp(t) == [timestamp |-> t]
NextToken(key) == [next_token |-> key]

StartKey(anchor, cursor) ==
    IF cursor = None THEN <<anchor, 0, 0>>
    ELSE IF "timestamp" \in DOMAIN cursor THEN <<anchor, cursor.timestamp, 0>>
    ELSE cursor.next_token

\* Mutant: the next page starts after the entry that was taken in excess.
PageCutShort(anchor, cursor, limit) ==
    LET n == LimitOrDefault(limit)
        keys == RangeScan(StartKey(anchor, cursor), <<anchor + 1, 0, 0>>)
        taken == SubSeq(keys, 1, IF Len(keys) < n THEN Len(keys) ELSE n)
    IN  [entries |-> [i \in DOMAIN taken |-> taken[i][3]],
         cursor |-> IF Len(keys) <= n + 1 THEN None ELSE NextToken(keys[n + 2])]

\* get_anchor_entries: one key too many is taken for the cursor.
GetAnchorEntries(anchor, cursor, limit) ==
    LET n == LimitOrDefault(limit)
        keys == RangeScan(StartKey(anchor, cursor), <<anchor + 1, 0, 0>>)
        taken == SubSeq(keys, 1, IF Len(keys) < n THEN Len(keys) ELSE n)
    IN  [entries |-> [i \in DOMAIN taken |-> taken[i][3]],
         cursor |-> IF Len(keys) <= n THEN None ELSE NextToken(keys[n + 1])]

-----------------------------------------------------------------------------
Idle == [reads |-> "nothing", anchor |-> None, from |-> None, cursor |-> None,
         got |-> <<>>, length |-> 0]

Init ==
    /\ log = <<>> /\ index = {} /\ now = 0
    /\ reader = [r \in Readers |-> Idle]

\* write_entry_internal
WriteEntry(anchor) ==
    /\ Len(log) < MaxEntries
    /\ log' = Append(log, [anchor |-> anchor, timestamp |-> now])
    /\ index' = index \cup {<<anchor, now, Len(log)>>}
    /\ UNCHANGED <<now, reader>>

Tick == now < MaxTime /\ now' = now + 1 /\ UNCHANGED <<log, index, reader>>

\* The first page of an anchor, from its beginning or from a time.
StartAnchor(r) ==
    /\ reader[r].reads = "nothing"
    /\ \E a \in Anchors, t \in {None} \cup 0..MaxTime, limit \in {None} \cup Limits :
          LET page == GetAnchorEntries(a, IF t = None THEN None ELSE Timestamp(t), limit) IN
          reader' = [reader EXCEPT ![r] =
              [reads |-> IF page.cursor = None THEN "all" ELSE "anchor", anchor |-> a,
               from |-> t, cursor |-> page.cursor, got |-> page.entries, length |-> Len(log)]]
    /\ UNCHANGED <<log, index, now>>

NextOfAnchor(r) ==
    /\ reader[r].reads = "anchor"
    /\ \E limit \in {None} \cup Limits :
          LET page == GetAnchorEntries(reader[r].anchor, reader[r].cursor, limit) IN
          reader' = [reader EXCEPT ![r].reads = IF page.cursor = None THEN "all" ELSE "anchor",
              ![r].cursor = page.cursor, ![r].got = @ \o page.entries, ![r].length = Len(log)]
    /\ UNCHANGED <<log, index, now>>

\* The last entries of the log, or those from a position on.
StartLog(r) ==
    /\ reader[r].reads = "nothing"
    /\ \E limit \in {None} \cup Limits, i \in {None} \cup 0..MaxEntries :
          reader' = [reader EXCEPT ![r] =
              [Idle EXCEPT !.reads = "log", !.got = GetEntries(i, limit), !.length = Len(log),
                           !.from = IF i = None THEN Len(log) - Len(GetEntries(i, limit)) ELSE i]]
    /\ UNCHANGED <<log, index, now>>

NextOfLog(r) ==
    /\ reader[r].reads = "log"
    /\ \E limit \in {None} \cup Limits :
          reader' = [reader EXCEPT ![r].length = Len(log),
              ![r].got = @ \o GetEntries(reader[r].from + Len(@), limit)]
    /\ UNCHANGED <<log, index, now>>

Next ==
    \/ \E anchor \in Anchors : WriteEntry(anchor)
    \/ Tick
    \/ \E r \in Readers : StartAnchor(r) \/ NextOfAnchor(r) \/ StartLog(r) \/ NextOfLog(r)

Spec == Init /\ [][Next]_vars

-----------------------------------------------------------------------------
(***************************************************************************)
(* Properties.                                                             *)
(***************************************************************************)

\* Types: the index holds the keys of the log's entries.
TypeOK ==
    /\ \A i \in DOMAIN log : log[i] \in [anchor : Anchors, timestamp : 0..now]
    /\ index = {<<log[i].anchor, log[i].timestamp, i - 1>> : i \in DOMAIN log}
    /\ \A r \in Readers : reader[r].reads \in {"nothing", "anchor", "log", "all"}

\* The positions that belong to what a client reads, in the log as it was when
\* the client asked last.
Wanted(r) ==
    SelectSeq([i \in 1..r.length |-> i - 1], LAMBDA i :
        IF r.reads = "log" THEN i >= r.from
        ELSE log[i + 1].anchor = r.anchor /\ (r.from = None \/ log[i + 1].timestamp >= r.from))

\* A client that follows the cursors gets every entry once and in the order of
\* the log, whatever limits it asks for and however the log grows meanwhile, and
\* where a page has no cursor there is nothing left.
PagesAreComplete ==
    \A r \in Readers :
        /\ reader[r].reads # "nothing" => IsPrefix(reader[r].got, Wanted(reader[r]))
        /\ reader[r].reads = "all" => reader[r].got = Wanted(reader[r])

=============================================================================
