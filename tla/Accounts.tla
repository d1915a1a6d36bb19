------------------------------ MODULE Accounts ------------------------------
(***************************************************************************)
(* The accounts by which an identity (an anchor) appears to a dapp as      *)
(* different users (account_management.rs, storage.rs, storage/account.rs).*)
(*                                                                         *)
(* Each anchor has for each origin a default account, which exists without *)
(* being stored.  Naming it gives it a number and stores it; additional    *)
(* accounts are numbered and stored from the start.  What the dapp sees of *)
(* an account is its principal, which is derived from the anchor for a     *)
(* default account, stored or not, and from the number for the others.     *)
(* Four counters are kept besides.                                         *)
(*                                                                         *)
(* Names and times of last use are left out, and with them the calls that  *)
(* change nothing else.  All of this is in stable memory.                  *)
(***************************************************************************)
EXTENDS Integers, FiniteSets, Functions

CONSTANTS
    Anchors,        \* identities
    Origins,        \* frontend hostnames of dapps
    MaxAccounts,    \* MAX_ANCHOR_ACCOUNTS
    MaxNumber,      \* bound on the account numbers
    MaxRebuilds     \* bound on the number of rebuilds

ASSUME AccountsAssumption ==
    MaxAccounts \in Nat /\ MaxNumber \in Nat /\ MaxRebuilds \in Nat

VARIABLES
    accounts,   \* stable_account_memory: number |-> [seedFrom : {} or {anchor}]
    refs,       \* stable_account_reference_list_memory: <<anchor, origin>> |-> numbers
    defaults,   \* stable_anchor_application_config_memory: default_account_number
    ofAnchor,   \* stable_anchor_account_counter_memory
    ofApp,      \* the known applications and their counters
    total,      \* stable_account_counter_memory
    rebuilds    \* stable_account_counter_discrepancy_counter_memory

counters == <<ofAnchor, ofApp, total, rebuilds>>
vars == <<accounts, refs, defaults, counters>>

Unnumbered == 0     \* None in the place of an account number
Numbers == 1..MaxNumber
Counter == [accounts : Nat, refs : Nat]
Zero == [accounts |-> 0, refs |-> 0]

TypeOK ==
    /\ DOMAIN accounts = 1..total.accounts
    /\ \A n \in DOMAIN accounts : accounts[n].seedFrom \in SUBSET Anchors
    /\ DOMAIN refs \subseteq Anchors \X DOMAIN ofApp
    /\ \A x \in DOMAIN refs : refs[x] \subseteq DOMAIN accounts \cup {Unnumbered}
    /\ DOMAIN defaults \subseteq Anchors \X DOMAIN ofApp
    /\ \A x \in DOMAIN defaults : defaults[x] \in DOMAIN accounts \cup {Unnumbered}
    /\ ofAnchor \in [Anchors -> [accounts : 0..MaxAccounts, refs : Nat]]
    /\ DOMAIN ofApp \subseteq Origins
    /\ \A o \in DOMAIN ofApp : ofApp[o] \in Counter
    /\ total \in Counter
    /\ rebuilds \in 0..MaxRebuilds

Empty == [x \in {} |-> 0]

Init ==
    /\ accounts = Empty
    /\ refs = Empty
    /\ defaults = Empty
    /\ ofAnchor = [a \in Anchors |-> Zero]
    /\ ofApp = Empty
    /\ total = Zero
    /\ rebuilds = 0

Put(f, x, y) == [z \in DOMAIN f \cup {x} |-> IF z = x THEN y ELSE f[z]]
Get(f, x, default) == IF x \in DOMAIN f THEN f[x] ELSE default

-----------------------------------------------------------------------------
(***************************************************************************)
(* Reading.                                                                *)
(***************************************************************************)

\* read_account finds it: a default account that is not stored, or one that the
\* anchor has a reference to for this very origin.
Readable(a, o, n) ==
    IF n = Unnumbered
    THEN <<a, o>> \in DOMAIN refs => Unnumbered \in refs[<<a, o>>]
    ELSE n \in DOMAIN accounts /\ n \in Get(refs, <<a, o>>, {})

\* list_accounts
Listed(a, o) ==
    IF <<a, o>> \in DOMAIN refs
    THEN {n \in refs[<<a, o>>] : Readable(a, o, n)}
    ELSE {Unnumbered}

\* calculate_seed of an account that is readable
Seed(a, o, n) ==
    IF n = Unnumbered THEN <<"anchor", a, o>>
    ELSE IF accounts[n].seedFrom # {}
         THEN <<"anchor", CHOOSE b \in accounts[n].seedFrom : TRUE, o>>
         ELSE <<"account", n, o>>

Seeds(a, o) == {Seed(a, o, n) : n \in Listed(a, o)}

\* get_account_for_origin, for the attributes: without a number the default
\* account whether or not it is stored under one, else as read_account.
Obtained(a, o) ==
    {Unnumbered} \cup {n \in Numbers : o \in DOMAIN ofApp /\ Readable(a, o, n)}

ObtainedSeed(a, o, n) == IF n = Unnumbered THEN <<"anchor", a, o>> ELSE Seed(a, o, n)

\* The number in the answer of get_default_account.
DefaultOf(a, o) == Get(defaults, <<a, o>>, Unnumbered)

-----------------------------------------------------------------------------
(***************************************************************************)
(* The limit and the counters.                                             *)
(***************************************************************************)

RefsOf(a) == {x \in DOMAIN refs : x[1] = a}

\* How many of some lists' references are stored accounts; all references.
Counted(lists) ==
    [accounts |-> Cardinality(UNION {{x} \X (refs[x] \ {Unnumbered}) : x \in lists}),
     refs |-> Cardinality(UNION {{x} \X refs[x] : x \in lists})]

AtLimit(n) == n >= MaxAccounts

\* check_or_rebuild_max_anchor_accounts: at the limit the counter is rebuilt
\* before it is believed.
Rebuilds(a) == IF AtLimit(ofAnchor[a].accounts) THEN 1 ELSE 0
Checked(a) == IF Rebuilds(a) = 1 THEN Counted(RefsOf(a)) ELSE ofAnchor[a]

Plus(counter, m, n) ==
    [accounts |-> counter.accounts + m, refs |-> counter.refs + n]

\* One account and n references more: allocate_account_number, update_counters.
Count(a, o, n) ==
    /\ rebuilds + Rebuilds(a) <= MaxRebuilds
    /\ rebuilds' = rebuilds + Rebuilds(a)
    /\ ofAnchor' = [ofAnchor EXCEPT ![a] = Plus(Checked(a), 1, n)]
    /\ ofApp' = Put(ofApp, o, Plus(Get(ofApp, o, Zero), 1, n))
    /\ total' = Plus(total, 1, n)

\* Mutant: numbers are counted for each anchor.
NumberOfAnchor(a) == ofAnchor[a].accounts + 1

NextNumber(a) == total.accounts + 1

\* An account beyond the limit is refused, but the rebuilt counter remains.
Refuse(a) ==
    /\ AtLimit(Checked(a).accounts)
    /\ rebuilds + Rebuilds(a) <= MaxRebuilds
    /\ rebuilds' = rebuilds + Rebuilds(a)
    /\ ofAnchor' = [ofAnchor EXCEPT ![a] = Checked(a)]
    /\ UNCHANGED <<accounts, refs, defaults, ofApp, total>>

-----------------------------------------------------------------------------
(***************************************************************************)
(* The operations.                                                         *)
(***************************************************************************)

\* Mutant: the reference to the default account is not counted.
CountedOnce(a, o) == 1

\* The first additional account brings a reference to the default one with it.
NewRefs(a, o) == IF <<a, o>> \in DOMAIN refs THEN 1 ELSE 2

\* create_account
CreateAccount(a, o) ==
    LET n == NextNumber(a) IN
    /\ n \in Numbers
    /\ ~AtLimit(Checked(a).accounts)
    /\ accounts' = Put(accounts, n, [seedFrom |-> {}])
    /\ refs' = Put(refs, <<a, o>>, Get(refs, <<a, o>>, {Unnumbered}) \cup {n})
    /\ Count(a, o, NewRefs(a, o))
    /\ UNCHANGED defaults

\* Mutant: a stored default account is like any other.
SeedFromNumber(a) == {}

SeedFromAnchor(a) == {a}

\* update_account of the default account.  If it is stored already it cannot
\* be read by no number, and the call traps.
NameDefault(a, o) ==
    LET n == NextNumber(a) IN
    /\ n \in Numbers
    /\ ~AtLimit(Checked(a).accounts)
    /\ Readable(a, o, Unnumbered)
    /\ accounts' = Put(accounts, n, [seedFrom |-> SeedFromAnchor(a)])
    /\ refs' = Put(refs, <<a, o>>, (Get(refs, <<a, o>>, {}) \ {Unnumbered}) \cup {n})
    /\ defaults' = Put(defaults, <<a, o>>, n)
    /\ Count(a, o, IF <<a, o>> \in DOMAIN refs THEN 0 ELSE 1)

\* set_default_account checks only a number.
MayBeDefault(a, o, n) == n = Unnumbered \/ Readable(a, o, n)

\* lookup_or_insert_application_number_with_origin
AppStored(o) == Put(ofApp, o, Get(ofApp, o, Zero))

\* set_default_account.  Even if it fails it has stored the application.
SetDefault(a, o, n) ==
    /\ ofApp' = AppStored(o)
    /\ defaults' = IF MayBeDefault(a, o, n) THEN Put(defaults, <<a, o>>, n) ELSE defaults
    /\ UNCHANGED <<accounts, refs, ofAnchor, total, rebuilds>>

Next ==
    \E a \in Anchors :
        \/ Refuse(a)
        \/ \E o \in Origins :
              \/ CreateAccount(a, o)
              \/ NameDefault(a, o)
              \/ \E n \in Numbers \cup {Unnumbered} : SetDefault(a, o, n)

Spec == Init /\ [][Next]_vars

-----------------------------------------------------------------------------
(***************************************************************************)
(* Properties.                                                             *)
(***************************************************************************)

\* "Verifies that different accounts on the same origin yield different
\* principals": no two accounts that can be listed, of whichever anchors and
\* origins, have the same seed.
DistinctSeeds ==
    \A x, y \in Anchors \X Origins :
        \A m \in Listed(x[1], x[2]), n \in Listed(y[1], y[2]) :
            Seed(x[1], x[2], m) = Seed(y[1], y[2], n) => x = y /\ m = n

\* Whichever way an account is obtained, it is one of those that are listed:
\* attributes and delegations are for the same principals, also while the
\* default account, which only the former obtain without a number, is stored.
ObtainedIsListed ==
    \A a \in Anchors, o \in Origins : \A n \in Obtained(a, o) :
        ObtainedSeed(a, o, n) \in Seeds(a, o)

\* get_default_account: "An Err case indicates internal inconsistency in the
\* canister state", so there is none: a number is that of a readable account.
DefaultIsConsistent ==
    \A a \in Anchors, o \in Origins :
        DefaultOf(a, o) # Unnumbered => Readable(a, o, DefaultOf(a, o))

\* An account is one principal, of one user, whichever way it is obtained
\* (calculate_seed, read_account, get_account_for_origin, get_default_account).
SeedsAreUnique == DistinctSeeds /\ ObtainedIsListed /\ DefaultIsConsistent

\* "Updating has no influence on the principal of the account": whatever is
\* created, named or made the default, the user keeps every principal at every
\* dapp, also the one of the default account.
PrincipalsAreKeptStep ==
    \A a \in Anchors, o \in Origins : Seeds(a, o) \subseteq Seeds(a, o)'

PrincipalsAreKept == [][PrincipalsAreKeptStep]_vars

\* The four counters agree with the references that they count, and no anchor
\* has more accounts than it may (allocate_account_number, update_counters).
CountersAreExact ==
    /\ TypeOK
    /\ \A a \in Anchors : ofAnchor[a] = Counted(RefsOf(a))
    /\ \A o \in DOMAIN ofApp : ofApp[o] = Counted({x \in DOMAIN refs : x[2] = o})
    /\ total = Counted(DOMAIN refs)

=============================================================================
