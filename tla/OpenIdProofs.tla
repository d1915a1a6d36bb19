---------------------------- MODULE OpenIdProofs ----------------------------
(***************************************************************************)
(* The two sides of OpenID: what discovery finds out about a provider, and *)
(* what is signed for the credentials that providers vouch for.            *)
(*                                                                         *)
(* Discovery, for any static providers, domains, documents, allowlists and *)
(* any number of overlapping runs: a domain has one provider, and what it  *)
(* knows comes from one run (theorem NoMixedDiscovery).  A run keeps what  *)
(* its two hops have returned across awaits in which tasks are added,      *)
(* documents change and other runs finish.  RunInv says that both          *)
(* documents were published, the second where the first one points;        *)
(* TaskInv that a provider has only what such a pair says.                 *)
(*                                                                         *)
(* Attributes, for any providers, credentials, tokens and requests: what   *)
(* was prepared is returned, what is signed is true, what can be certified *)
(* is listed, and a credential has the scope of the provider that verified *)
(* it.  AttributesInv says that every answer has its signatures in the map *)
(* for as long as they may be asked for, and that every signature is true  *)
(* of what the identity has had, which a waiting call has read already.    *)
(***************************************************************************)
EXTENDS OpenIdProviders, Attributes, IntegerLemmas, FiniteSetTheorems, SequenceTheorems, TLAPS

IsSeq(s) == s \in Seq(Range(s))

Fields == {"domain", "client", "conf", "issuer", "name", "lastUri", "keys"}

PublishedBy(v, l) == {Documents[l][i] : i \in 1..v[l]}

Versions(v) ==
    /\ DOMAIN v = DOMAIN Documents
    /\ \A l \in DOMAIN Documents : v[l] \in 1..Len(Documents[l])

\* ValidDiscoveryUrl and ValidDocument under an allowlist.
Permits(a, l) ==
    /\ ~(l \in Malformed)
    /\ l \in DOMAIN HttpHost => HttpHost[l] \in (IF a = None THEN DefaultDomains ELSE a)

ValidFor(a, conf, doc) ==
    doc # Unreadable /\ doc.issuer[1] = HostOf[conf] /\ Permits(a, doc.uri)

\* What t knows of its domain comes from two documents that belong together.
FoundTogether(t, v, a) ==
    \E ii \in PublishedBy(v, t.domain) :
        /\ ii # Unreadable /\ ~(ii.conf \in Malformed)
        /\ t.client = ii.client /\ t.conf = ii.conf /\ t.name = ii.name
        /\ \E doc \in PublishedBy(v, ii.conf) :
            ValidFor(a, ii.conf, doc) /\ t.issuer = doc.issuer /\ t.lastUri = doc.uri

TaskInv(t, v, a) ==
    /\ DOMAIN t = Fields
    /\ t.domain \in Domains
    /\ t.client = None => t.issuer = None
    /\ t.client # None => FoundTogether(t, v, a)

\* A run is between two domains or at one of the tasks ts.
RunInv(r, ts, v) ==
    /\ DOMAIN r = {"todo", "hop", "ii", "doc"}
    /\ r.hop \in 0..2
    /\ r.todo \in Seq(1..Len(ts))
    /\ r.hop # 0 =>
          /\ r.todo # <<>>
          /\ r.ii \in PublishedBy(v, ts[Head(r.todo)].domain)
    /\ r.hop = 2 =>
          /\ r.ii # Unreadable /\ ~(r.ii.conf \in Malformed)
          /\ r.doc \in PublishedBy(v, r.ii.conf)

\* Tasks and persisted domains are the same, and no two are equal.
TasksArePersisted ==
    /\ IsSeq(tasks) /\ IsSeq(persisted) /\ Len(tasks) = Len(persisted)
    /\ \A i \in 1..Len(tasks) : tasks[i].domain = persisted[i].domain
    /\ \A i, j \in 1..Len(tasks) : tasks[i].domain = tasks[j].domain => i = j

Plain ==
    /\ allowlist \in Allowlists
    /\ \A i \in 1..Len(persisted) : persisted[i] \in [domain : Domains, mixed : BOOLEAN]
    /\ DOMAIN staticKeys = DOMAIN StaticConfigs
    /\ IsSeq(chains) /\ Len(chains) <= MaxChains
    /\ timers \in [once : Nat, periodic : BOOLEAN]
    /\ restarts \in 0..MaxRestarts

IInv ==
    /\ Plain
    /\ Versions(version)
    /\ TasksArePersisted
    /\ \A i \in 1..Len(tasks) : TaskInv(tasks[i], version, allowlist)
    /\ DOMAIN runs = 1..MaxRuns
    /\ \A r \in 1..MaxRuns : RunInv(runs[r], tasks, version)

-----------------------------------------------------------------------------
(***************************************************************************)
(* Sequences of anything.                                                  *)
(***************************************************************************)

LEMMA IsSeqFacts ==
    ASSUME NEW s, IsSeq(s)
    PROVE  /\ Len(s) \in Nat /\ DOMAIN s = 1..Len(s)
           /\ s = [i \in 1..Len(s) |-> s[i]]
  BY LenProperties DEF IsSeq

LEMMA FunctionIsSeq ==
    ASSUME NEW n \in Nat, NEW s, s = [i \in 1..n |-> s[i]]
    PROVE  IsSeq(s) /\ Len(s) = n
<1>1. DOMAIN s = 1..n /\ \A i \in 1..n : s[i] \in Range(s)
  BY DEF Range
<1>2. s \in [1..n -> Range(s)]
  BY <1>1
<1>3. s \in Seq(Range(s))
  BY <1>2, SeqDef
<1> QED
  BY <1>1, <1>3, LenProperties DEF IsSeq

LEMMA AppendAny ==
    ASSUME NEW s, IsSeq(s), NEW x
    PROVE  /\ IsSeq(Append(s, x)) /\ Len(Append(s, x)) = Len(s) + 1
           /\ \A i \in 1..Len(s) : Append(s, x)[i] = s[i]
           /\ Append(s, x)[Len(s) + 1] = x
<1> DEFINE S == Range(s) \cup {x}
           t == Append(s, x)
<1>1. s \in Seq(S)
  BY SeqMonotonic DEF IsSeq
<1> HIDE DEF S
<1>2. x \in S
  BY DEF S
<1>3. /\ t \in Seq(S) /\ Len(t) = Len(s) + 1
      /\ \A i \in 1..Len(s) : t[i] = s[i]
      /\ t[Len(s) + 1] = x
  BY <1>1, <1>2, AppendProperties
<1>4. Len(t) \in Nat /\ t = [i \in 1..Len(t) |-> t[i]]
  BY <1>3, LenProperties
<1> HIDE DEF t
<1>5. IsSeq(t)
  BY <1>4, FunctionIsSeq
<1> QED
  BY <1>3, <1>5 DEF t

LEMMA ExceptAny ==
    ASSUME NEW s, IsSeq(s), NEW k, NEW x
    PROVE  /\ IsSeq([s EXCEPT ![k] = x]) /\ Len([s EXCEPT ![k] = x]) = Len(s)
           /\ \A i \in 1..Len(s) :
                 [s EXCEPT ![k] = x][i] = IF i = k THEN x ELSE s[i]
<1> DEFINE t == [s EXCEPT ![k] = x]
<1>1. Len(s) \in Nat /\ DOMAIN s = 1..Len(s)
  BY IsSeqFacts
<1>2. /\ t = [i \in 1..Len(s) |-> t[i]]
      /\ \A i \in 1..Len(s) : t[i] = IF i = k THEN x ELSE s[i]
  BY <1>1
<1> HIDE DEF t
<1>3. IsSeq(t) /\ Len(t) = Len(s)
  BY <1>1, <1>2, FunctionIsSeq
<1> QED
  BY <1>2, <1>3 DEF t

-----------------------------------------------------------------------------
(***************************************************************************)
(* What is published now is published for good.                            *)
(***************************************************************************)

LEMMA PublishedIsKept ==
    ASSUME Versions(version), NEW l \in DOMAIN Documents
    PROVE  Published(l) \in PublishedBy(version, l)
<1>1. version[l] \in 1..version[l]
  BY OpenIdProvidersAssumption DEF Versions
<1> QED
  BY <1>1 DEF Published, PublishedBy

\* Where a readable document of a domain leads, something is published.
LEMMA ConfIsPublished ==
    ASSUME NEW v, Versions(v), NEW d \in Domains, NEW ii \in PublishedBy(v, d), ii # Unreadable
    PROVE  /\ ii.client # None
           /\ ~(ii.conf \in Malformed) =>
                 /\ ii.conf \in DOMAIN Documents
                 /\ \A doc \in PublishedBy(v, ii.conf) :
                       doc # Unreadable => doc.issuer # None
<1>1. d \in DOMAIN Documents
  BY OpenIdProvidersAssumption
<1>2. \A l \in DOMAIN Documents : 1..v[l] \subseteq 1..Len(Documents[l])
  BY OpenIdProvidersAssumption DEF Versions
<1>3. PICK i \in 1..Len(Documents[d]) : ii = Documents[d][i]
  BY <1>1, <1>2 DEF PublishedBy
<1>4. /\ ii.client # None
      /\ ii.conf \notin Malformed =>
            /\ ii.conf \in DOMAIN Documents
            /\ \A j \in 1..Len(Documents[ii.conf]) :
                  Documents[ii.conf][j] # Unreadable => Documents[ii.conf][j].issuer # None
  BY <1>3, OpenIdProvidersAssumption
<1>5. ASSUME ~(ii.conf \in Malformed), NEW doc \in PublishedBy(v, ii.conf), doc # Unreadable
      PROVE  doc.issuer # None
  <2>1. ii.conf \in DOMAIN Documents
    BY <1>4, <1>5
  <2>2. PICK j \in 1..Len(Documents[ii.conf]) : doc = Documents[ii.conf][j]
    BY <1>2, <1>5, <2>1 DEF PublishedBy
  <2> QED
    BY <1>4, <1>5, <2>2
<1> QED
  BY <1>4, <1>5

\* No document is taken back.
Accumulates(v, w) ==
    \A l \in DOMAIN Documents : PublishedBy(v, l) \subseteq PublishedBy(w, l)

LEMMA TaskKept ==
    ASSUME NEW v, NEW w, Versions(v), Accumulates(v, w), NEW a, NEW t, TaskInv(t, v, a)
    PROVE  TaskInv(t, w, a)
<1> SUFFICES ASSUME t.client # None PROVE FoundTogether(t, w, a)
  BY DEF TaskInv
<1>1. PICK ii \in PublishedBy(v, t.domain) :
        /\ ii # Unreadable /\ ~(ii.conf \in Malformed)
        /\ t.client = ii.client /\ t.conf = ii.conf /\ t.name = ii.name
        /\ \E doc \in PublishedBy(v, ii.conf) :
            ValidFor(a, ii.conf, doc) /\ t.issuer = doc.issuer /\ t.lastUri = doc.uri
  BY DEF TaskInv, FoundTogether
<1>2. t.domain \in Domains /\ t.domain \in DOMAIN Documents /\ ii.conf \in DOMAIN Documents
  BY <1>1, ConfIsPublished, OpenIdProvidersAssumption DEF TaskInv
<1>3. PublishedBy(v, t.domain) \subseteq PublishedBy(w, t.domain)
      /\ PublishedBy(v, ii.conf) \subseteq PublishedBy(w, ii.conf)
  BY <1>2 DEF Accumulates
<1> QED
  BY <1>1, <1>3 DEF FoundTogether

\* A run goes on while tasks are added and changed: they stay in their places.
LEMMA RunKept ==
    ASSUME NEW v, NEW w, Versions(v), Accumulates(v, w), NEW ts, NEW us,
           Len(ts) \in Nat, Len(us) \in Nat, Len(ts) <= Len(us),
           \A i \in 1..Len(ts) : ts[i].domain \in Domains /\ us[i].domain = ts[i].domain,
           NEW r, RunInv(r, ts, v)
    PROVE  RunInv(r, us, w)
<1>1. r.todo \in Seq(1..Len(ts)) /\ 1..Len(ts) \subseteq 1..Len(us)
  BY DEF RunInv
<1>2. r.todo \in Seq(1..Len(us))
  BY <1>1, SeqMonotonic
<1>3. ASSUME r.hop # 0
      PROVE  /\ r.ii \in PublishedBy(w, us[Head(r.todo)].domain)
             /\ r.hop = 2 => r.doc \in PublishedBy(w, r.ii.conf)
  <2>1. r.todo # <<>> /\ r.ii \in PublishedBy(v, ts[Head(r.todo)].domain)
    BY <1>3 DEF RunInv
  <2>2. Head(r.todo) \in 1..Len(ts)
    BY <1>1, <2>1, HeadTailProperties
  <2> DEFINE d == ts[Head(r.todo)].domain
  <2>3. d \in Domains /\ us[Head(r.todo)].domain = d /\ d \in DOMAIN Documents
    BY <2>2, OpenIdProvidersAssumption
  <2>4. r.ii \in PublishedBy(v, d) /\ r.ii \in PublishedBy(w, d)
    BY <2>1, <2>3 DEF Accumulates
  <2> HIDE DEF d
  <2>5. ASSUME r.hop = 2 PROVE r.doc \in PublishedBy(w, r.ii.conf)
    <3>1. /\ r.ii # Unreadable /\ ~(r.ii.conf \in Malformed)
          /\ r.doc \in PublishedBy(v, r.ii.conf)
      BY <2>5 DEF RunInv
    <3>2. r.ii.conf \in DOMAIN Documents
      BY <2>3, <2>4, <3>1, ConfIsPublished
    <3> QED
      BY <3>1, <3>2 DEF Accumulates
  <2> QED
    BY <2>3, <2>4, <2>5
<1> QED
  BY <1>2, <1>3 DEF RunInv

-----------------------------------------------------------------------------
(***************************************************************************)
(* The actions.                                                            *)
(***************************************************************************)

\* A step that leaves the domains and the allowlist alone.
LEMMA Frame ==
    ASSUME IInv, Plain', UNCHANGED <<allowlist, persisted>>,
           Versions(version'), Accumulates(version, version'),
           IsSeq(tasks'), Len(tasks') = Len(tasks),
           \A i \in 1..Len(tasks) :
               tasks'[i].domain = tasks[i].domain /\ TaskInv(tasks'[i], version, allowlist),
           DOMAIN runs' = DOMAIN runs,
           \A r \in 1..MaxRuns : RunInv(runs'[r], tasks, version)
    PROVE  IInv'
<1>1. TasksArePersisted'
  BY DEF IInv, TasksArePersisted
<1>2. \A i \in 1..Len(tasks') : TaskInv(tasks'[i], version', allowlist')
  BY TaskKept DEF IInv
<1>3. Len(tasks) \in Nat
  BY IsSeqFacts DEF IInv, TasksArePersisted
<1>4. \A i \in 1..Len(tasks) : tasks[i].domain \in Domains
  BY DEF IInv, TaskInv
<1>5. \A r \in 1..MaxRuns : RunInv(runs'[r], tasks', version')
  BY <1>3, <1>4, RunKept DEF IInv
<1> QED
  BY <1>1, <1>2, <1>5 DEF IInv

LEMMA SameVersion == Accumulates(version, version)
  BY DEF Accumulates

\* The outcall for the next domain is made.
LEMMA NextTaskKeeps ==
    ASSUME IInv, NEW todo \in Seq(1..Len(tasks))
    PROVE  RunInv(NextTask(todo), tasks, version)
<1>1. CASE todo = <<>>
  BY <1>1 DEF NextTask, Idle, RunInv
<1>2. CASE todo # <<>>
  <2>1. Head(todo) \in 1..Len(tasks)
    BY <1>2, HeadTailProperties
  <2> DEFINE d == tasks[Head(todo)].domain
  <2>2. d \in DOMAIN Documents
    BY <2>1, OpenIdProvidersAssumption DEF IInv, TaskInv
  <2>3. Published(d) \in PublishedBy(version, d)
    BY <2>2, PublishedIsKept DEF IInv
  <2>4. NextTask(todo) = [todo |-> todo, hop |-> 1, ii |-> Published(d), doc |-> None]
    BY <1>2 DEF NextTask
  <2> HIDE DEF d
  <2> QED
    BY <1>2, <2>3, <2>4 DEF RunInv, d
<1> QED
  BY <1>1, <1>2

LEMMA SkipKeeps ==
    ASSUME IInv, NEW r \in DOMAIN runs, runs[r].hop # 0, Skip(r)
    PROVE  /\ DOMAIN runs' = DOMAIN runs
           /\ \A q \in 1..MaxRuns : RunInv(runs'[q], tasks, version)
<1>1. RunInv(runs[r], tasks, version)
  BY DEF IInv
<1>2. Tail(runs[r].todo) \in Seq(1..Len(tasks))
  BY <1>1, HeadTailProperties DEF RunInv
<1>3. RunInv(NextTask(Tail(runs[r].todo)), tasks, version)
  BY <1>2, NextTaskKeeps
<1> QED
  BY <1>3 DEF Skip, IInv

LEMMA StartRunKeeps ==
    ASSUME IInv, NEW r \in DOMAIN runs, StartRun(r)
    PROVE  IInv'
<1>1. Len(tasks) \in Nat
  BY IsSeqFacts DEF IInv, TasksArePersisted
<1>2. [i \in 1..Len(tasks) |-> i] \in Seq(1..Len(tasks))
  BY <1>1, SeqDef
<1>3. RunInv(NextTask([i \in 1..Len(tasks) |-> i]), tasks, version)
  BY <1>2, NextTaskKeeps
<1>4. /\ DOMAIN runs' = DOMAIN runs
      /\ \A q \in 1..MaxRuns : RunInv(runs'[q], tasks, version)
  BY <1>3 DEF StartRun, IInv
<1>5. Plain'
  <2>1. timers \in [once : Nat, periodic : BOOLEAN]
    BY DEF IInv, Plain
  <2>2. timers' \in [once : Nat, periodic : BOOLEAN]
    <3>1. CASE timers.once > 0 /\ timers' = [timers EXCEPT !.once = @ - 1]
      BY <2>1, <3>1
    <3> QED
      BY <2>1, <3>1 DEF StartRun
  <2> QED
    BY <2>2 DEF StartRun, IInv, Plain
<1>6. UNCHANGED <<allowlist, persisted, tasks, version>>
  BY DEF StartRun
<1> QED
  BY <1>4, <1>5, <1>6, Frame, SameVersion DEF IInv, TasksArePersisted

LEMMA ReceiveHop1Keeps ==
    ASSUME IInv, NEW r \in DOMAIN runs, NEW arrives, ReceiveHop1(r, arrives)
    PROVE  IInv'
<1> DEFINE ii == runs[r].ii
<1>1. /\ runs[r].hop = 1 /\ RunInv(runs[r], tasks, version)
      /\ UNCHANGED <<allowlist, persisted, tasks, staticKeys, chains, timers, version, restarts>>
  BY DEF ReceiveHop1, IInv
<1>2. /\ DOMAIN runs' = DOMAIN runs
      /\ \A q \in 1..MaxRuns : RunInv(runs'[q], tasks, version)
  <2>1. CASE Fetched(ii, arrives) /\ ValidDiscoveryUrl(ii.conf)
    <3> DEFINE next == [runs[r] EXCEPT !.hop = 2, !.doc = Published(ii.conf)]
    <3>1. runs' = [runs EXCEPT ![r].hop = 2, ![r].doc = Published(ii.conf)]
      BY <2>1 DEF ReceiveHop1
    <3>2. ii # Unreadable /\ ~(ii.conf \in Malformed)
      BY <2>1 DEF Fetched, ValidDiscoveryUrl
    <3>3. Head(runs[r].todo) \in 1..Len(tasks)
          /\ ii \in PublishedBy(version, tasks[Head(runs[r].todo)].domain)
      BY <1>1, HeadTailProperties DEF RunInv
    <3>4. ii.conf \in DOMAIN Documents
      BY <3>2, <3>3, ConfIsPublished DEF IInv, TaskInv
    <3>5. Published(ii.conf) \in PublishedBy(version, ii.conf)
      BY <3>4, PublishedIsKept DEF IInv
    <3>6. /\ DOMAIN next = {"todo", "hop", "ii", "doc"}
          /\ next.hop = 2 /\ next.todo = runs[r].todo /\ next.ii = ii
          /\ next.doc = Published(ii.conf)
      BY <1>1 DEF RunInv
    <3> HIDE DEF next
    <3>7. RunInv(next, tasks, version)
      BY <1>1, <3>2, <3>5, <3>6 DEF RunInv
    <3>8. runs' = [runs EXCEPT ![r] = next]
      BY <3>1 DEF next
    <3> QED
      BY <3>7, <3>8 DEF IInv
  <2>2. CASE ~(Fetched(ii, arrives) /\ ValidDiscoveryUrl(ii.conf))
    BY <1>1, <2>2, SkipKeeps DEF ReceiveHop1
  <2> QED
    BY <2>1, <2>2
<1>3. Plain'
  BY <1>1 DEF IInv, Plain
<1> QED
  BY <1>1, <1>2, <1>3, Frame, SameVersion DEF IInv, TasksArePersisted

\* A task is replaced by one of the same domain.
LEMMA ReplaceTask ==
    ASSUME IInv, NEW k, NEW x, tasks' = [tasks EXCEPT ![k] = x],
           k \in DOMAIN tasks => x.domain = tasks[k].domain /\ TaskInv(x, version, allowlist)
    PROVE  /\ IsSeq(tasks') /\ Len(tasks') = Len(tasks)
           /\ \A i \in 1..Len(tasks) :
                 tasks'[i].domain = tasks[i].domain /\ TaskInv(tasks'[i], version, allowlist)
<1>1. IsSeq(tasks) /\ DOMAIN tasks = 1..Len(tasks)
  BY IsSeqFacts DEF IInv, TasksArePersisted
<1>2. /\ IsSeq(tasks') /\ Len(tasks') = Len(tasks)
      /\ \A i \in 1..Len(tasks) : tasks'[i] = IF i = k THEN x ELSE tasks[i]
  BY <1>1, ExceptAny
<1> QED
  BY <1>1, <1>2 DEF IInv

\* Both hops of a run are taken over at once.
LEMMA ReceiveHop2Keeps ==
    ASSUME IInv, NEW r \in DOMAIN runs, NEW arrives, ReceiveHop2(r, arrives)
    PROVE  IInv'
<1> DEFINE ii == runs[r].ii
           doc == runs[r].doc
           k == Head(runs[r].todo)
           d == tasks[k].domain
<1>1. /\ runs[r].hop = 2 /\ Skip(r) /\ RunInv(runs[r], tasks, version)
      /\ UNCHANGED <<allowlist, persisted, staticKeys, timers, version, restarts>>
  BY DEF ReceiveHop2, IInv
<1>2. /\ DOMAIN runs' = DOMAIN runs
      /\ \A q \in 1..MaxRuns : RunInv(runs'[q], tasks, version)
  BY <1>1, SkipKeeps
<1>3. /\ k \in 1..Len(tasks) /\ TaskInv(tasks[k], version, allowlist)
      /\ ii \in PublishedBy(version, d) /\ ii # Unreadable /\ ~(ii.conf \in Malformed)
      /\ doc \in PublishedBy(version, ii.conf)
  BY <1>1, HeadTailProperties DEF RunInv, IInv
<1>4. IsSeq(chains) /\ IsSeq(tasks) /\ Len(chains) \in Nat
  BY IsSeqFacts DEF IInv, Plain, TasksArePersisted
<1>5. CASE Fetched(doc, arrives) /\ ValidDocument(ii.conf, doc)
  <2> DEFINE x == [tasks[k] EXCEPT !.client = ii.client, !.conf = ii.conf, !.name = ii.name,
                                   !.issuer = doc.issuer, !.lastUri = doc.uri]
  <2>1. /\ tasks' = [tasks EXCEPT ![k] = x]
        /\ \/ chains' = chains
           \/ /\ chains' = Append(chains, Chain("sso", k, doc.uri, 0))
              /\ Len(chains) < MaxChains
    BY <1>5 DEF ReceiveHop2
  <2>2. /\ DOMAIN x = Fields /\ x.domain = d
        /\ x.client = ii.client /\ x.conf = ii.conf /\ x.name = ii.name
        /\ x.issuer = doc.issuer /\ x.lastUri = doc.uri
    BY <1>3 DEF TaskInv, Fields
  <2> HIDE DEF x
  <2>3. ValidFor(allowlist, ii.conf, doc)
    BY <1>5 DEF ValidDocument, ValidDiscoveryUrl, Allowed, ValidFor, Permits
  <2>4. d \in Domains /\ ii.client # None
    BY <1>3, ConfIsPublished DEF TaskInv, IInv
  <2>5. TaskInv(x, version, allowlist)
    BY <1>3, <2>2, <2>3, <2>4 DEF TaskInv, FoundTogether
  <2>6. /\ IsSeq(tasks') /\ Len(tasks') = Len(tasks)
        /\ \A i \in 1..Len(tasks) :
              tasks'[i].domain = tasks[i].domain /\ TaskInv(tasks'[i], version, allowlist)
    BY <2>1, <2>2, <2>5, ReplaceTask
  <2>7. IsSeq(chains') /\ Len(chains') <= MaxChains
    <3>1. MaxChains \in Nat /\ Len(chains) <= MaxChains
      BY OpenIdProvidersAssumption DEF IInv, Plain
    <3>2. CASE chains' = chains
      BY <1>4, <3>1, <3>2
    <3> DEFINE new == Chain("sso", k, doc.uri, 0)
    <3>3. CASE chains' = Append(chains, new) /\ Len(chains) < MaxChains
      <4> HIDE DEF new
      <4>1. IsSeq(Append(chains, new)) /\ Len(Append(chains, new)) = Len(chains) + 1
        BY <1>4, AppendAny
      <4> QED
        BY <1>4, <3>1, <3>3, <4>1
    <3> QED
      BY <2>1, <3>2, <3>3
  <2>8. Plain'
    BY <1>1, <2>7 DEF IInv, Plain
  <2> QED
    BY <1>1, <1>2, <2>6, <2>8, Frame, SameVersion DEF IInv
<1>6. CASE ~(Fetched(doc, arrives) /\ ValidDocument(ii.conf, doc))
  <2>1. UNCHANGED <<tasks, chains>>
    BY <1>6 DEF ReceiveHop2
  <2>2. Plain'
    BY <1>1, <2>1 DEF IInv, Plain
  <2> QED
    BY <1>1, <1>2, <2>1, <2>2, Frame, SameVersion DEF IInv, TasksArePersisted
<1> QED
  BY <1>5, <1>6

\* Chains of timers replace keys and nothing else.
LEMMA ReceiveCertsKeeps ==
    ASSUME IInv, NEW c \in DOMAIN chains, NEW arrives, ReceiveCerts(c, arrives)
    PROVE  IInv'
<1> DEFINE ch == chains[c]
           ok == ch.reply # None /\ Fetched(ch.reply[1], arrives)
<1>1. /\ UNCHANGED <<allowlist, persisted, runs, timers, version, restarts>>
      /\ \E x : chains' = [chains EXCEPT ![c] = x]
      /\ \/ tasks' = tasks
         \/ tasks' = [tasks EXCEPT ![ch.owner].keys = ch.reply[1]]
      /\ \/ staticKeys' = staticKeys
         \/ staticKeys' = [staticKeys EXCEPT ![ch.owner] = ch.reply[1]]
  BY DEF ReceiveCerts
<1>2. /\ IsSeq(tasks') /\ Len(tasks') = Len(tasks)
      /\ \A i \in 1..Len(tasks) :
            tasks'[i].domain = tasks[i].domain /\ TaskInv(tasks'[i], version, allowlist)
  <2>1. CASE tasks' = tasks
    BY <2>1 DEF IInv, TasksArePersisted
  <2>2. CASE tasks' = [tasks EXCEPT ![ch.owner].keys = ch.reply[1]]
    <3> DEFINE x == [tasks[ch.owner] EXCEPT !.keys = ch.reply[1]]
    <3>1. tasks' = [tasks EXCEPT ![ch.owner] = x]
      BY <2>2
    <3>2. ASSUME ch.owner \in DOMAIN tasks
          PROVE  x.domain = tasks[ch.owner].domain /\ TaskInv(x, version, allowlist)
      <4>1. TaskInv(tasks[ch.owner], version, allowlist)
        BY <3>2, IsSeqFacts DEF IInv, TasksArePersisted
      <4>2. /\ DOMAIN x = DOMAIN tasks[ch.owner]
            /\ x.domain = tasks[ch.owner].domain /\ x.client = tasks[ch.owner].client
            /\ x.conf = tasks[ch.owner].conf /\ x.issuer = tasks[ch.owner].issuer
            /\ x.name = tasks[ch.owner].name /\ x.lastUri = tasks[ch.owner].lastUri
        BY <4>1 DEF TaskInv, Fields
      <4> HIDE DEF x
      <4> QED
        BY <4>1, <4>2 DEF TaskInv, FoundTogether
    <3> HIDE DEF x
    <3> QED
      BY <3>1, <3>2, ReplaceTask
  <2> QED
    BY <1>1, <2>1, <2>2
<1>3. IsSeq(chains') /\ Len(chains') = Len(chains) /\ DOMAIN staticKeys' = DOMAIN staticKeys
  <2>1. IsSeq(chains)
    BY DEF IInv, Plain
  <2>2. PICK x : chains' = [chains EXCEPT ![c] = x]
    BY <1>1
  <2> QED
    BY <1>1, <2>1, <2>2, ExceptAny
<1>4. Plain'
  BY <1>1, <1>3 DEF IInv, Plain
<1> QED
  BY <1>1, <1>2, <1>4, Frame, SameVersion DEF IInv

LEMMA RequestCertsKeeps ==
    ASSUME IInv, NEW c \in DOMAIN chains, RequestCerts(c)
    PROVE  IInv'
<1>1. /\ UNCHANGED <<allowlist, persisted, tasks, staticKeys, runs, timers, version, restarts>>
      /\ chains' = [chains EXCEPT ![c] = [chains[c] EXCEPT !.reply = <<Published(chains[c].uri)>>]]
  BY DEF RequestCerts
<1> DEFINE sent == [chains[c] EXCEPT !.reply = <<Published(chains[c].uri)>>]
<1>2. IsSeq(chains') /\ Len(chains') = Len(chains)
  <2>1. IsSeq(chains) /\ chains' = [chains EXCEPT ![c] = sent]
    BY <1>1 DEF IInv, Plain
  <2> HIDE DEF sent
  <2> QED
    BY <2>1, ExceptAny
<1>3. Plain'
  BY <1>1, <1>2 DEF IInv, Plain
<1> QED
  BY <1>1, <1>3, Frame, SameVersion DEF IInv, TasksArePersisted

LEMMA PublishKeeps ==
    ASSUME IInv, NEW l \in DOMAIN Documents, Publish(l)
    PROVE  IInv'
<1>1. /\ UNCHANGED <<allowlist, persisted, tasks, staticKeys, chains, runs, timers, restarts>>
      /\ version[l] < Len(Documents[l])
      /\ version' = [version EXCEPT ![l] = @ + 1]
      /\ Versions(version)
  BY DEF Publish, IInv
<1>2. \A m \in DOMAIN Documents :
          /\ version[m] \in Nat /\ version[m] <= Len(Documents[m])
          /\ Len(Documents[m]) \in Nat
          /\ version'[m] = IF m = l THEN version[m] + 1 ELSE version[m]
          /\ version[m] >= 1
  BY <1>1, OpenIdProvidersAssumption DEF Versions
<1>3. Versions(version')
  BY <1>1, <1>2 DEF Versions
<1>4. Accumulates(version, version')
  <2>1. \A m \in DOMAIN Documents : 1..version[m] \subseteq 1..version'[m]
    BY <1>2
  <2> QED
    BY <2>1 DEF Accumulates, PublishedBy
<1>5. Plain'
  BY <1>1 DEF IInv, Plain
<1> QED
  BY <1>1, <1>3, <1>4, <1>5, Frame DEF IInv, TasksArePersisted

LEMMA NewTaskInv ==
    ASSUME NEW d \in Domains, NEW v, NEW a
    PROVE  TaskInv(NewTask(d), v, a) /\ NewTask(d).domain = d
  BY DEF NewTask, TaskInv, Fields

\* A domain is added only if no task has it.
LEMMA AddOidcConfigKeeps ==
    ASSUME IInv, NEW d \in Domains, NEW m \in BOOLEAN,
           AddOidcConfig([domain |-> d, mixed |-> m])
    PROVE  IInv'
<1> DEFINE n == Len(tasks)
           task == NewTask(d)
           kept == [domain |-> d, mixed |-> FALSE]
<1>1. /\ UNCHANGED <<allowlist, staticKeys, chains, runs, version, restarts>>
      /\ tasks' = Append(tasks, task) /\ persisted' = Append(persisted, kept)
      /\ \A i \in DOMAIN tasks : tasks[i].domain # d
      /\ timers' = [once |-> timers.once + 1, periodic |-> TRUE]
  BY DEF AddOidcConfig
<1>2. /\ IsSeq(tasks) /\ IsSeq(persisted) /\ Len(persisted) = n
      /\ n \in Nat /\ DOMAIN tasks = 1..n
  BY IsSeqFacts DEF IInv, TasksArePersisted
<1>3. TaskInv(task, version, allowlist) /\ task.domain = d
  BY NewTaskInv
<1>4. kept.domain = d /\ kept \in [domain : Domains, mixed : BOOLEAN]
  OBVIOUS
<1> HIDE DEF task, kept
<1>5. /\ IsSeq(tasks') /\ Len(tasks') = n + 1
      /\ \A i \in 1..n : tasks'[i] = tasks[i]
      /\ tasks'[n + 1] = task
  BY <1>1, <1>2, AppendAny
<1>6. /\ IsSeq(persisted') /\ Len(persisted') = n + 1
      /\ \A i \in 1..n : persisted'[i] = persisted[i]
      /\ persisted'[n + 1] = kept
  BY <1>1, <1>2, AppendAny
<1>7. \A i \in 1..(n + 1) : i \in 1..n \/ i = n + 1
  BY <1>2
<1> HIDE DEF n
<1>8. TasksArePersisted'
  <2>1. \A i \in 1..(n + 1) : tasks'[i].domain = persisted'[i].domain
    BY <1>2, <1>3, <1>4, <1>5, <1>6, <1>7 DEF IInv, TasksArePersisted, n
  <2>2. ASSUME NEW i \in 1..(n + 1), NEW j \in 1..(n + 1),
               tasks'[i].domain = tasks'[j].domain
        PROVE  i = j
    <3>1. CASE i \in 1..n /\ j \in 1..n
      BY <1>5, <2>2, <3>1 DEF IInv, TasksArePersisted, n
    <3>2. CASE i = n + 1 /\ j \in 1..n
      BY <1>1, <1>2, <1>3, <1>5, <2>2, <3>2
    <3>3. CASE i \in 1..n /\ j = n + 1
      BY <1>1, <1>2, <1>3, <1>5, <2>2, <3>3
    <3> QED
      BY <1>7, <3>1, <3>2, <3>3
  <2> QED
    BY <1>5, <1>6, <2>1, <2>2 DEF TasksArePersisted
<1>9. \A i \in 1..Len(tasks') : TaskInv(tasks'[i], version', allowlist')
  BY <1>1, <1>3, <1>5, <1>7 DEF IInv, n
<1>10. \A r \in 1..MaxRuns : RunInv(runs'[r], tasks', version')
  <2>1. \A i \in 1..n : tasks[i].domain \in Domains /\ tasks'[i].domain = tasks[i].domain
    BY <1>5 DEF IInv, TaskInv, n
  <2>2. Len(tasks) = n /\ n \in Nat /\ n + 1 \in Nat /\ n <= n + 1
    BY <1>2 DEF n
  <2> QED
    BY <1>1, <1>5, <2>1, <2>2, RunKept, SameVersion DEF IInv
<1>11. Plain'
  <2>1. timers' \in [once : Nat, periodic : BOOLEAN]
    BY <1>1 DEF IInv, Plain
  <2>2. \A i \in 1..(n + 1) : persisted'[i] \in [domain : Domains, mixed : BOOLEAN]
    BY <1>2, <1>4, <1>6, <1>7 DEF IInv, Plain
  <2> QED
    BY <1>1, <1>6, <2>1, <2>2 DEF IInv, Plain
<1> QED
  BY <1>1, <1>8, <1>9, <1>10, <1>11 DEF IInv

\* What an installation or an upgrade starts with.
LEMMA FreshState ==
    ASSUME IsSeq(persisted), NEW v, Versions(v), NEW a \in Allowlists, NEW u \in 0..MaxRestarts,
           \A i \in 1..Len(persisted) : persisted[i] \in [domain : Domains, mixed : BOOLEAN],
           \A i, j \in 1..Len(persisted) : persisted[i].domain = persisted[j].domain => i = j,
           NEW ts, ts = [i \in DOMAIN persisted |-> NewTask(persisted[i].domain)]
    PROVE  /\ IsSeq(ts) /\ Len(ts) = Len(persisted)
           /\ \A i \in 1..Len(ts) : ts[i].domain = persisted[i].domain
           /\ \A i, j \in 1..Len(ts) : ts[i].domain = ts[j].domain => i = j
           /\ \A i \in 1..Len(ts) : TaskInv(ts[i], v, a)
           /\ RunInv(Idle, ts, v)
           /\ IsSeq(InitialChains) /\ Len(InitialChains) <= MaxChains
<1>1. Len(persisted) \in Nat /\ DOMAIN persisted = 1..Len(persisted)
  BY IsSeqFacts
<1>2. /\ ts = [i \in 1..Len(persisted) |-> ts[i]]
      /\ \A i \in 1..Len(persisted) : ts[i] = NewTask(persisted[i].domain)
  BY <1>1
<1>3. IsSeq(ts) /\ Len(ts) = Len(persisted)
  BY <1>1, <1>2, FunctionIsSeq
<1>4. \A i \in 1..Len(ts) : TaskInv(ts[i], v, a) /\ ts[i].domain = persisted[i].domain
  BY <1>2, <1>3, NewTaskInv
<1>5. RunInv(Idle, ts, v)
  BY EmptySeq DEF Idle, RunInv
<1>6. IsSeq(InitialChains) /\ Len(InitialChains) <= MaxChains
  <2>1. IsSeq(StaticConfigs) /\ Len(StaticConfigs) <= MaxChains
    BY OpenIdProvidersAssumption DEF IsSeq
  <2>2. DOMAIN StaticConfigs = 1..Len(StaticConfigs) /\ Len(StaticConfigs) \in Nat
    BY <2>1, IsSeqFacts
  <2>3. InitialChains = [i \in 1..Len(StaticConfigs) |-> InitialChains[i]]
    BY <2>2 DEF InitialChains
  <2> QED
    BY <2>1, <2>2, <2>3, FunctionIsSeq
<1>7. ASSUME NEW i \in 1..Len(ts), NEW j \in 1..Len(ts), ts[i].domain = ts[j].domain
      PROVE  i = j
  BY <1>3, <1>4, <1>7
<1>8. \A i \in 1..Len(ts) : ts[i].domain = persisted[i].domain
  BY <1>4
<1>9. \A i \in 1..Len(ts) : TaskInv(ts[i], v, a)
  BY <1>4
<1> QED
  BY <1>3, <1>5, <1>6, <1>7, <1>8, <1>9

LEMMA UpgradeKeeps ==
    ASSUME IInv, UpgradeProviders
    PROVE  IInv'
<1>1. /\ UNCHANGED <<persisted, version>>
      /\ allowlist' \in Allowlists
      /\ tasks' = [i \in DOMAIN persisted |-> NewTask(persisted[i].domain)]
      /\ DOMAIN staticKeys' = DOMAIN StaticConfigs
      /\ chains' = InitialChains
      /\ runs' = [r \in DOMAIN runs |-> Idle]
      /\ timers' = [once |-> IF persisted = <<>> THEN 0 ELSE 1, periodic |-> persisted # <<>>]
  BY DEF UpgradeProviders, IInv, Plain
<1>2. restarts' \in 0..MaxRestarts
  <2>1. restarts \in 0..MaxRestarts /\ restarts < MaxRestarts /\ restarts' = restarts + 1
        /\ MaxRestarts \in Nat
    BY OpenIdProvidersAssumption DEF UpgradeProviders, IInv, Plain
  <2> QED
    BY <2>1
<1>3. /\ IsSeq(persisted) /\ Versions(version)
      /\ \A i \in 1..Len(persisted) : persisted[i] \in [domain : Domains, mixed : BOOLEAN]
      /\ \A i, j \in 1..Len(persisted) : persisted[i].domain = persisted[j].domain => i = j
  BY DEF IInv, Plain, TasksArePersisted
<1>4. /\ IsSeq(tasks') /\ Len(tasks') = Len(persisted)
      /\ \A i \in 1..Len(tasks') : tasks'[i].domain = persisted[i].domain
      /\ \A i, j \in 1..Len(tasks') : tasks'[i].domain = tasks'[j].domain => i = j
      /\ \A i \in 1..Len(tasks') : TaskInv(tasks'[i], version, allowlist')
      /\ RunInv(Idle, tasks', version)
      /\ IsSeq(InitialChains) /\ Len(InitialChains) <= MaxChains
  BY SMTT(30), <1>1, <1>2, <1>3, FreshState
<1>5. timers' \in [once : Nat, periodic : BOOLEAN]
  BY <1>1
<1>6. Plain'
  BY <1>1, <1>2, <1>3, <1>4, <1>5 DEF Plain
<1>7. TasksArePersisted'
  BY <1>1, <1>3, <1>4 DEF TasksArePersisted
<1>8. DOMAIN runs' = 1..MaxRuns /\ \A r \in 1..MaxRuns : runs'[r] = Idle
  BY <1>1 DEF IInv
<1> QED
  BY <1>1, <1>3, <1>4, <1>6, <1>7, <1>8 DEF IInv

LEMMA InitEstablishes == ProvidersInit => IInv
<1> SUFFICES ASSUME ProvidersInit PROVE IInv
  OBVIOUS
<1>1. /\ allowlist \in Allowlists /\ restarts = 0
      /\ tasks = [i \in DOMAIN persisted |-> NewTask(persisted[i].domain)]
      /\ DOMAIN staticKeys = DOMAIN StaticConfigs
      /\ chains = InitialChains
      /\ runs = [r \in 1..MaxRuns |-> Idle]
      /\ timers = [once |-> IF persisted = <<>> THEN 0 ELSE 1, periodic |-> persisted # <<>>]
      /\ version = [l \in DOMAIN Documents |-> 1]
  BY DEF ProvidersInit
<1>2. 0 \in 0..MaxRestarts
  BY OpenIdProvidersAssumption
<1>3. Versions(version)
  BY <1>1, OpenIdProvidersAssumption DEF Versions
<1>4. /\ IsSeq(persisted)
      /\ \A i \in 1..Len(persisted) : persisted[i] \in [domain : Domains, mixed : BOOLEAN]
      /\ \A i, j \in 1..Len(persisted) : persisted[i].domain = persisted[j].domain => i = j
  <2>1. CASE persisted = <<>>
    <3>1. Len(persisted) = 0 /\ IsSeq(persisted)
      BY <2>1, EmptySeq DEF IsSeq
    <3> QED
      BY <3>1
  <2>2. ASSUME NEW d \in Domains, persisted = <<[domain |-> d, mixed |-> TRUE]>>
        PROVE  /\ IsSeq(persisted) /\ Len(persisted) = 1
               /\ persisted[1] \in [domain : Domains, mixed : BOOLEAN]
    <3> DEFINE x == [domain |-> d, mixed |-> TRUE]
    <3>1. x \in [domain : Domains, mixed : BOOLEAN]
      OBVIOUS
    <3> HIDE DEF x
    <3>2. persisted = <<x>>
      BY <2>2 DEF x
    <3>3. persisted = [i \in 1..1 |-> persisted[i]] /\ persisted[1] = x
      BY <3>2
    <3> QED
      BY <3>1, <3>3, FunctionIsSeq
  <2> QED
    BY <2>1, <2>2 DEF ProvidersInit
<1>5. /\ IsSeq(tasks) /\ Len(tasks) = Len(persisted)
      /\ \A i \in 1..Len(tasks) : tasks[i].domain = persisted[i].domain
      /\ \A i, j \in 1..Len(tasks) : tasks[i].domain = tasks[j].domain => i = j
      /\ \A i \in 1..Len(tasks) : TaskInv(tasks[i], version, allowlist)
      /\ RunInv(Idle, tasks, version)
      /\ IsSeq(InitialChains) /\ Len(InitialChains) <= MaxChains
  BY <1>1, <1>2, <1>3, <1>4, FreshState
<1>6. timers \in [once : Nat, periodic : BOOLEAN]
  BY <1>1
<1>7. Plain
  BY <1>1, <1>2, <1>4, <1>5, <1>6 DEF Plain
<1>8. TasksArePersisted
  BY <1>4, <1>5 DEF TasksArePersisted
<1> QED
  BY <1>1, <1>3, <1>5, <1>7, <1>8 DEF IInv

LEMMA NextPreserves == IInv /\ [ProvidersNext]_providerVars => IInv'
<1> SUFFICES ASSUME IInv, [ProvidersNext]_providerVars PROVE IInv'
  OBVIOUS
<1>1. CASE \E d \in Domains, mixed \in BOOLEAN : AddOidcConfig([domain |-> d, mixed |-> mixed])
  BY <1>1, AddOidcConfigKeeps
<1>2. CASE \E c \in DOMAIN chains : RequestCerts(c)
  BY <1>2, RequestCertsKeeps
<1>3. CASE \E c \in DOMAIN chains, arrives \in BOOLEAN : ReceiveCerts(c, arrives)
  BY <1>3, ReceiveCertsKeeps
<1>4. CASE \E r \in DOMAIN runs : StartRun(r)
  BY <1>4, StartRunKeeps
<1>5. CASE \E r \in DOMAIN runs, arrives \in BOOLEAN : ReceiveHop1(r, arrives)
  BY <1>5, ReceiveHop1Keeps
<1>6. CASE \E r \in DOMAIN runs, arrives \in BOOLEAN : ReceiveHop2(r, arrives)
  BY <1>6, ReceiveHop2Keeps
<1>7. CASE \E l \in DOMAIN Documents : Publish(l)
  BY <1>7, PublishKeeps
<1>8. CASE UpgradeProviders
  BY <1>8, UpgradeKeeps
<1>9. CASE UNCHANGED providerVars
  BY <1>9 DEF providerVars, IInv, Plain, Versions, TasksArePersisted
<1> QED
  BY <1>1, <1>2, <1>3, <1>4, <1>5, <1>6, <1>7, <1>8, <1>9 DEF ProvidersNext

-----------------------------------------------------------------------------
(***************************************************************************)
(* What follows.                                                           *)
(***************************************************************************)

\* The first task that passes a test.
LEMMA FirstTask ==
    ASSUME IInv, NEW S \in SUBSET (1..Len(tasks)), S # {}
    PROVE  Min(S) \in S /\ Min(S) # 0
<1>1. S \in SUBSET Nat
  BY IsSeqFacts DEF IInv, TasksArePersisted
<1> QED
  BY <1>1, MinNat

LEMMA DiscoveredIsATask ==
    ASSUME IInv, NEW d \in Domains, DiscoveredState(d).client # None
    PROVE  \E i \in 1..Len(tasks) : tasks[i].domain = d /\ DiscoveredState(d) = tasks[i]
<1> DEFINE S == {i \in 1..Len(tasks) : tasks[i].domain = d}
           first == IF S # {} THEN Min(S) ELSE 0
<1>1. DiscoveredState(d) = IF first = 0 THEN NewTask(d) ELSE tasks[first]
  BY DEF DiscoveredState, SelectInSeq
<1>2. NewTask(d).client = None
  BY DEF NewTask
<1>3. S # {} /\ first = Min(S)
  BY <1>1, <1>2
<1>4. Min(S) \in S /\ Min(S) # 0
  BY <1>3, FirstTask
<1> QED
  BY <1>1, <1>3, <1>4

LEMMA LabelIsATask ==
    ASSUME IInv, NEW i \in 1..Len(tasks)
    PROVE  \E j \in 1..Len(tasks) :
              SsoFields(tasks[i].issuer, tasks[i].client)
                  = [domain |-> tasks[j].domain, name |-> tasks[j].name]
<1> DEFINE iss == tasks[i].issuer
           aud == tasks[i].client
           S == {j \in 1..Len(tasks) : tasks[j].issuer = iss /\ tasks[j].client = aud}
           first == IF S # {} THEN Min(S) ELSE 0
<1>1. SsoFields(iss, aud) = IF first = 0 THEN [domain |-> None, name |-> None]
                            ELSE [domain |-> tasks[first].domain, name |-> tasks[first].name]
  BY DEF SsoFields, SelectInSeq
<1>2. S # {} /\ S \in SUBSET (1..Len(tasks))
  OBVIOUS
<1>3. first \in 1..Len(tasks) /\ first # 0
  BY <1>2, FirstTask
<1> HIDE DEF first
<1> QED
  BY <1>1, <1>3

\* add_oidc_config, run_discovery_tasks, fetch_certs and upgrades: however
\* runs overlap and fail, a domain has one provider, and its client id, its
\* issuer and its name come from two documents that belong together.
THEOREM NoMixedDiscovery == ProvidersSpec => []ProvidersAreWhole
<1>1. IInv => ProvidersAreWhole
  <2> SUFFICES ASSUME IInv PROVE ProvidersAreWhole
    OBVIOUS
  <2>1. /\ DOMAIN tasks = 1..Len(tasks) /\ DOMAIN persisted = 1..Len(persisted)
    BY IsSeqFacts DEF IInv, TasksArePersisted
  <2>2. OneProviderPerDomain
    BY <2>1 DEF IInv, TasksArePersisted, OneProviderPerDomain
  <2>3. ASSUME NEW i \in 1..Len(tasks)
        PROVE  tasks[i].domain \in Domains /\ (tasks[i].client = None) = (tasks[i].issuer = None)
    <3>1. TaskInv(tasks[i], version, allowlist)
      BY DEF IInv
    <3>2. tasks[i].client # None => tasks[i].issuer # None
      <4> SUFFICES ASSUME tasks[i].client # None PROVE tasks[i].issuer # None
        OBVIOUS
      <4>1. PICK ii \in PublishedBy(version, tasks[i].domain) :
              /\ ii # Unreadable /\ ~(ii.conf \in Malformed)
              /\ \E doc \in PublishedBy(version, ii.conf) :
                    ValidFor(allowlist, ii.conf, doc) /\ tasks[i].issuer = doc.issuer
        BY <3>1 DEF TaskInv, FoundTogether
      <4> QED
        BY <3>1, <4>1, ConfIsPublished DEF IInv, TaskInv, ValidFor
    <3> QED
      BY <3>1, <3>2 DEF TaskInv
  <2>4. \A r \in DOMAIN runs : runs[r].hop \in 0..2
    BY DEF IInv, RunInv
  <2>5. TypeOK
    BY <2>1, <2>3, <2>4 DEF TypeOK, IInv, Plain, Versions
  <2>6. ASSUME NEW d \in Domains, DiscoveredState(d).client # None
        PROVE  LET found == DiscoveredState(d)
                   label == SsoFields(found.issuer, found.client)
               IN  \E ii \in WasPublished(d) :
                     /\ ii # Unreadable
                     /\ <<found.client, found.conf>> = <<ii.client, ii.conf>>
                     /\ label.domain = d => label.name = ii.name
                     /\ \E doc \in WasPublished(ii.conf) :
                         /\ ValidDocument(ii.conf, doc)
                         /\ <<found.issuer, found.lastUri>> = <<doc.issuer, doc.uri>>
    <3>1. PICK i \in 1..Len(tasks) : tasks[i].domain = d /\ DiscoveredState(d) = tasks[i]
      BY <2>6, DiscoveredIsATask
    <3> DEFINE found == DiscoveredState(d)
               label == SsoFields(found.issuer, found.client)
    <3>2. PICK ii \in PublishedBy(version, d) :
            /\ ii # Unreadable
            /\ found.client = ii.client /\ found.conf = ii.conf /\ found.name = ii.name
            /\ \E doc \in PublishedBy(version, ii.conf) :
                /\ ValidFor(allowlist, ii.conf, doc)
                /\ found.issuer = doc.issuer /\ found.lastUri = doc.uri
      BY <2>6, <3>1 DEF IInv, TaskInv, FoundTogether
    <3>3. PICK j \in 1..Len(tasks) :
              label.domain = tasks[j].domain /\ label.name = tasks[j].name
      <4>1. PICK j \in 1..Len(tasks) :
                SsoFields(tasks[i].issuer, tasks[i].client)
                    = [domain |-> tasks[j].domain, name |-> tasks[j].name]
        BY LabelIsATask
      <4>2. label = [domain |-> tasks[j].domain, name |-> tasks[j].name]
        BY <3>1, <4>1
      <4> HIDE DEF label
      <4> QED
        BY <4>2
    <3>4. label.domain = d => label.name = ii.name
      <4>1. tasks[j].domain = tasks[i].domain => i = j
        BY DEF IInv, TasksArePersisted
      <4> QED
        BY <3>1, <3>2, <3>3, <4>1
    <3> HIDE DEF found, label
    <3>5. PICK doc \in PublishedBy(version, ii.conf) :
              /\ ValidFor(allowlist, ii.conf, doc)
              /\ found.issuer = doc.issuer /\ found.lastUri = doc.uri
      BY <3>2
    <3>6. ValidDocument(ii.conf, doc) /\ doc \in WasPublished(ii.conf)
      BY <3>5 DEF ValidDocument, ValidDiscoveryUrl, Allowed, ValidFor, Permits,
                  PublishedBy, WasPublished
    <3>7. ii \in WasPublished(d)
      BY <3>2 DEF PublishedBy, WasPublished
    <3> QED
      BY <3>2, <3>4, <3>5, <3>6, <3>7 DEF found, label
  <2>7. DiscoveredTogether
    BY <2>6 DEF DiscoveredTogether
  <2> QED
    BY <2>2, <2>5, <2>7 DEF ProvidersAreWhole
<1> QED
  BY <1>1, InitEstablishes, NextPreserves, PTL DEF ProvidersSpec

-----------------------------------------------------------------------------
(***************************************************************************)
(* What is first in a sequence.                                            *)
(***************************************************************************)

\* with_provider of a credential: the first provider that serves it.
LEMMA FirstServer ==
    ASSUME NEW providers, Len(providers) \in Nat, NEW c
    PROVE  LET i == CredentialProvider(providers, c)
           IN  \/ i = 0 /\ \A j \in 1..Len(providers) : ~Serves(providers[j], c)
               \/ /\ i \in 1..Len(providers) /\ Serves(providers[i], c)
                  /\ \A j \in 1..Len(providers) : Serves(providers[j], c) => i <= j
<1> DEFINE I == {i \in 1..Len(providers) : Serves(providers[i], c)}
<1>1. CredentialProvider(providers, c) = IF I # {} THEN Min(I) ELSE 0
  BY DEF CredentialProvider, SelectInSeq
<1>2. I \in SUBSET Nat
  OBVIOUS
<1>3. CASE I = {}
  BY <1>1, <1>3
<1>4. CASE I # {}
  <2>1. Min(I) \in I /\ \A j \in I : Min(I) <= j
    BY <1>2, <1>4, MinNat
  <2> QED
    BY <1>1, <1>4, <2>1
<1> QED
  BY <1>3, <1>4

\* with_provider of a token: the first provider that accepts it.
LEMMA FirstAccepting ==
    ASSUME NEW providers, Len(providers) \in Nat, NEW t, ProviderOf(providers, t) > 0
    PROVE  LET i == ProviderOf(providers, t)
           IN  /\ i \in 1..Len(providers) /\ Accepts(providers[i], t)
               /\ \A j \in 1..Len(providers) : Accepts(providers[j], t) => i <= j
<1> DEFINE I == {i \in 1..Len(providers) : Accepts(providers[i], t)}
<1>1. ProviderOf(providers, t) = IF t.aud = {} THEN 0 ELSE IF I # {} THEN Min(I) ELSE 0
  BY DEF ProviderOf, SelectInSeq
<1>2. I \in SUBSET Nat /\ I # {} /\ ProviderOf(providers, t) = Min(I)
  BY <1>1
<1>3. Min(I) \in I /\ \A j \in I : Min(I) <= j
  BY <1>2, MinNat
<1> QED
  BY <1>2, <1>3

LEMMA FirstCredential ==
    ASSUME NEW creds, Len(creds) \in Nat, NEW scope
    PROVE  \/ /\ FirstUnder(creds, scope) = None
              /\ \A i \in 1..Len(creds) : CredentialScope(creds[i]) # scope
           \/ \E i \in 1..Len(creds) :
                /\ FirstUnder(creds, scope) = creds[i]
                /\ CredentialScope(creds[i]) = scope
                /\ \A j \in 1..Len(creds) : CredentialScope(creds[j]) = scope => i <= j
<1> DEFINE I == {i \in 1..Len(creds) : CredentialScope(creds[i]) = scope}
<1>1. FirstUnder(creds, scope) =
        IF I # {} THEN IF Min(I) = 0 THEN None ELSE creds[Min(I)] ELSE None
  BY DEF FirstUnder, SelectInSeq
<1>2. I \in SUBSET Nat
  OBVIOUS
<1>3. CASE I = {}
  BY <1>1, <1>3
<1>4. CASE I # {}
  <2>1. Min(I) \in I /\ \A j \in I : Min(I) <= j
    BY <1>2, <1>4, MinNat
  <2>2. Min(I) \in 1..Len(creds) /\ CredentialScope(creds[Min(I)]) = scope
    BY <2>1
  <2>3. FirstUnder(creds, scope) = creds[Min(I)]
    BY <1>1, <1>4, <2>2
  <2> QED
    BY <2>1, <2>2, <2>3
<1> QED
  BY <1>3, <1>4

-----------------------------------------------------------------------------
(***************************************************************************)
(* Credentials and the providers they come from.                           *)
(***************************************************************************)

ProviderSet == Range(StaticProviders) \cup SsoProviders

LEMMA ProvidersAreKnown ==
    ASSUME sso \in SsoProviders
    PROVE  /\ Len(Providers) \in Nat /\ DOMAIN Providers = 1..Len(Providers)
           /\ \A i \in 1..Len(Providers) :
                Providers[i] \in ProviderSet /\ Providers[i].issuer \in Seq(STRING) \cup {None}
<1>1. StaticProviders \in Seq(ProviderSet) /\ sso \in ProviderSet
  <2>1. Range(StaticProviders) \subseteq ProviderSet
    BY DEF ProviderSet
  <2> QED
    BY <2>1, AttributesAssumption, SeqMonotonic DEF ProviderSet
<1>2. Providers \in Seq(ProviderSet)
  BY <1>1, AppendProperties DEF Providers
<1>3. /\ Len(Providers) \in Nat /\ DOMAIN Providers = 1..Len(Providers)
      /\ \A i \in 1..Len(Providers) : Providers[i] \in ProviderSet
  BY <1>2, LenProperties, ElementOfSeq
<1> QED
  BY <1>3, AttributesAssumption DEF ProviderSet

\* The metadata of a credential are claims of its token (CredentialOf), those
\* for the placeholders included.
LEMMA MetadataAreClaims ==
    ASSUME NEW p, NEW t
    PROVE  LET m == CredentialOf(p, t).metadata
           IN  /\ DOMAIN m \subseteq DOMAIN t.claims
               /\ \A k \in DOMAIN m : m[k] = t.claims[k]
               /\ p.kind # "sso" => DOMAIN IssuerClaims(p, t) \subseteq DOMAIN m
<1>1. DOMAIN IssuerClaims(p, t) \subseteq DOMAIN t.claims
  BY DEF IssuerClaims, AllClaims, NoClaims, Restrict
<1> QED
  BY <1>1 DEF CredentialOf, Restrict

\* The issuer of a token has no placeholder, so a template without claims is no
\* match.
LEMMA PlaceholdersAreFilled ==
    ASSUME NEW p, NEW t, p.issuer \in Seq(STRING), EffectiveIssuer(p, t) = t.iss,
           Range(t.iss) \cap Placeholders = {}
    PROVE  IssuerPlaceholders(p.issuer) \subseteq DOMAIN t.claims
<1> SUFFICES ASSUME NEW k \in IssuerPlaceholders(p.issuer), k \notin DOMAIN t.claims
             PROVE  FALSE
  OBVIOUS
<1>1. k \in Range(p.issuer) /\ k \in Placeholders
  BY DEF IssuerPlaceholders
<1>2. PICK i \in DOMAIN p.issuer : p.issuer[i] = k
  BY <1>1 DEF Range
<1>3. DOMAIN IssuerClaims(p, t) = {}
  BY DEF IssuerClaims, AllClaims, NoClaims
<1>4. t.iss = [j \in DOMAIN p.issuer |-> p.issuer[j]]
  BY <1>3 DEF EffectiveIssuer, ReplacePlaceholders
<1>5. i \in DOMAIN t.iss /\ t.iss[i] = k
  BY <1>2, <1>4
<1> QED
  BY <1>1, <1>5 DEF Range

\* Filling a template depends on the claims for its placeholders only.
LEMMA SameFilling ==
    ASSUME NEW template, NEW f, NEW g, NEW keys,
           \A k \in keys : f[k] = g[k]
    PROVE  ReplacePlaceholders(template, Restrict(f, keys)) =
           ReplacePlaceholders(template, Restrict(g, keys))
<1>1. Restrict(f, keys) = Restrict(g, keys)
  BY DEF Restrict
<1> QED
  BY <1>1

\* The provider that has verified a token serves its credential.
LEMMA VerifierServes ==
    ASSUME NEW p, NEW t, p.issuer \in Seq(STRING) \cup {None}, t.iss \in Seq(STRING),
           Range(t.iss) \cap Placeholders = {},
           Accepts(p, t), Verify(p, t, t.caller, t.iat) = "ok"
    PROVE  Serves(p, CredentialOf(p, t))
<1> DEFINE c == CredentialOf(p, t)
           keys == IssuerPlaceholders(p.issuer)
<1>1. /\ ~Pending(p) /\ p.issuer \in Seq(STRING) /\ EffectiveIssuer(p, t) = t.iss
      /\ c.iss = t.iss /\ c.aud = p.client
  BY DEF Accepts, Pending, CredentialOf
<1>2. keys \subseteq DOMAIN t.claims
  BY <1>1, PlaceholdersAreFilled
<1>3. ReplacePlaceholders(p.issuer, Restrict(t.claims, keys)) = t.iss
  BY <1>1, <1>2 DEF EffectiveIssuer, IssuerClaims, AllClaims
<1>4. keys \subseteq DOMAIN c.metadata
  <2>1. CASE p.kind = "sso"
    <3>1. t.iss = p.issuer
      BY <2>1 DEF Verify, VerifyClaims
    <3> QED
      BY <3>1 DEF IssuerPlaceholders
  <2>2. CASE p.kind # "sso"
    <3>1. DOMAIN IssuerClaims(p, t) = keys
      BY <1>2 DEF IssuerClaims, AllClaims, Restrict
    <3> QED
      BY <2>2, <3>1, MetadataAreClaims
  <2> QED
    BY <2>1, <2>2
<1>5. \A k \in keys : c.metadata[k] = t.claims[k]
  BY <1>4, MetadataAreClaims
<1> HIDE DEF c, keys
<1>6. ReplacePlaceholders(p.issuer, Restrict(c.metadata, keys)) = c.iss
  BY <1>1, <1>3, <1>5, SameFilling
<1> QED
  BY <1>1, <1>4, <1>6 DEF Serves, c, keys

\* No provider serves the credential of a token it would not have accepted.
LEMMA ServersAccept ==
    ASSUME NEW p, NEW q, NEW t, p.client \in t.aud, Serves(q, CredentialOf(p, t))
    PROVE  Accepts(q, t)
<1> DEFINE c == CredentialOf(p, t)
           keys == IssuerPlaceholders(q.issuer)
<1>1. /\ ~Pending(q) /\ q.client = p.client /\ c.iss = t.iss /\ keys \subseteq DOMAIN c.metadata
      /\ ReplacePlaceholders(q.issuer, Restrict(c.metadata, keys)) = t.iss
  BY DEF Serves, CredentialOf
<1>2. /\ keys \subseteq DOMAIN t.claims
      /\ \A k \in keys : c.metadata[k] = t.claims[k]
  BY <1>1, MetadataAreClaims
<1> HIDE DEF c, keys
<1>3. ReplacePlaceholders(q.issuer, Restrict(t.claims, keys)) = t.iss
  BY <1>1, <1>2, SameFilling
<1>4. EffectiveIssuer(q, t) = t.iss
  BY <1>2, <1>3 DEF EffectiveIssuer, IssuerClaims, AllClaims, keys
<1> QED
  BY <1>1, <1>4 DEF Accepts

\* openid::with_provider and OpenIdCredential::with_provider find the same.
LEMMA ScopesAgree ==
    ASSUME sso \in SsoProviders
    PROVE  ScopeAgrees
<1> SUFFICES ASSUME NEW t \in Tokens, ProviderOf(Providers, t) > 0,
                    Verify(Providers[ProviderOf(Providers, t)], t, t.caller, t.iat) = "ok"
             PROVE  MatchedScope(Providers, CredentialOf(Providers[ProviderOf(Providers, t)], t))
                      = Scope(Providers[ProviderOf(Providers, t)])
  BY DEF ScopeAgrees
<1> DEFINE i == ProviderOf(Providers, t)
           p == Providers[i]
           c == CredentialOf(p, t)
<1>1. Len(Providers) \in Nat
  BY ProvidersAreKnown
<1>2. /\ i \in 1..Len(Providers) /\ Accepts(p, t)
      /\ \A j \in 1..Len(Providers) : Accepts(Providers[j], t) => i <= j
  BY <1>1, FirstAccepting
<1>3. p.issuer \in Seq(STRING) \cup {None} /\ t.iss \in Seq(STRING)
      /\ Range(t.iss) \cap Placeholders = {}
  BY <1>2, ProvidersAreKnown, AttributesAssumption
<1>4. p.client \in t.aud
  BY <1>2 DEF Accepts
<1> HIDE DEF i, p
<1>5. Verify(p, t, t.caller, t.iat) = "ok"
  BY DEF i, p
<1>6. Serves(p, c)
  BY <1>2, <1>3, <1>5, VerifierServes
<1>7. \A j \in 1..Len(Providers) : Serves(Providers[j], c) => i <= j
  BY <1>2, <1>4, ServersAccept
<1> HIDE DEF c
<1> DEFINE j == CredentialProvider(Providers, c)
<1>8. \/ j = 0 /\ \A n \in 1..Len(Providers) : ~Serves(Providers[n], c)
      \/ /\ j \in 1..Len(Providers) /\ Serves(Providers[j], c)
         /\ \A n \in 1..Len(Providers) : Serves(Providers[n], c) => j <= n
  BY <1>1, FirstServer
<1> HIDE DEF j
<1>9. j = i
  BY <1>1, <1>2, <1>6, <1>7, <1>8 DEF p
<1>10. MatchedScope(Providers, c) = Scope(p)
  BY <1>1, <1>2, <1>9 DEF MatchedScope, j, p
<1> QED
  BY <1>10 DEF c, p, i

-----------------------------------------------------------------------------
(***************************************************************************)
(* What is listed.                                                         *)
(***************************************************************************)

\* The pairs of ListAttributes: who lists an attribute.
LEMMA WhoLists ==
    ASSUME NEW creds, NEW wanted, NEW i, NEW k
    PROVE  <<i, k>> \in ListedPairs(creds, wanted) <=>
              i \in DOMAIN creds /\ k \in ListedOf(creds[i]) /\ Wanted(wanted, k)
  BY DEF ListedPairs

\* A credential lists attributes of its own scope only.
LEMMA ListedUnderScope ==
    ASSUME NEW c, NEW s, NEW n
    PROVE  [scope |-> s, name |-> n] \in ListedOf(c) <=>
              /\ n \in Names /\ s = CredentialScope(c) /\ s # None
              /\ ~(Head(s) = "sso" /\ n = "verified_email")
              /\ ValueOf(c, n) # None
<1>1. \A m : [scope |-> s, name |-> n] = [scope |-> CredentialScope(c), name |-> m]
              => s = CredentialScope(c) /\ n = m
  OBVIOUS
<1> QED
  BY <1>1 DEF ListedOf

\* list_available_attributes and prepare_icrc3_attributes take a key from the
\* same credential.
LEMMA CertifiableListed ==
    ASSUME Len(credentials) \in Nat, DOMAIN credentials = 1..Len(credentials),
           sso \in SsoProviders
    PROVE  CertifiableIsListed
<1> DEFINE scopes == {ScopeText(Scope(Providers[i])) :
                        i \in {i \in DOMAIN Providers : ~Pending(Providers[i])}}
<1> SUFFICES ASSUME NEW texts \in {None} \cup Requests, NEW k \in [scope : scopes, name : Names],
                    SpecValue(credentials, [key |-> k, value |-> None]) # None,
                    Wanted(ValidateList(texts), k)
             PROVE  LET listed == ListAttributes(credentials, texts)
                        value == SpecValue(credentials, [key |-> k, value |-> None])
                    IN  k \in DOMAIN listed /\ listed[k] = value
  BY DEF CertifiableIsListed
<1>1. k.scope \in scopes /\ k.name \in Names /\ k = [scope |-> k.scope, name |-> k.name]
  OBVIOUS
<1>2. k.scope # None
  <2>1. PICK i \in DOMAIN Providers : ~Pending(Providers[i]) /\ k.scope = ScopeText(Scope(Providers[i]))
    BY <1>1
  <2>2. Providers[i] \in ProviderSet
    BY <2>1, ProvidersAreKnown
  <2> QED
    BY <2>1, <2>2, AttributesAssumption DEF ProviderSet
<1> HIDE DEF scopes
<1> DEFINE spec == [key |-> k, value |-> None]
           c == FirstUnder(credentials, k.scope)
<1>3. /\ SpecValue(credentials, spec) = ValueOf(c, k.name)
      /\ k.scope # <<>> /\ c # None /\ ~(IsSso(k) /\ k.name = "verified_email")
  BY DEF SpecValue
<1>4. PICK i \in 1..Len(credentials) :
        /\ c = credentials[i] /\ CredentialScope(credentials[i]) = k.scope
        /\ \A j \in 1..Len(credentials) : CredentialScope(credentials[j]) = k.scope => i <= j
  BY <1>3, FirstCredential
<1> HIDE DEF c, spec
<1>5. ~(Head(k.scope) = "sso" /\ k.name = "verified_email")
  BY <1>3 DEF IsSso
<1>6. k \in ListedOf(credentials[i])
  BY <1>1, <1>2, <1>3, <1>4, <1>5, ListedUnderScope DEF spec
<1> DEFINE pairs == ListedPairs(credentials, ValidateList(texts))
           I == {j \in DOMAIN credentials : <<j, k>> \in pairs}
<1>7. <<i, k>> \in pairs
  BY <1>4, <1>6, WhoLists
<1>8. \A j \in I : i <= j
  <2> SUFFICES ASSUME NEW j \in I PROVE i <= j
    OBVIOUS
  <2>1. j \in 1..Len(credentials) /\ k \in ListedOf(credentials[j])
    BY WhoLists
  <2>2. CredentialScope(credentials[j]) = k.scope
    BY <1>1, <2>1, ListedUnderScope
  <2> QED
    BY <1>4, <2>1, <2>2
<1>9. i \in I /\ I \in SUBSET Nat
  BY <1>7
<1> HIDE DEF pairs
<1>10. Min(I) \in I /\ \A j \in I : Min(I) <= j
  BY <1>9, MinNat
<1> HIDE DEF I
<1>11. Min(I) = i
  <2>1. i <= Min(I) /\ Min(I) <= i
    BY <1>8, <1>9, <1>10, Zenon
  <2>2. i \in Nat /\ Min(I) \in Nat
    BY <1>9, <1>10, Zenon
  <2> QED
    BY <2>1, <2>2
<1> DEFINE listed == ListAttributes(credentials, texts)
<1>12. listed = [q \in {p[2] : p \in pairs} |->
                    ValueOf(credentials[Min({j \in DOMAIN credentials : <<j, q>> \in pairs})], q.name)]
  BY DEF ListAttributes, pairs
<1>13. k \in {p[2] : p \in pairs}
  BY <1>7
<1>14. k \in DOMAIN listed /\ listed[k] = ValueOf(credentials[Min(I)], k.name)
  BY <1>12, <1>13 DEF I
<1> QED
  BY <1>3, <1>4, <1>11, <1>14 DEF spec

-----------------------------------------------------------------------------
(***************************************************************************)
(* What is signed.                                                         *)
(***************************************************************************)

\* OpenIdCredential::with_provider finds nobody who does not speak for it.
LEMMA ServersSpeak ==
    ASSUME NEW p, NEW c, p.issuer \in Seq(STRING) \cup {None}, c.iss \in Seq(STRING), Serves(p, c)
    PROVE  SpeaksFor(p, c)
<1> DEFINE keys == IssuerPlaceholders(p.issuer)
           claims == Restrict(c.metadata, keys)
<1>1. /\ ~Pending(p) /\ p.client = c.aud /\ p.issuer \in Seq(STRING)
      /\ keys \subseteq DOMAIN c.metadata /\ ReplacePlaceholders(p.issuer, claims) = c.iss
  BY DEF Serves, Pending
<1>2. /\ DOMAIN c.iss = DOMAIN p.issuer
      /\ \A i \in DOMAIN c.iss :
            c.iss[i] = IF p.issuer[i] \in DOMAIN claims THEN claims[p.issuer[i]] ELSE p.issuer[i]
  BY <1>1 DEF ReplacePlaceholders
<1>3. DOMAIN claims = keys /\ \A k \in keys : claims[k] = c.metadata[k]
  BY DEF Restrict
<1>4. keys \subseteq Placeholders
  BY DEF IssuerPlaceholders
<1>5. Len(p.issuer) = Len(c.iss)
  BY <1>1, <1>2, LenProperties
<1> HIDE DEF keys, claims
<1>6. ASSUME NEW i \in DOMAIN c.iss
      PROVE  \/ p.issuer[i] = c.iss[i]
             \/ p.issuer[i] \in Placeholders /\ Metadata(c, p.issuer[i]) = c.iss[i]
  BY <1>1, <1>2, <1>3, <1>4 DEF Metadata
<1> QED
  BY <1>1, <1>5, <1>6 DEF SpeaksFor

\* get_name, get_email and get_verified_email give facts.
LEMMA ValuesAreFacts ==
    ASSUME sso \in SsoProviders, NEW creds \in SUBSET Credentials, NEW c \in creds,
           NEW name \in Names, ValueOf(c, name) # None, CredentialScope(c) # None
    PROVE  <<CredentialScope(c), name, ValueOf(c, name)>> \in Facts(creds)
<1> DEFINE i == CredentialProvider(Providers, c)
           p == Providers[i]
           m == c.metadata
<1>1. MatchedScope(Providers, c) = IF i = 0 THEN None ELSE Scope(p)
  BY DEF MatchedScope
<1>2. i # 0
  BY <1>1 DEF CredentialScope, ScopeText
<1>3. Len(Providers) \in Nat
  BY ProvidersAreKnown
<1>4. i \in 1..Len(Providers) /\ Serves(p, c)
  BY <1>2, <1>3, FirstServer
<1> HIDE DEF i
<1>5. p \in ProviderSet /\ p.issuer \in Seq(STRING) \cup {None}
  BY <1>4, ProvidersAreKnown
<1>6. CredentialScope(c) = ScopeText(Scope(p))
  BY <1>1, <1>2 DEF CredentialScope
<1>7. SpeaksFor(p, c)
  BY <1>4, <1>5, ServersSpeak, AttributesAssumption
<1>8. FactsFrom(p, c) \subseteq Facts(creds)
  BY <1>5, <1>7 DEF Facts, ProviderSet
<1>9. CASE name = "verified_email"
  <2>1. ValueOf(c, name) = VerifiedEmail(Providers, c)
    BY <1>9 DEF ValueOf
  <2>2. /\ ValueOf(c, name) = Metadata(c, "email")
        /\ \/ p.scheme = "google" /\ Metadata(c, "email_verified") = "true"
           \/ p.scheme = "microsoft" /\ Metadata(c, "tid") = PersonalTenant
    BY <2>1, <1>2 DEF VerifiedEmail, i
  <2>3. "email" \in DOMAIN m /\ ValueOf(c, name) = m["email"]
    BY <2>2 DEF Metadata
  <2>4. ASSUME Metadata(c, "tid") = PersonalTenant
        PROVE  PersonalTenant \in Range(c.iss)
    <3>1. "tid" \in DOMAIN m /\ m["tid"] = PersonalTenant
      BY <2>4, AttributesAssumption DEF Metadata
    <3>2. "tid" \in (DOMAIN m) \ {"email", "email_verified", "name"}
      BY <3>1
    <3> QED
      BY <3>1, <3>2, AttributesAssumption
  <2>5. ASSUME Metadata(c, "email_verified") = "true"
        PROVE  "email_verified" \in DOMAIN m /\ m["email_verified"] = "true"
    BY <2>5, AttributesAssumption DEF Metadata
  <2>6. <<ScopeText(Scope(p)), "verified_email", m["email"]>> \in FactsFrom(p, c)
    BY <2>2, <2>3, <2>4, <2>5 DEF FactsFrom
  <2> QED
    BY <1>6, <1>8, <1>9, <2>3, <2>6
<1>10. CASE name # "verified_email"
  <2>1. name \in {"email", "name"} /\ ValueOf(c, name) = Metadata(c, name)
    BY <1>10 DEF ValueOf, Names
  <2>2. name \in DOMAIN m /\ ValueOf(c, name) = m[name]
    BY <2>1 DEF Metadata
  <2>3. <<ScopeText(Scope(p)), name, m[name]>> \in FactsFrom(p, c)
    BY <2>1, <2>2 DEF FactsFrom
  <2> QED
    BY <1>6, <1>8, <2>2, <2>3
<1> QED
  BY <1>9, <1>10

\* More credentials, more facts.
LEMMA FactsGrow ==
    ASSUME NEW S, NEW T, S \subseteq T
    PROVE  Facts(S) \subseteq Facts(T)
  BY DEF Facts

\* What is found under a scope.
LEMMA FoundIsFact ==
    ASSUME sso \in SsoProviders, NEW creds \in Seq(held), held \subseteq Credentials,
           NEW scope, scope # None, NEW name \in Names,
           FirstUnder(creds, scope) # None, ValueOf(FirstUnder(creds, scope), name) # None
    PROVE  <<scope, name, ValueOf(FirstUnder(creds, scope), name)>> \in Facts(held)
<1>1. Len(creds) \in Nat
  BY LenProperties
<1>2. PICK i \in 1..Len(creds) :
        FirstUnder(creds, scope) = creds[i] /\ CredentialScope(creds[i]) = scope
  BY <1>1, FirstCredential
<1>3. creds[i] \in held
  BY <1>2, ElementOfSeq
<1> QED
  BY <1>2, <1>3, ValuesAreFacts

\* A key that is accepted has a scope, if only the empty one, and a name.
LEMMA KeyFacts ==
    ASSUME NEW text, ParseKey(text) # None
    PROVE  LET k == ParseKey(text)
               scope == IF Len(text) = 1 THEN <<>> ELSE ParseScope(Front(text))
           IN  /\ k = [scope |-> scope, name |-> Last(text)]
               /\ k.scope # None /\ k.name \in Names
  BY DEF ParseKey

-----------------------------------------------------------------------------
(***************************************************************************)
(* The invariant.                                                          *)
(***************************************************************************)

Triple(s) == <<s.domain, s.seed, s.message>>

\* CertifiedIsTrue of one signature.
IsTrue(s, creds) ==
    /\ s.domain = "ii-request-attribute" =>
        \E f \in Facts(creds) : s.message[2] = Append(f[1], f[2]) /\ s.message[3] = f[3]
    /\ s.domain = "ic-sender-info" =>
        /\ \A pair \in s.message.pairs :
            \E f \in Facts(creds) : pair[1] \in {<<f[2]>>, Append(f[1], f[2])} /\ pair[2] = f[3]
        /\ s.seed[2] \in {s.message.origin, RemapToLegacyDomain(s.message.origin)}

\* The signatures that a query needs to return an answer.
Needs(a) ==
    CASE a.kind = "attributes" ->
            {<<"ii-request-attribute", AccountSeed(a.origin),
               AttributeMessage(AttributesExpire(a.at), ParseKey(a.pairs[i][1]), a.pairs[i][2])>> :
                 i \in DOMAIN a.pairs}
      [] a.kind = "icrc3" -> {<<"ic-sender-info", AccountSeed(a.origin), a.message>>}
      [] a.kind = "delegation" ->
            {<<"ic-request-auth-delegation", a.seed, <<a.expiration>>>>}
      [] a.kind = "alias" ->
            {<<"iccs_verifiable_credential", a.seed, <<dapp>>>> : dapp \in {"relying party", "issuer"}}

\* It stays in the map for its lifetime.
InMap(triple, at) ==
    \E s \in sigs : Triple(s) = triple /\ s.expires \in Nat /\ s.expires >= at + SignatureLifetime

Kept(a) ==
    /\ a.at \in Nat /\ a.at <= now
    /\ now < a.at + SignatureLifetime => \A n \in Needs(a) : InMap(n, a.at)

\* The query accepts the request for it.
Fetchable(a) ==
    /\ a.kind \in {"attributes", "icrc3", "delegation", "alias"}
    /\ a.kind = "attributes" => ValidGet(a.origin, a.pairs)
    /\ a.kind = "icrc3" => ValidGetIcrc3(a.origin)

\* A call waits with credentials that the identity had.
Waiting(c) ==
    /\ c.credentials \in Seq(held)
    /\ c.request.kind = "attributes" => c.request.texts \in Requests
    /\ Valid(c.request)

AttributesInv ==
    /\ sso \in SsoProviders /\ now \in Nat
    /\ held \subseteq Credentials /\ credentials \in Seq(held)
    /\ \A c \in calls : Waiting(c)
    /\ RootIsCertified
    /\ \A s \in sigs : IsTrue(s, held)
    /\ \A a \in answers : Kept(a) /\ Fetchable(a)

LEMMA InvSigned ==
    ASSUME AttributesInv, NEW a \in answers, now < a.at + SignatureLifetime
    PROVE  \A n \in Needs(a) : Signed(n[1], n[2], n[3])
<1> SUFFICES ASSUME NEW n \in Needs(a) PROVE Signed(n[1], n[2], n[3])
  OBVIOUS
<1>1. PICK s \in sigs : Triple(s) = n
  BY DEF AttributesInv, Kept, InMap
<1>2. s \in sigs \cap certified
  BY DEF AttributesInv, RootIsCertified
<1>3. n[1] = s.domain /\ n[2] = s.seed /\ n[3] = s.message
  BY <1>1 DEF Triple
<1> QED
  BY <1>2, <1>3 DEF Signed

\* The queries get_attributes, get_icrc3_attributes, get_delegation and
\* get_id_alias find what the invariant keeps.
LEMMA InvPrepared ==
    ASSUME AttributesInv
    PROVE  PreparedIsReturned
<1> SUFFICES ASSUME NEW a \in answers, now < a.at + SignatureLifetime
             PROVE  CASE a.kind = "attributes" ->
                            /\ ValidGet(a.origin, a.pairs)
                            /\ \A i \in DOMAIN a.pairs :
                                LET p == <<ParseKey(a.pairs[i][1]), a.pairs[i][2]>>
                                IN  FirstUnder(credentials, p[1].scope) # None =>
                                        p \in GetAttributes(a.origin, a.at, a.pairs)
                      [] a.kind = "icrc3" -> GetIcrc3(a.origin, a.message)
                      [] a.kind = "delegation" -> GetDelegation(a.seed, a.expiration)
                      [] a.kind = "alias" -> GetIdAlias(a.seed)
  BY DEF PreparedIsReturned, AttributesInv
<1>1. \A n \in Needs(a) : Signed(n[1], n[2], n[3])
  BY InvSigned
<1>2. Fetchable(a)
  BY DEF AttributesInv
<1>3. CASE a.kind = "attributes"
  <2>1. ASSUME NEW i \in DOMAIN a.pairs,
               FirstUnder(credentials, ParseKey(a.pairs[i][1]).scope) # None
        PROVE  <<ParseKey(a.pairs[i][1]), a.pairs[i][2]>> \in GetAttributes(a.origin, a.at, a.pairs)
    <3> DEFINE k == ParseKey(a.pairs[i][1])
               v == a.pairs[i][2]
               message == AttributeMessage(AttributesExpire(a.at), k, v)
    <3>1. Len(credentials) \in Nat /\ DOMAIN credentials = 1..Len(credentials)
      BY LenProperties DEF AttributesInv
    <3>2. \E j \in DOMAIN credentials : CredentialScope(credentials[j]) = k.scope
      BY <2>1, <3>1, FirstCredential
    <3>3. <<"ii-request-attribute", AccountSeed(a.origin), message>> \in Needs(a)
      BY <1>3 DEF Needs
    <3> HIDE DEF message
    <3>4. Signed("ii-request-attribute", AccountSeed(a.origin), message)
      BY <1>1, <3>3
    <3> HIDE DEF k, v
    <3>5. <<k, v>> \in {<<ParseKey(a.pairs[j][1]), a.pairs[j][2]>> : j \in DOMAIN a.pairs}
      BY DEF k, v
    <3>6. <<k, v>>[1] = k /\ <<k, v>>[2] = v
      OBVIOUS
    <3>7. <<k, v>> \in GetAttributes(a.origin, a.at, a.pairs)
      BY <3>2, <3>4, <3>5, <3>6 DEF GetAttributes, message
    <3> QED
      BY <3>7 DEF k, v
  <2> QED
    BY <1>2, <1>3, <2>1 DEF Fetchable
<1>4. CASE a.kind = "icrc3"
  <2>1. <<"ic-sender-info", AccountSeed(a.origin), a.message>> \in Needs(a)
    BY <1>4 DEF Needs
  <2>2. Signed("ic-sender-info", AccountSeed(a.origin), a.message)
    BY <1>1, <2>1
  <2> QED
    BY <1>2, <1>4, <2>2 DEF GetIcrc3, Fetchable
<1>5. CASE a.kind = "delegation"
  <2>1. <<"ic-request-auth-delegation", a.seed, <<a.expiration>>>> \in Needs(a)
    BY <1>5 DEF Needs
  <2>2. Signed("ic-request-auth-delegation", a.seed, <<a.expiration>>)
    BY <1>1, <2>1
  <2> QED
    BY <1>5, <2>2 DEF GetDelegation
<1>6. CASE a.kind = "alias"
  <2>1. ASSUME NEW dapp \in {"relying party", "issuer"}
        PROVE  Signed("iccs_verifiable_credential", a.seed, <<dapp>>)
    <3>1. <<"iccs_verifiable_credential", a.seed, <<dapp>>>> \in Needs(a)
      BY <1>6 DEF Needs
    <3> QED
      BY <1>1, <3>1
  <2> QED
    BY <1>6, <2>1 DEF GetIdAlias
<1> QED
  BY <1>2, <1>3, <1>4, <1>5, <1>6 DEF Fetchable

LEMMA InvTrue ==
    ASSUME AttributesInv
    PROVE  CertifiedIsTrue
  BY DEF AttributesInv, CertifiedIsTrue, IsTrue

-----------------------------------------------------------------------------
(***************************************************************************)
(* Preparing an answer.                                                    *)
(***************************************************************************)

\* SetToSeq enumerates a finite set.
LEMMA Enumerates ==
    ASSUME NEW S, IsFiniteSet(S)
    PROVE  /\ Len(SetToSeq(S)) = Cardinality(S) /\ DOMAIN SetToSeq(S) = 1..Cardinality(S)
           /\ \A i \in 1..Cardinality(S) : SetToSeq(S)[i] \in S
<1>1. Cardinality(S) \in Nat /\ ExistsBijection(1..Cardinality(S), S)
  BY FS_CardinalityType
<1>2. PICK f \in [1..Cardinality(S) -> S] : IsInjective(f)
  BY <1>1 DEF ExistsBijection, Bijection, Injection
<1>3. SetToSeq(S) \in [1..Cardinality(S) -> S]
  BY <1>2 DEF SetToSeq
<1>4. SetToSeq(S) \in Seq(S) /\ Len(SetToSeq(S)) = Cardinality(S)
  BY <1>1, <1>3, SeqDef, LenProperties
<1> QED
  BY <1>3, <1>4

\* A text is what comes before its last colon and what comes after.
LEMMA FrontAndLast ==
    ASSUME NEW text \in Seq(STRING), Len(text) # 0
    PROVE  Append(Front(text), Last(text)) = text
<1> DEFINE n == Len(text) - 1
<1>1. Len(text) \in Nat \ {0} /\ n \in Nat /\ Last(text) \in STRING
  BY ElementOfSeq, LenProperties DEF Last
<1>2. /\ Front(text) \in Seq(STRING) /\ Len(Front(text)) = Len(text) - 1
      /\ \A i \in 1..(Len(text) - 1) : Front(text)[i] = text[i]
  <2>1. \A i \in 1..n : text[i] \in STRING
    BY <1>1, ElementOfSeq
  <2>2. Front(text) = SubSeq(text, 1, n)
    BY DEF Front
  <2> HIDE DEF n
  <2>3. /\ SubSeq(text, 1, n) \in Seq(STRING) /\ Len(SubSeq(text, 1, n)) = n
        /\ \A i \in 1..n : SubSeq(text, 1, n)[i] = text[i]
    BY <1>1, <2>1, SubSeqProperties
  <2> QED
    BY <2>2, <2>3 DEF n
<1> DEFINE t == Append(Front(text), Last(text))
<1>3. /\ t \in Seq(STRING) /\ Len(t) = Len(text)
      /\ \A i \in 1..(Len(text) - 1) : t[i] = text[i]
      /\ t[Len(text)] = text[Len(text)]
  BY <1>1, <1>2, AppendProperties DEF Last
<1> HIDE DEF t
<1>4. \A i \in 1..Len(text) : t[i] = text[i]
  BY <1>1, <1>3
<1>5. t = text
  BY <1>3, <1>4, SeqEqual
<1> QED
  BY <1>5 DEF t

\* Display and try_from of a key of the legacy flow.
LEMMA KeySurvives ==
    ASSUME NEW text \in Seq(STRING), ParseKey(text) # None,
           ParseKey(text).scope # <<>>, Head(ParseKey(text).scope) = "openid"
    PROVE  ParseKey(ShowKey(ParseKey(text))) = ParseKey(text)
<1> DEFINE front == Front(text)
           k == ParseKey(text)
<1>1. /\ Len(text) # 1 /\ k.scope = ParseScope(front) /\ k.scope # None /\ k.name = Last(text)
  BY KeyFacts
<1> HIDE DEF k
<1>2. Head(k.scope) = "openid"
  BY DEF k
<1>3. \/ /\ Head(front) = "openid" /\ Len(front) > 1
         /\ ParseScope(front) = front
      \/ /\ Head(front) = "sso" /\ Len(front) > 1
         /\ ParseScope(front) = <<"sso">> \o ToLower(Tail(front))
  BY <1>1 DEF ParseScope
<1>4. front \in Seq(STRING)
  BY LenProperties, SubSeqProperties DEF Front
<1>5. ASSUME Len(front) > 1
      PROVE  Head(<<"sso">> \o ToLower(Tail(front))) = "sso"
  <2> DEFINE t == Tail(front)
             low == ToLower(t)
  <2>1. t \in Seq(STRING) /\ DOMAIN t = 1..Len(t) /\ Len(t) \in Nat
    BY <1>4, <1>5, HeadTailProperties, LenProperties
  <2> HIDE DEF t
  <2>2. low = [i \in 1..Len(t) |-> low[i]]
    BY <2>1 DEF ToLower
  <2> HIDE DEF low
  <2>3. low \in Seq(Range(low))
    BY <2>1, <2>2, FunctionIsSeq DEF IsSeq
  <2> DEFINE S == Range(low) \cup {"sso"}
  <2>4. low \in Seq(S) /\ <<"sso">> \in Seq(S)
    BY <2>3, SeqMonotonic
  <2> HIDE DEF S
  <2>5. /\ <<"sso">> \o low \in Seq(S) /\ <<"sso">> \o low # <<>>
        /\ (<<"sso">> \o low)[1] = "sso"
    BY <2>4, ConcatProperties, EmptySeq
  <2>6. Head(<<"sso">> \o low) = "sso"
    BY <2>5, HeadTailProperties
  <2> QED
    BY <2>6 DEF low, t
<1>6. k.scope = front /\ Len(front) > 1
  BY <1>1, <1>2, <1>3, <1>5
<1>7. Len(text) # 0
  <2> SUFFICES ASSUME Len(text) = 0 PROVE FALSE
    OBVIOUS
  <2>1. front = <<>>
    BY SubSeqProperties, EmptySeq DEF Front
  <2> QED
    BY <1>6, <2>1
<1>8. ShowKey(k) = text
  BY <1>1, <1>6, <1>7, FrontAndLast DEF ShowKey
<1> QED
  BY <1>8 DEF k

\* What validation lets through (ValidatedPrepareAttributeRequest).
LEMMA AskedKeys ==
    ASSUME NEW origin, NEW texts \in Requests, ValidatePrepare(origin, texts) # None
    PROVE  LET wanted == ValidatePrepare(origin, texts)
           IN  /\ origin \notin LongOrigins
               /\ Len(texts) \in Nat /\ Len(texts) <= MaxAttributes
               /\ \A k \in [scope : DOMAIN wanted, name : Names] :
                    k.name \in wanted[k.scope] =>
                      \E i \in 1..Len(texts) :
                        texts[i] \in Seq(STRING) /\ LegacyKey(texts[i]) /\ k = ParseKey(texts[i])
<1> DEFINE wanted == ValidatePrepare(origin, texts)
           asked == {ParseKey(texts[i]) : i \in DOMAIN texts}
<1>1. /\ origin \notin LongOrigins /\ ~(Len(texts) > MaxAttributes)
      /\ \A i \in DOMAIN texts : LegacyKey(texts[i])
      /\ wanted = [s \in {ParseKey(texts[i]).scope : i \in DOMAIN texts} |->
                      {k.name : k \in {k \in asked : k.scope = s}}]
  BY DEF ValidatePrepare
<1>2. texts \in Seq(Seq(STRING)) /\ Len(texts) \in Nat /\ DOMAIN texts = 1..Len(texts)
  BY AttributesAssumption, LenProperties
<1> HIDE DEF wanted
<1>3. ASSUME NEW k \in [scope : DOMAIN wanted, name : Names], k.name \in wanted[k.scope]
      PROVE  \E i \in 1..Len(texts) :
                texts[i] \in Seq(STRING) /\ LegacyKey(texts[i]) /\ k = ParseKey(texts[i])
  <2>1. PICK q \in asked : q.scope = k.scope /\ q.name = k.name
    BY <1>1, <1>3
  <2>2. PICK i \in 1..Len(texts) : q = ParseKey(texts[i])
    BY <1>2, <2>1
  <2>3. LegacyKey(texts[i]) /\ texts[i] \in Seq(STRING)
    BY <1>1, <1>2, ElementOfSeq
  <2>4. q = [scope |-> q.scope, name |-> q.name]
    BY <2>2, <2>3, KeyFacts DEF LegacyKey
  <2>5. k = [scope |-> k.scope, name |-> k.name]
    BY <1>3
  <2>6. k = q
    BY <2>1, <2>4, <2>5
  <2> QED
    BY <2>2, <2>3, <2>6
<1>4. Len(texts) <= MaxAttributes
  BY <1>1, <1>2, AttributesAssumption
<1> QED
  BY <1>1, <1>2, <1>3, <1>4 DEF wanted

\* The attributes that prepare_openid_attributes finds: keys that were asked
\* for, survive printing and have a fact as their value.
LEMMA FoundAttributes ==
    ASSUME sso \in SsoProviders, held \subseteq Credentials, NEW creds \in Seq(held),
           NEW origin, NEW texts \in Requests, ValidatePrepare(origin, texts) # None,
           NEW a \in PrepareOpenIdAttributes(creds, ValidatePrepare(origin, texts))
    PROVE  /\ a = <<a[1], a[2]>>
           /\ a[2] = ValueOf(FirstUnder(creds, a[1].scope), a[1].name)
           /\ \E i \in 1..Len(texts) : a[1] = ParseKey(texts[i])
           /\ LegacyKey(ShowKey(a[1])) /\ ParseKey(ShowKey(a[1])) = a[1]
           /\ a[2] \notin LongValues
           /\ <<a[1].scope, a[1].name, a[2]>> \in Facts(held)
<1> DEFINE wanted == ValidatePrepare(origin, texts)
<1>1. PICK k \in [scope : DOMAIN wanted, name : Names] :
        /\ a = <<k, ValueOf(FirstUnder(creds, k.scope), k.name)>>
        /\ k.name \in wanted[k.scope]
        /\ k.scope # <<>> /\ Head(k.scope) = "openid"
        /\ FirstUnder(creds, k.scope) # None
        /\ ValueOf(FirstUnder(creds, k.scope), k.name) # None
  BY DEF PrepareOpenIdAttributes
<1>2. PICK i \in 1..Len(texts) :
        texts[i] \in Seq(STRING) /\ LegacyKey(texts[i]) /\ k = ParseKey(texts[i])
  BY <1>1, AskedKeys
<1> DEFINE c == FirstUnder(creds, k.scope)
           v == ValueOf(c, k.name)
<1>3. a[1] = k /\ a[2] = v /\ a = <<a[1], a[2]>>
  BY <1>1
<1>4. k # None /\ ~IsSso(k)
  BY <1>2 DEF LegacyKey
<1>5. ParseKey(ShowKey(k)) = k
  BY <1>1, <1>2, <1>4, KeySurvives
<1>6. LegacyKey(ShowKey(k))
  BY <1>4, <1>5 DEF LegacyKey
<1>7. k.scope # None /\ k.name \in Names
  BY <1>2, <1>4, KeyFacts
<1>8. <<k.scope, k.name, v>> \in Facts(held)
  BY <1>1, <1>7, FoundIsFact
<1>9. c \in Credentials
  <2>1. Len(creds) \in Nat
    BY LenProperties
  <2>2. PICK n \in 1..Len(creds) : c = creds[n]
    BY <1>1, <2>1, FirstCredential
  <2> QED
    BY <2>2, ElementOfSeq
<1>10. v \notin LongValues
  <2>1. \/ v = Metadata(c, "email")
        \/ (v = Metadata(c, k.name) /\ k.name \in {"email", "name"})
    BY <1>1, <1>7 DEF ValueOf, VerifiedEmail, Names
  <2>2. PICK n \in {"email", "name"} : v = Metadata(c, n)
    BY <2>1
  <2>3. n \in DOMAIN c.metadata /\ v = c.metadata[n]
    BY <1>1, <2>2 DEF Metadata
  <2> QED
    BY <1>9, <2>3, AttributesAssumption
<1> QED
  BY <1>2, <1>3, <1>5, <1>6, <1>8, <1>10

\* One answer more, with its signatures in the map: every answer is kept.
LEMMA AnswerAdded ==
    ASSUME now \in Nat, now' = now, \A a \in answers : Kept(a) /\ Fetchable(a),
           NEW new, AddSignatures(new), \A t \in new : t.expires = now + SignatureLifetime,
           NEW b, b.at = now, \A n \in Needs(b) : \E t \in new : Triple(t) = n, Fetchable(b),
           answers' = answers \cup {b}
    PROVE  \A a \in answers' : Kept(a)' /\ Fetchable(a)
<1>1. SignatureLifetime \in Nat
  BY AttributesAssumption
<1>2. new \subseteq sigs'
  BY DEF AddSignatures
<1>3. Kept(b)'
  <2>1. ASSUME NEW n \in Needs(b) PROVE InMap(n, b.at)'
    <3>1. PICK t \in new : Triple(t) = n
      BY <2>1
    <3>2. t \in sigs' /\ t.expires \in Nat /\ t.expires >= b.at + SignatureLifetime
      BY <1>1, <1>2
    <3> QED
      BY <3>1, <3>2 DEF InMap
  <2> QED
    BY <2>1 DEF Kept
<1>4. ASSUME NEW a \in answers PROVE Kept(a)'
  <2>1. a.at \in Nat /\ a.at <= now
    BY DEF Kept
  <2>2. ASSUME now < a.at + SignatureLifetime, NEW n \in Needs(a) PROVE InMap(n, a.at)'
    <3>1. PICK s \in sigs : /\ Triple(s) = n /\ s.expires \in Nat
                            /\ s.expires >= a.at + SignatureLifetime
      BY <2>2 DEF Kept, InMap
    <3>2. CASE \A t \in new : ~Same(s, t)
      <4>1. s.expires > now
        BY <1>1, <2>1, <2>2, <3>1
      <4>2. s \in sigs'
        BY <3>2, <4>1 DEF AddSignatures
      <4> QED
        BY <3>1, <4>2 DEF InMap
    <3>3. CASE \E t \in new : Same(s, t)
      <4>1. PICK t \in new : Same(s, t)
        BY <3>3
      <4>2. t \in sigs' /\ Triple(t) = n
        BY <1>2, <3>1, <4>1 DEF Same, Triple
      <4>3. t.expires \in Nat /\ t.expires >= a.at + SignatureLifetime
        BY <1>1, <2>1, <4>1
      <4> QED
        BY <4>2, <4>3 DEF InMap
    <3> QED
      BY <3>2, <3>3
  <2> QED
    BY <2>1, <2>2 DEF Kept
<1> QED
  BY <1>3, <1>4

\* What every call that signs keeps of the invariant.
AnswersKept ==
    /\ RootIsCertified'
    /\ \A s \in sigs' : IsTrue(s, held)
    /\ \A a \in answers' : Kept(a)' /\ Fetchable(a)

LEMMA Signing ==
    ASSUME AttributesInv, now' = now, NEW new, AddSignatures(new), UpdateRootHash,
           \A t \in new : t.expires = now + SignatureLifetime /\ IsTrue(t, held),
           NEW b, b.at = now, \A n \in Needs(b) : \E t \in new : Triple(t) = n, Fetchable(b),
           answers' = answers \cup {b}
    PROVE  AnswersKept
<1>1. RootIsCertified'
  BY DEF UpdateRootHash, RootIsCertified
<1>2. \A s \in sigs' : IsTrue(s, held)
  BY DEF AttributesInv, AddSignatures
<1>3. now \in Nat /\ \A a \in answers : Kept(a) /\ Fetchable(a)
  BY DEF AttributesInv
<1>4. \A t \in new : t.expires = now + SignatureLifetime
  OBVIOUS
<1>5. \A a \in answers' : Kept(a)' /\ Fetchable(a)
  BY <1>3, <1>4, AnswerAdded
<1> QED
  BY <1>1, <1>2, <1>5 DEF AnswersKept

\* Anchor::prepare_attributes
LEMMA AttributesPrepared ==
    ASSUME AttributesInv, now' = now, NEW creds \in Seq(held), NEW r, r.texts \in Requests,
           ValidatePrepare(r.origin, r.texts) # None, PrepareAttributes(creds, r)
    PROVE  AnswersKept
<1> DEFINE found == PrepareOpenIdAttributes(creds, ValidatePrepare(r.origin, r.texts))
           sign(a) == Signature("ii-request-attribute", AccountSeed(r.origin),
                                AttributeMessage(AttributesExpire(now), a[1], a[2]))
           new == {sign(a) : a \in found}
           P == {<<ShowKey(a[1]), a[2]>> : a \in found}
           b == [kind |-> "attributes", origin |-> r.origin, at |-> now, pairs |-> SetToSeq(P)]
<1>1. AddSignatures(new) /\ UpdateRootHash /\ answers' = answers \cup {b}
  BY DEF PrepareAttributes
<1>2. sso \in SsoProviders /\ held \subseteq Credentials /\ now \in Nat
  BY DEF AttributesInv
<1>3. ASSUME NEW a \in found
      PROVE  /\ \E i \in 1..Len(r.texts) : a[1] = ParseKey(r.texts[i])
             /\ a[2] = ValueOf(FirstUnder(creds, a[1].scope), a[1].name)
             /\ LegacyKey(ShowKey(a[1])) /\ ParseKey(ShowKey(a[1])) = a[1]
             /\ a[2] \notin LongValues
             /\ <<a[1].scope, a[1].name, a[2]>> \in Facts(held)
  BY <1>2, <1>3, FoundAttributes
<1>4. r.origin \notin LongOrigins /\ Len(r.texts) \in Nat /\ Len(r.texts) <= MaxAttributes
  BY AskedKeys
<1> HIDE DEF found
<1>5. IsFiniteSet(P) /\ Cardinality(P) \in Nat /\ Cardinality(P) <= MaxAttributes
  <2> DEFINE I == 1..Len(r.texts)
             pair(i) == LET k == ParseKey(r.texts[i])
                        IN  <<ShowKey(k), ValueOf(FirstUnder(creds, k.scope), k.name)>>
             Q == {pair(i) : i \in I}
             f == [i \in I |-> pair(i)]
  <2>1. P \subseteq Q
    <3> SUFFICES ASSUME NEW a \in found PROVE <<ShowKey(a[1]), a[2]>> \in Q
      OBVIOUS
    <3>1. PICK i \in I : a[1] = ParseKey(r.texts[i])
      BY <1>3
    <3>2. <<ShowKey(a[1]), a[2]>> = pair(i)
      BY <1>3, <3>1
    <3> HIDE DEF pair
    <3> QED
      BY <3>2
  <2> HIDE DEF P, pair
  <2>2. IsFiniteSet(I) /\ Cardinality(I) = Len(r.texts)
    <3>1. 1 \in Int /\ Len(r.texts) \in Int
      BY <1>4
    <3>2. /\ IsFiniteSet(1..Len(r.texts))
          /\ Cardinality(1..Len(r.texts)) =
                IF 1 > Len(r.texts) THEN 0 ELSE Len(r.texts) - 1 + 1
      BY <3>1, FS_Interval
    <3> QED
      BY <1>4, <3>2
  <2>3. f \in Surjection(I, Q)
    BY DEF Surjection
  <2>4. IsFiniteSet(Q) /\ Cardinality(Q) <= Cardinality(I)
    <3> HIDE DEF f, I, Q
    <3> QED
      BY <2>2, <2>3, FS_Surjection
  <2>5. IsFiniteSet(P) /\ Cardinality(P) <= Cardinality(Q)
    BY <2>1, <2>4, FS_Subset
  <2>6. Cardinality(P) \in Nat /\ Cardinality(Q) \in Nat
    BY <2>4, <2>5, FS_CardinalityType
  <2> QED
    BY <1>4, <2>2, <2>4, <2>5, <2>6, AttributesAssumption
<1>6. /\ Len(b.pairs) = Cardinality(P) /\ DOMAIN b.pairs = 1..Cardinality(P)
      /\ \A i \in 1..Cardinality(P) : b.pairs[i] \in P
  <2> HIDE DEF P
  <2> QED
    BY <1>5, Enumerates
<1>7. ASSUME NEW i \in DOMAIN b.pairs
      PROVE  \E a \in found : b.pairs[i] = <<ShowKey(a[1]), a[2]>>
  BY <1>6
<1>8. ASSUME NEW t \in new
      PROVE  t.expires = now + SignatureLifetime /\ IsTrue(t, held)
  <2>1. PICK a \in found : t = sign(a)
    OBVIOUS
  <2>2. /\ t.domain = "ii-request-attribute" /\ t.expires = now + SignatureLifetime
        /\ t.message = AttributeMessage(AttributesExpire(now), a[1], a[2])
    BY <2>1 DEF Signature
  <2>3. t.message[2] = Append(a[1].scope, a[1].name) /\ t.message[3] = a[2]
    BY <2>2 DEF AttributeMessage, ShowKey
  <2> DEFINE fact == <<a[1].scope, a[1].name, a[2]>>
  <2>4. fact \in Facts(held) /\ fact[1] = a[1].scope /\ fact[2] = a[1].name /\ fact[3] = a[2]
    BY <1>3
  <2> HIDE DEF fact
  <2> QED
    BY <2>2, <2>3, <2>4 DEF IsTrue
<1>9. \A n \in Needs(b) : \E t \in new : Triple(t) = n
  <2> SUFFICES ASSUME NEW n \in Needs(b) PROVE \E t \in new : Triple(t) = n
    OBVIOUS
  <2>1. b.kind = "attributes" /\ b.origin = r.origin /\ b.at = now
    OBVIOUS
  <2>2. PICK i \in DOMAIN b.pairs :
          n = <<"ii-request-attribute", AccountSeed(r.origin),
                AttributeMessage(AttributesExpire(now), ParseKey(b.pairs[i][1]), b.pairs[i][2])>>
    <3> HIDE DEF b
    <3> QED
      BY <2>1 DEF Needs
  <2>3. PICK a \in found : b.pairs[i] = <<ShowKey(a[1]), a[2]>>
    BY <1>7
  <2> HIDE DEF b
  <2>4. ParseKey(b.pairs[i][1]) = a[1] /\ b.pairs[i][2] = a[2]
    <3>1. b.pairs[i][1] = ShowKey(a[1]) /\ b.pairs[i][2] = a[2]
      BY <2>3
    <3> QED
      BY <1>3, <3>1
  <2>5. Triple(sign(a)) = n
    BY <2>2, <2>4 DEF Triple, Signature
  <2> QED
    BY <2>5
<1>10. Fetchable(b)
  <2>1. b.kind = "attributes" /\ b.origin = r.origin
    OBVIOUS
  <2>2. ASSUME NEW i \in DOMAIN b.pairs
        PROVE  LegacyKey(b.pairs[i][1]) /\ b.pairs[i][2] \notin LongValues
    <3>1. PICK a \in found : b.pairs[i] = <<ShowKey(a[1]), a[2]>>
      BY <1>7
    <3> HIDE DEF b
    <3>2. b.pairs[i][1] = ShowKey(a[1]) /\ b.pairs[i][2] = a[2]
      BY <3>1
    <3> QED
      BY <1>3, <3>2
  <2> HIDE DEF b, P
  <2>3. ValidGet(b.origin, b.pairs)
    BY <1>4, <1>5, <1>6, <2>1, <2>2 DEF ValidGet
  <2> QED
    BY <2>1, <2>3 DEF Fetchable
<1>11. b.at = now
  OBVIOUS
<1> HIDE DEF new, b
<1>12. \A t \in new : t.expires = now + SignatureLifetime /\ IsTrue(t, held)
  BY <1>8
<1> QED
  BY <1>1, <1>9, <1>10, <1>11, <1>12, Signing

\* Anchor::prepare_icrc3_attributes
LEMMA Icrc3Prepared ==
    ASSUME AttributesInv, now' = now, NEW creds \in Seq(held), NEW r,
           ValidateIcrc3(r.origin, r.unmapped, TRUE, r.specs) # None, PrepareIcrc3(creds, r)
    PROVE  AnswersKept
<1> DEFINE specs == ValidateIcrc3(r.origin, r.unmapped, TRUE, r.specs)
           message == Icrc3Message(creds, specs, r)
           t == Signature("ic-sender-info", AccountSeed(r.origin), message)
           b == [kind |-> "icrc3", origin |-> r.origin, message |-> message, at |-> now]
<1>1. /\ Icrc3Match(creds, specs) /\ AddSignatures({t}) /\ UpdateRootHash
      /\ answers' = answers \cup {b}
  BY DEF PrepareIcrc3
<1>2. sso \in SsoProviders /\ held \subseteq Credentials
  BY DEF AttributesInv
<1>3. /\ r.origin \notin LongOrigins
      /\ r.unmapped # None => RemapToLegacyDomain(r.unmapped) = r.origin
      /\ \A i \in DOMAIN r.specs : ParseKey(r.specs[i].text) # None
      /\ specs = [i \in DOMAIN r.specs |->
                    [key |-> ParseKey(r.specs[i].text), value |-> r.specs[i].value,
                     omit |-> r.specs[i].omit]]
  BY DEF ValidateIcrc3
<1> HIDE DEF specs
<1>4. ASSUME NEW i \in DOMAIN specs
      PROVE  LET k == specs[i].key
                 v == SpecValue(creds, specs[i])
             IN  <<k.scope, k.name, v>> \in Facts(held)
  <2> DEFINE k == specs[i].key
             v == SpecValue(creds, specs[i])
             c == FirstUnder(creds, k.scope)
  <2>1. v # None
    BY <1>1 DEF Icrc3Match
  <2>2. k.scope # None /\ k.name \in Names
    BY <1>3, KeyFacts
  <2>3. v = ValueOf(c, k.name) /\ c # None
    BY <2>1 DEF SpecValue
  <2> HIDE DEF k, v
  <2>4. <<k.scope, k.name, ValueOf(c, k.name)>> \in Facts(held)
    BY <1>2, <2>1, <2>2, <2>3, FoundIsFact
  <2> QED
    BY <2>3, <2>4 DEF k, v
<1>5. ASSUME NEW pair \in message.pairs
      PROVE  \E f \in Facts(held) : pair[1] \in {<<f[2]>>, Append(f[1], f[2])} /\ pair[2] = f[3]
  <2>1. PICK i \in DOMAIN specs : pair = <<CertifiedKey(specs[i]), SpecValue(creds, specs[i])>>
    BY DEF Icrc3Message
  <2> DEFINE k == specs[i].key
             f == <<k.scope, k.name, SpecValue(creds, specs[i])>>
  <2>2. f \in Facts(held)
    BY <1>4
  <2>3. f[1] = k.scope /\ f[2] = k.name /\ f[3] = SpecValue(creds, specs[i])
    OBVIOUS
  <2> HIDE DEF f
  <2>4. pair[1] \in {<<f[2]>>, Append(f[1], f[2])} /\ pair[2] = f[3]
    BY <2>1, <2>3 DEF CertifiedKey, ShowKey
  <2> QED
    BY <2>2, <2>4
<1>6. r.origin \in {message.origin, RemapToLegacyDomain(message.origin)}
  BY <1>3 DEF Icrc3Message
<1> HIDE DEF message
<1>7. /\ t.domain = "ic-sender-info" /\ t.message = message /\ t.seed = AccountSeed(r.origin)
      /\ t.expires = now + SignatureLifetime
  BY DEF Signature
<1>8. t.seed[2] = r.origin
  BY <1>7 DEF AccountSeed
<1> HIDE DEF t
<1>9. IsTrue(t, held)
  BY <1>5, <1>6, <1>7, <1>8 DEF IsTrue
<1>10. b.kind = "icrc3" /\ b.origin = r.origin /\ b.message = message /\ b.at = now
  OBVIOUS
<1> HIDE DEF b
<1>11. Fetchable(b)
  BY <1>3, <1>10 DEF Fetchable, ValidGetIcrc3
<1>12. \A n \in Needs(b) : \E s \in {t} : Triple(s) = n
  BY <1>7, <1>10 DEF Needs, Triple
<1>13. \A s \in {t} : s.expires = now + SignatureLifetime /\ IsTrue(s, held)
  BY <1>7, <1>9
<1> QED
  BY <1>1, <1>10, <1>11, <1>12, <1>13, Signing

\* prepare_account_delegation and prepare_jwt_delegation
LEMMA DelegationPrepared ==
    ASSUME AttributesInv, now' = now, NEW seed, NEW expiration, SignDelegation(seed, expiration)
    PROVE  AnswersKept
<1> DEFINE t == Signature("ic-request-auth-delegation", seed, <<expiration>>)
           b == [kind |-> "delegation", seed |-> seed, expiration |-> expiration, at |-> now]
<1>1. AddSignatures({t}) /\ UpdateRootHash /\ answers' = answers \cup {b}
  BY DEF SignDelegation
<1>2. /\ t.domain = "ic-request-auth-delegation" /\ t.seed = seed /\ t.message = <<expiration>>
      /\ t.expires = now + SignatureLifetime
  BY DEF Signature
<1>3. b.kind = "delegation" /\ b.seed = seed /\ b.expiration = expiration /\ b.at = now
  OBVIOUS
<1> HIDE DEF t, b
<1>4. Fetchable(b)
  BY <1>3 DEF Fetchable
<1>5. \A n \in Needs(b) : \E s \in {t} : Triple(s) = n
  BY <1>2, <1>3 DEF Needs, Triple
<1>6. \A s \in {t} : s.expires = now + SignatureLifetime /\ IsTrue(s, held)
  BY <1>2 DEF IsTrue
<1> QED
  BY <1>1, <1>3, <1>4, <1>5, <1>6, Signing

\* prepare_id_alias
LEMMA AliasPrepared ==
    ASSUME AttributesInv, now' = now, PrepareIdAlias
    PROVE  AnswersKept
<1> DEFINE seed == <<"alias", prepared>>
           sign(dapp) == Signature("iccs_verifiable_credential", seed, <<dapp>>)
           new == {sign(dapp) : dapp \in {"relying party", "issuer"}}
           b == [kind |-> "alias", seed |-> seed, at |-> now]
<1>1. AddSignatures(new) /\ UpdateRootHash /\ answers' = answers \cup {b}
  BY DEF PrepareIdAlias
<1>2. b.kind = "alias" /\ b.seed = seed /\ b.at = now
  OBVIOUS
<1> HIDE DEF b, seed
<1>3. Fetchable(b)
  BY <1>2 DEF Fetchable
<1>4. \A n \in Needs(b) : \E t \in new : Triple(t) = n
  <2> SUFFICES ASSUME NEW n \in Needs(b) PROVE \E t \in new : Triple(t) = n
    OBVIOUS
  <2>1. PICK dapp \in {"relying party", "issuer"} :
          n = <<"iccs_verifiable_credential", seed, <<dapp>>>>
    BY <1>2 DEF Needs
  <2>2. Triple(sign(dapp)) = n
    BY <2>1 DEF Triple, Signature
  <2> QED
    BY <2>2
<1>5. ASSUME NEW t \in new
      PROVE  t.expires = now + SignatureLifetime /\ IsTrue(t, held)
  <2>1. PICK dapp \in {"relying party", "issuer"} : t = sign(dapp)
    OBVIOUS
  <2> HIDE DEF new
  <2>2. t.domain = "iccs_verifiable_credential" /\ t.expires = now + SignatureLifetime
    BY <2>1 DEF Signature
  <2> QED
    BY <2>2 DEF IsTrue
<1> HIDE DEF new
<1> QED
  BY <1>1, <1>2, <1>3, <1>4, <1>5, Signing

\* A call that answers nothing.
LEMMA NothingPrepared ==
    ASSUME AttributesInv, UNCHANGED <<sigs, certified, answers, now>>
    PROVE  AnswersKept
<1>1. RootIsCertified'
  BY DEF AttributesInv, RootIsCertified
<1>2. \A s \in sigs' : IsTrue(s, held)
  BY DEF AttributesInv
<1>3. \A a \in answers' : Kept(a)' /\ Fetchable(a)
  BY DEF AttributesInv, Kept, InMap
<1> QED
  BY <1>1, <1>2, <1>3 DEF AnswersKept

-----------------------------------------------------------------------------
(***************************************************************************)
(* Every step.                                                             *)
(***************************************************************************)

\* What a step does to the answers, and to what waits for the salt.
LEMMA Framed ==
    ASSUME AttributesInv, sso' \in SsoProviders, now' \in Nat,
           held' = held \cup Range(credentials'), credentials' \in Seq(held \cup Credentials),
           calls' = calls \/ calls' = {} \/ (\E c \in calls : calls' = calls \ {c})
             \/ (\E c : Waiting(c) /\ calls' = calls \cup {c}),
           AnswersKept
    PROVE  AttributesInv'
<1>1. held \subseteq Credentials
  BY DEF AttributesInv
<1>2. Range(credentials') \subseteq Credentials
  BY <1>1, RangeOfSeq
<1>3. held \subseteq held' /\ held' \subseteq Credentials
  BY <1>1, <1>2
<1>4. credentials' \in Seq(held')
  <2>1. credentials' \in Seq(Range(credentials'))
    BY SeqOfRange
  <2> QED
    BY <2>1, SeqMonotonic
<1>5. ASSUME NEW c, Waiting(c) PROVE Waiting(c)'
  BY <1>3, <1>5, SeqMonotonic DEF Waiting
<1>6. \A c \in calls' : Waiting(c)'
  BY <1>5 DEF AttributesInv
<1>7. Facts(held) \subseteq Facts(held')
  BY <1>3, FactsGrow
<1>8. \A s \in sigs' : IsTrue(s, held)'
  BY <1>7 DEF AnswersKept, IsTrue
<1>9. \A a \in answers' : Kept(a)' /\ Fetchable(a)'
  BY DEF AnswersKept, Fetchable
<1> QED
  BY <1>3, <1>4, <1>6, <1>8, <1>9 DEF AttributesInv, AnswersKept

\* A prepare call after the await: the credentials it works with are the
\* identity's, if only former ones.
LEMMA Performed ==
    ASSUME AttributesInv, now' = now, NEW creds \in Seq(held), NEW r,
           r.kind = "attributes" => r.texts \in Requests, Valid(r), Perform(creds, r)
    PROVE  AnswersKept
<1>1. CASE r.kind = "attributes"
  BY <1>1, AttributesPrepared DEF Perform, Valid
<1>2. CASE r.kind # "attributes"
  <2>1. ValidateIcrc3(r.origin, r.unmapped, TRUE, r.specs) # None
    BY <1>2 DEF Valid
  <2>2. CASE Icrc3Match(creds, ValidateIcrc3(r.origin, r.unmapped, TRUE, r.specs))
    <3>1. PrepareIcrc3(creds, r)
      BY <1>2, <2>2 DEF Perform
    <3> QED
      BY <2>1, <3>1, Icrc3Prepared
  <2>3. CASE ~Icrc3Match(creds, ValidateIcrc3(r.origin, r.unmapped, TRUE, r.specs))
    <3>1. UNCHANGED <<sigs, certified, answers>>
      BY <1>2, <2>3 DEF Perform
    <3> QED
      BY <3>1, NothingPrepared
  <2> QED
    BY <2>2, <2>3
<1> QED
  BY <1>1, <1>2

\* The salt is there, or the call waits for it.
LEMMA PrepareKeeps ==
    ASSUME AttributesInv, NEW r, r.kind = "attributes" => r.texts \in Requests, Prepare(r)
    PROVE  AnswersKept /\ (calls' = calls \/ \E c : Waiting(c) /\ calls' = calls \cup {c})
<1>1. now' = now /\ Valid(r)
  BY DEF Prepare
<1>2. credentials \in Seq(held)
  BY DEF AttributesInv
<1>3. CASE saltSet
  BY <1>1, <1>2, <1>3, Performed DEF Prepare
<1>4. CASE ~saltSet
  <2> DEFINE c == [credentials |-> credentials, request |-> r]
  <2>1. calls' = calls \cup {c} /\ UNCHANGED <<sigs, certified, answers, now>>
    BY <1>4 DEF Prepare
  <2>2. c.credentials = credentials /\ c.request = r
    OBVIOUS
  <2> HIDE DEF c
  <2>3. Waiting(c)
    BY <1>1, <1>2, <2>2 DEF Waiting
  <2>4. AnswersKept
    BY <2>1, NothingPrepared
  <2> QED
    BY <2>1, <2>3, <2>4
<1> QED
  BY <1>3, <1>4

\* The random bytes arrive; the call answers with what it has read before.
LEMMA ResumeKeeps ==
    ASSUME AttributesInv, NEW c \in calls, Resume(c)
    PROVE  AnswersKept
<1>1. now' = now /\ Waiting(c)
  BY DEF Resume, AttributesInv
<1>2. CASE prepared < MaxPrepared
  <2>1. Perform(c.credentials, c.request)
    BY <1>2 DEF Resume
  <2> QED
    BY <1>1, <2>1, Performed DEF Waiting
<1>3. CASE ~(prepared < MaxPrepared)
  <2>1. UNCHANGED <<sigs, certified, answers>>
    BY <1>3 DEF Resume
  <2> QED
    BY <1>1, <2>1, NothingPrepared
<1> QED
  BY <1>2, <1>3

LEMMA PrepareDelegationKeeps ==
    ASSUME AttributesInv, PrepareDelegation
    PROVE  AnswersKept
<1>1. now' = now
  BY DEF PrepareDelegation
<1>2. \/ \E seed, expiration : SignDelegation(seed, expiration)
      \/ PrepareIdAlias
  BY DEF PrepareDelegation
<1> QED
  BY <1>1, <1>2, DelegationPrepared, AliasPrepared

\* Whatever happens to the credentials, they are ones the identity may have.
LEMMA ChangeKeeps ==
    ASSUME AttributesInv, ChangeCredentials
    PROVE  credentials' \in Seq(held \cup Credentials)
<1> DEFINE S == held \cup Credentials
<1>1. credentials \in Seq(S)
  BY SeqMonotonic DEF AttributesInv
<1>2. Len(credentials) \in Nat /\ DOMAIN credentials = 1..Len(credentials)
  BY <1>1, LenProperties
<1>3. \/ \E c \in Credentials : credentials' = Append(credentials, c)
      \/ \E i \in DOMAIN credentials : credentials' = RemoveAt(credentials, i)
      \/ \E i \in DOMAIN credentials, c \in Credentials :
            credentials' = [credentials EXCEPT ![i] = c]
  BY DEF ChangeCredentials
<1> HIDE DEF S
<1>4. Credentials \subseteq S
  BY DEF S
<1>5. ASSUME NEW c \in Credentials, credentials' = Append(credentials, c)
      PROVE  credentials' \in Seq(S)
  BY <1>1, <1>4, <1>5, AppendProperties
<1>6. ASSUME NEW i \in DOMAIN credentials, credentials' = RemoveAt(credentials, i)
      PROVE  credentials' \in Seq(S)
  <2>1. \A j \in 1..Len(credentials) : credentials[j] \in S
    BY <1>1, ElementOfSeq
  <2>2. SubSeq(credentials, 1, i - 1) \in Seq(S)
    BY <1>1, <1>2, <2>1, SubSeqProperties
  <2>3. SubSeq(credentials, i + 1, Len(credentials)) \in Seq(S)
    BY <1>1, <1>2, <2>1, SubSeqProperties
  <2> QED
    BY <1>6, <2>2, <2>3, ConcatProperties DEF RemoveAt
<1>7. ASSUME NEW i \in DOMAIN credentials, NEW c \in Credentials,
             credentials' = [credentials EXCEPT ![i] = c]
      PROVE  credentials' \in Seq(S)
  BY <1>1, <1>2, <1>4, <1>7, ExceptSeq
<1> QED
  BY <1>3, <1>5, <1>6, <1>7 DEF S

\* initialize leaves nothing to be returned.
LEMMA UpgradeKept ==
    ASSUME Upgrade
    PROVE  AnswersKept
  BY DEF Upgrade, AnswersKept, RootIsCertified

\* Time passes; what has expired is not asked for any more.
LEMMA TickKeeps ==
    ASSUME AttributesInv, Tick
    PROVE  AnswersKept /\ now' \in Nat
<1>1. /\ now' = now + 1 /\ now \in Nat /\ SignatureLifetime \in Nat
      /\ sigs' = sigs /\ certified' = certified /\ answers' = answers
  BY AttributesAssumption DEF Tick, AttributesInv
<1>2. RootIsCertified'
  BY <1>1 DEF AttributesInv, RootIsCertified
<1>3. \A s \in sigs' : IsTrue(s, held)
  BY <1>1 DEF AttributesInv
<1>4. ASSUME NEW a \in answers' PROVE Kept(a)' /\ Fetchable(a)
  <2>1. Kept(a) /\ Fetchable(a)
    BY <1>1 DEF AttributesInv
  <2>2. a.at \in Nat /\ a.at <= now'
    BY <1>1, <2>1 DEF Kept
  <2>3. now' < a.at + SignatureLifetime => now < a.at + SignatureLifetime
    BY <1>1, <2>2
  <2>4. \A n \in Needs(a) : InMap(n, a.at) => InMap(n, a.at)'
    BY <1>1 DEF InMap
  <2> QED
    BY <2>1, <2>2, <2>3, <2>4 DEF Kept
<1> QED
  BY <1>1, <1>2, <1>3, <1>4 DEF AnswersKept

LEMMA AttributesInit == Init => AttributesInv
<1> SUFFICES ASSUME Init PROVE AttributesInv
  OBVIOUS
<1>1. PICK n \in 0..MaxCredentials : credentials \in [1..n -> Credentials]
  BY DEF Init
<1>2. n \in Nat
  BY AttributesAssumption
<1>3. credentials \in Seq(Credentials) /\ held = Range(credentials)
  BY <1>1, <1>2, IsASeq DEF Init
<1>4. held \subseteq Credentials /\ credentials \in Seq(held)
  BY <1>3, RangeOfSeq, SeqOfRange
<1> QED
  BY <1>4 DEF Init, AttributesInv, RootIsCertified

LEMMA AttributesNext == AttributesInv /\ [Next]_vars => AttributesInv'
<1> SUFFICES ASSUME AttributesInv, [Next]_vars PROVE AttributesInv'
  OBVIOUS
<1>1. /\ sso \in SsoProviders /\ now \in Nat /\ held \subseteq Credentials
      /\ credentials \in Seq(held) /\ credentials \in Seq(held \cup Credentials)
      /\ held = held \cup Range(credentials)
  BY SeqMonotonic, RangeOfSeq DEF AttributesInv
<1>2. CASE Next
  <2>1. held' = held \cup Range(credentials')
    BY <1>2 DEF Next
  <2>2. ASSUME NEW o \in Origins, NEW texts \in Requests,
               Prepare([kind |-> "attributes", origin |-> o[1], texts |-> texts])
        PROVE  AttributesInv'
    <3> DEFINE r == [kind |-> "attributes", origin |-> o[1], texts |-> texts]
    <3>1. r.kind = "attributes" => r.texts \in Requests
      OBVIOUS
    <3> HIDE DEF r
    <3>2. Prepare(r)
      BY <2>2 DEF r
    <3>3. AnswersKept /\ (calls' = calls \/ \E c : Waiting(c) /\ calls' = calls \cup {c})
      BY <3>1, <3>2, PrepareKeeps
    <3>4. UNCHANGED <<sso, credentials, now>>
      BY <3>2 DEF Prepare
    <3> QED
      BY <1>1, <2>1, <3>3, <3>4, Framed
  <2>3. ASSUME NEW o \in Origins, NEW specs \in SpecLists,
               Prepare([kind |-> "icrc3", origin |-> o[1], unmapped |-> o[2], specs |-> specs])
        PROVE  AttributesInv'
    <3> DEFINE r == [kind |-> "icrc3", origin |-> o[1], unmapped |-> o[2], specs |-> specs]
    <3>1. r.kind = "attributes" => r.texts \in Requests
      OBVIOUS
    <3> HIDE DEF r
    <3>2. Prepare(r)
      BY <2>3 DEF r
    <3>3. AnswersKept /\ (calls' = calls \/ \E c : Waiting(c) /\ calls' = calls \cup {c})
      BY <3>1, <3>2, PrepareKeeps
    <3>4. UNCHANGED <<sso, credentials, now>>
      BY <3>2 DEF Prepare
    <3> QED
      BY <1>1, <2>1, <3>3, <3>4, Framed
  <2>4. ASSUME NEW c \in calls, Resume(c) PROVE AttributesInv'
    <3>1. AnswersKept
      BY <2>4, ResumeKeeps
    <3>2. UNCHANGED <<sso, credentials, now>> /\ calls' = calls \ {c}
      BY <2>4 DEF Resume
    <3> QED
      BY <1>1, <2>1, <3>1, <3>2, Framed
  <2>5. CASE PrepareDelegation
    <3>1. AnswersKept
      BY <2>5, PrepareDelegationKeeps
    <3>2. UNCHANGED <<sso, credentials, calls, now>>
      BY <2>5 DEF PrepareDelegation
    <3> QED
      BY <1>1, <2>1, <3>1, <3>2, Framed
  <2>6. CASE ChangeCredentials
    <3>1. credentials' \in Seq(held \cup Credentials)
      BY <2>6, ChangeKeeps
    <3>2. UNCHANGED <<sso, calls, sigs, certified, answers, now>>
      BY <2>6 DEF ChangeCredentials
    <3>3. AnswersKept
      BY <3>2, NothingPrepared
    <3> QED
      BY <1>1, <2>1, <3>1, <3>2, <3>3, Framed
  <2>7. CASE Discover
    <3>1. sso' \in SsoProviders /\ UNCHANGED <<credentials, calls, sigs, certified, answers, now>>
      BY <2>7 DEF Discover
    <3>2. AnswersKept
      BY <3>1, NothingPrepared
    <3> QED
      BY <1>1, <2>1, <3>1, <3>2, Framed
  <2>8. CASE Upgrade
    <3>1. sso' \in SsoProviders /\ calls' = {} /\ UNCHANGED <<credentials, now>>
      BY <2>8 DEF Upgrade
    <3>2. AnswersKept
      BY <2>8, UpgradeKept
    <3> QED
      BY <1>1, <2>1, <3>1, <3>2, Framed
  <2>9. CASE Tick
    <3>1. AnswersKept /\ now' \in Nat
      BY <2>9, TickKeeps
    <3>2. UNCHANGED <<sso, credentials, calls>>
      BY <2>9 DEF Tick
    <3> QED
      BY <1>1, <2>1, <3>1, <3>2, Framed
  <2> QED
    BY <1>2, <2>2, <2>3, <2>4, <2>5, <2>6, <2>7, <2>8, <2>9 DEF Next, Step
<1>3. CASE UNCHANGED vars
  <2>1. UNCHANGED <<sso, credentials, calls, sigs, certified, answers, now, held>>
    BY <1>3 DEF vars
  <2>2. AnswersKept
    BY <2>1, NothingPrepared
  <2> QED
    BY <1>1, <2>1, <2>2, Framed
<1> QED
  BY <1>2, <1>3

LEMMA AttributesAlways == Spec => []AttributesInv
  BY AttributesInit, AttributesNext, PTL DEF Spec

-----------------------------------------------------------------------------
\* Whatever prepare_attributes, prepare_icrc3_attributes, prepare_id_alias and
\* the two calls that prepare a delegation have answered, the query after it
\* finds signed and certified for as long as the map keeps signatures, whatever
\* became of the credentials, the providers and the salt in between.
THEOREM PreparedStaysReturned == Spec => []PreparedIsReturned
<1>1. AttributesInv => PreparedIsReturned
  BY InvPrepared
<1> QED
  BY <1>1, AttributesAlways, PTL

\* Whatever is in the map of signatures for an attribute is true of a
\* credential that the identity has had, also when the call that signed it
\* waited for the salt while the credential was taken from it.
THEOREM CertifiedStaysTrue == Spec => []CertifiedIsTrue
<1>1. AttributesInv => CertifiedIsTrue
  BY InvTrue
<1> QED
  BY <1>1, AttributesAlways, PTL

\* list_available_attributes shows whatever prepare_icrc3_attributes would
\* certify, with the value that it would certify.
THEOREM CertifiableStaysListed == Spec => []CertifiableIsListed
<1>1. AttributesInv => CertifiableIsListed
  <2> SUFFICES ASSUME AttributesInv PROVE CertifiableIsListed
    OBVIOUS
  <2>1. sso \in SsoProviders /\ credentials \in Seq(held)
    BY DEF AttributesInv
  <2>2. Len(credentials) \in Nat /\ DOMAIN credentials = 1..Len(credentials)
    BY <2>1, LenProperties
  <2> QED
    BY <2>1, <2>2, CertifiableListed
<1> QED
  BY <1>1, AttributesAlways, PTL

\* The provider that verifies a token is the one under whose scope the
\* attributes of its credential are found, whatever discovery has found out.
THEOREM ScopeStaysAgreed == Spec => []ScopeAgrees
<1>1. AttributesInv => ScopeAgrees
  BY ScopesAgree DEF AttributesInv
<1> QED
  BY <1>1, AttributesAlways, PTL

=============================================================================
