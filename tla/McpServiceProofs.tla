-------------------------- MODULE McpServiceProofs --------------------------
(***************************************************************************)
(* Theorems about McpService, for any sets of callers and servers and any  *)
(* number of edits.                                                        *)
(***************************************************************************)
EXTENDS McpService, TLAPS

-----------------------------------------------------------------------------
(* The trust gate.  What a caller may carry past the gate is a matter of    *)
(* types: Jobs(A) are the callers that connect servers of A only.          *)

Ops == {"none", "call", "list", "reload"}
Places == {"idle", "check", "gate", "lock", "written", "prompt", "clear", "connect",
           "refresh", "drop", "lookup", "use", "calling"}
Jobs(A) ==
    [pc : Places, op : Ops, raw : Configs, seen : SUBSET LocalServers, key : Configs,
     trusted : SUBSET A, todo : SUBSET A, bad : SUBSET A, old : Configs \cup {Nothing}]

Admitted == UserServers \cup accepted

\* Nothing but admitted servers is connected, reported, cached or carried past
\* the gate, and a remembered yes is about admitted servers.
TrustInv ==
    /\ accepted \in SUBSET LocalServers /\ local \in SUBSET LocalServers
    /\ trust \in [config : SUBSET LocalServers, ok : BOOLEAN]
    /\ trust.ok => trust.config \subseteq accepted
    /\ caller \in [Callers -> Jobs(Admitted)]
    /\ cache \in [Configs -> (SUBSET Admitted) \cup {Nothing}]
    /\ tools \in SUBSET Admitted /\ failed \in SUBSET Admitted
    /\ hash \in Configs \cup {Nothing} /\ stale \in Configs \cup {Nothing}

LEMMA IdleJob == ASSUME NEW A PROVE Idle \in Jobs(A)
BY DEF Idle, Jobs, Places, Ops, Configs

LEMMA CallerUpdate ==
    ASSUME NEW A, NEW f \in [Callers -> Jobs(A)], NEW c \in Callers, NEW r \in Jobs(A)
    PROVE  [f EXCEPT ![c] = r] \in [Callers -> Jobs(A)]
OBVIOUS

LEMMA JobUpdate ==
    ASSUME NEW A, NEW r \in Jobs(A), NEW S \in SUBSET A, NEW T \in SUBSET A,
           NEW K \in Configs, NEW L \in SUBSET LocalServers,
           NEW h \in Configs \cup {Nothing}
    PROVE  /\ [r EXCEPT !.pc = "clear", !.raw = K, !.seen = L, !.trusted = T] \in Jobs(A)
           /\ [r EXCEPT !.pc = "prompt", !.seen = L] \in Jobs(A)
           /\ [r EXCEPT !.pc = "check", !.raw = K] \in Jobs(A)
           /\ [r EXCEPT !.pc = "connect", !.old = h, !.todo = S] \in Jobs(A)
           /\ [r EXCEPT !.todo = S, !.bad = T] \in Jobs(A)
           /\ [r EXCEPT !.todo = S] \in Jobs(A)
BY DEF Jobs, Places

\* Witnesses for the parameters of JobUpdate that a step does not use.
LEMMA Trivial ==
    /\ {} \in SUBSET LocalServers /\ {} \in Configs
    /\ Nothing \in Configs \cup {Nothing}
    /\ \A A : {} \in SUBSET A
BY DEF Configs

LEMMA JobsGrow ==
    ASSUME NEW A, NEW B, A \subseteq B
    PROVE  [Callers -> Jobs(A)] \subseteq [Callers -> Jobs(B)]
<1>1. Jobs(A) \subseteq Jobs(B) BY DEF Jobs
<1> QED BY <1>1

LEMMA DoneJob ==
    ASSUME NEW A, caller \in [Callers -> Jobs(A)], NEW c \in Callers, Done(c)
    PROVE  caller' \in [Callers -> Jobs(A)]
BY IdleJob DEF Done

LEMMA GotoJob ==
    ASSUME NEW A, caller \in [Callers -> Jobs(A)], NEW c \in Callers,
           NEW l \in Places, Goto(c, l)
    PROVE  caller' \in [Callers -> Jobs(A)]
BY DEF Goto, Jobs

LEMMA UseJob ==
    ASSUME NEW A, caller \in [Callers -> Jobs(A)], NEW c \in Callers, Use(c)
    PROVE  caller' \in [Callers -> Jobs(A)]
<1>1. [Idle EXCEPT !.pc = "use", !.op = caller[c].op, !.key = caller[c].key] \in Jobs(A)
  BY IdleJob DEF Jobs, Places, Idle
<1> QED BY <1>1 DEF Use

LEMMA GatedJob ==
    ASSUME NEW A \in Configs, caller \in [Callers -> Jobs(A)], NEW c \in Callers,
           NEW B, UserServers \cup B \subseteq A, Gated(c, B)
    PROVE  caller' \in [Callers -> Jobs(A)]
<1> DEFINE t == Retained(caller[c].raw, B)
<1>0. caller[c] \in Jobs(A) OBVIOUS
<1>1. t \in SUBSET A /\ t \in Configs BY DEF Retained, Configs
<1> HIDE DEF t
<1>2. [caller[c] EXCEPT !.pc = "clear", !.raw = {}, !.seen = {}, !.trusted = t] \in Jobs(A)
  BY ONLY <1>0, <1>1, JobUpdate, Trivial, Zenon
<1>3. [Idle EXCEPT !.pc = "lookup", !.op = "list", !.key = t] \in Jobs(A)
  BY <1>1, IdleJob DEF Jobs, Places, Ops, Idle
<1>4. caller' = [caller EXCEPT ![c] =
          IF initLock = c
          THEN [caller[c] EXCEPT !.pc = "clear", !.raw = {}, !.seen = {}, !.trusted = t]
          ELSE [Idle EXCEPT !.pc = "lookup", !.op = "list", !.key = t]]
  BY Zenon DEF Gated, t
<1>5. CASE initLock = c
  <2>1. caller' = [caller EXCEPT ![c] =
            [caller[c] EXCEPT !.pc = "clear", !.raw = {}, !.seen = {}, !.trusted = t]]
    BY <1>4, <1>5, Zenon
  <2> QED BY ONLY <1>2, <2>1, CallerUpdate, caller \in [Callers -> Jobs(A)], c \in Callers, Zenon
<1>6. CASE initLock # c
  <2>1. caller' = [caller EXCEPT ![c] = [Idle EXCEPT !.pc = "lookup", !.op = "list", !.key = t]]
    BY <1>4, <1>6, Zenon
  <2> QED BY ONLY <1>3, <2>1, CallerUpdate, caller \in [Callers -> Jobs(A)], c \in Callers, Zenon
<1> QED BY <1>5, <1>6

\* Steps that leave the decisions alone only have to keep the types.
LEMMA SameDecisions ==
    ASSUME TrustInv, UNCHANGED gate, local' \in SUBSET LocalServers,
           caller' \in [Callers -> Jobs(Admitted)],
           cache' \in [Configs -> (SUBSET Admitted) \cup {Nothing}],
           tools' \in SUBSET Admitted, failed' \in SUBSET Admitted,
           hash' \in Configs \cup {Nothing}, stale' \in Configs \cup {Nothing}
    PROVE  TrustInv'
<1>1. Admitted' = Admitted BY DEF Admitted, gate
<1> QED BY <1>1 DEF TrustInv, gate

LEMMA AdmittedConfigs ==
    ASSUME TrustInv
    PROVE  /\ Admitted \in Configs /\ SUBSET Admitted \subseteq Configs
           /\ Raw \in Configs
BY DEF TrustInv, Admitted, Configs, Servers, Raw

LEMMA EmptyCacheType ==
    ASSUME NEW A PROVE EmptyCache \in [Configs -> (SUBSET A) \cup {Nothing}]
BY DEF EmptyCache

LEMMA UpdateSteps ==
    ASSUME TrustInv, NEW c \in Callers,
           \/ Clear(c) \/ (\E s \in Servers : Connected(c, s)) \/ Commit(c)
           \/ Refresh(c) \/ Drop(c)
    PROVE  TrustInv'
<1> USE DEF files, state
<1>0. caller[c] \in Jobs(Admitted) /\ caller \in [Callers -> Jobs(Admitted)] BY DEF TrustInv
<1>1. CASE Clear(c)
  <2>1. caller[c].trusted \in SUBSET Admitted /\ hash \in Configs \cup {Nothing}
    BY <1>0 DEF TrustInv, Jobs
  <2>2. [caller[c] EXCEPT !.pc = "connect", !.old = hash, !.todo = caller[c].trusted]
           \in Jobs(Admitted)
    BY ONLY <1>0, <2>1, JobUpdate, Trivial, Zenon
  <2>3. caller' = [caller EXCEPT ![c] =
            [@ EXCEPT !.pc = "connect", !.old = hash, !.todo = caller[c].trusted]]
    BY <1>1, Zenon DEF Clear
  <2>4. caller' \in [Callers -> Jobs(Admitted)]
    BY ONLY <1>0, <2>2, <2>3, CallerUpdate, c \in Callers, Zenon
  <2>5. UNCHANGED <<gate, local, cache, stale>> /\ hash' = hash /\ tools' = {} /\ failed' = {}
    BY <1>1 DEF Clear, HashAtClear
  <2> QED BY <2>4, <2>5, SameDecisions DEF TrustInv
<1>2. ASSUME NEW s \in Servers, Connected(c, s) PROVE TrustInv'
  <2>0. s \in caller[c].todo BY <1>2 DEF Connected
  <2>1. /\ caller[c].todo \ {s} \in SUBSET Admitted
        /\ caller[c].bad \cup {s} \in SUBSET Admitted
        /\ tools \cup {s} \in SUBSET Admitted
    BY <1>0, <2>0 DEF TrustInv, Jobs
  <2>2. /\ [caller[c] EXCEPT !.todo = caller[c].todo \ {s}] \in Jobs(Admitted)
        /\ [caller[c] EXCEPT !.todo = caller[c].todo \ {s}, !.bad = caller[c].bad \cup {s}]
              \in Jobs(Admitted)
    BY ONLY <1>0, <2>1, JobUpdate, Trivial, Zenon
  <2>3. /\ UNCHANGED <<gate, local, cache, stale, hash, failed>>
        /\ tools' = tools \cup {s} \/ tools' = tools
    BY <1>2 DEF Connected
  <2>4. caller' \in [Callers -> Jobs(Admitted)]
    <3>1. CASE caller' = [caller EXCEPT ![c] = [@ EXCEPT !.todo = caller[c].todo \ {s}]]
      BY ONLY <1>0, <2>2, <3>1, CallerUpdate, c \in Callers, Zenon
    <3>2. CASE caller' = [caller EXCEPT ![c] =
                  [@ EXCEPT !.todo = caller[c].todo \ {s}, !.bad = caller[c].bad \cup {s}]]
      BY ONLY <1>0, <2>2, <3>2, CallerUpdate, c \in Callers, Zenon
    <3> QED BY <1>2, <3>1, <3>2, Zenon DEF Connected
  <2> QED BY <2>1, <2>3, <2>4, SameDecisions DEF TrustInv
<1>3. CASE Commit(c)
  <2>1. caller' \in [Callers -> Jobs(Admitted)] BY <1>0, <1>3, UseJob DEF Commit
  <2>2. caller[c].bad \in SUBSET Admitted /\ caller[c].trusted \in Configs
    BY <1>0, AdmittedConfigs DEF Jobs
  <2> QED BY <1>3, <2>1, <2>2, SameDecisions DEF Commit, TrustInv
<1>4. CASE Refresh(c)
  <2>1. caller' \in [Callers -> Jobs(Admitted)] BY <1>0, <1>4, GotoJob DEF Refresh, Places
  <2> QED BY <1>4, <2>1, SameDecisions, EmptyCacheType DEF Refresh, TrustInv
<1>5. CASE Drop(c)
  <2>1. caller' \in [Callers -> Jobs(Admitted)] BY <1>0, <1>5, DoneJob DEF Drop
  <2> QED BY <1>5, <2>1, SameDecisions DEF Drop, TrustInv
<1> QED BY <1>1, <1>2, <1>3, <1>4, <1>5

LEMMA GateSteps ==
    ASSUME TrustInv, NEW c \in Callers, Gate(c) \/ Prompt(c)
    PROVE  TrustInv'
<1> USE DEF files, state
<1>0. caller[c] \in Jobs(Admitted) /\ caller \in [Callers -> Jobs(Admitted)] BY DEF TrustInv
<1>1. CASE Gate(c)
  <2>1. caller' \in [Callers -> Jobs(Admitted)]
    <3>1. CASE (local = {} \/ trust.config = local) /\ Gated(c, IF trust.ok THEN local ELSE {})
      <4>1. UserServers \cup (IF trust.ok THEN local ELSE {}) \subseteq Admitted
        BY <3>1 DEF TrustInv, Admitted
      <4> QED BY <1>0, <3>1, <4>1, AdmittedConfigs, GatedJob
    <3>2. CASE caller' = [caller EXCEPT ![c] = [@ EXCEPT !.pc = "prompt", !.seen = local]]
      <4>1. local \in SUBSET LocalServers BY DEF TrustInv
      <4>2. [caller[c] EXCEPT !.pc = "prompt", !.seen = local] \in Jobs(Admitted)
        BY ONLY <1>0, <4>1, JobUpdate, Trivial, Zenon
      <4> QED BY ONLY <1>0, <3>2, <4>2, CallerUpdate, c \in Callers, Zenon
    <3> QED BY <1>1, <3>1, <3>2, Zenon DEF Gate
  <2>2. UNCHANGED <<gate, local, tools, failed, hash, stale, cache>> BY <1>1 DEF Gate
  <2> QED BY <2>1, <2>2, SameDecisions DEF TrustInv
<1>2. CASE Prompt(c)
  <2>1. PICK ok \in BOOLEAN :
          /\ trust' = [config |-> caller[c].seen, ok |-> ok]
          /\ accepted' = IF ok THEN accepted \cup caller[c].seen ELSE accepted
          /\ Gated(c, IF ok THEN caller[c].seen ELSE {})
    BY <1>2 DEF Prompt
  <2>2. caller[c].seen \in SUBSET LocalServers BY <1>0 DEF Jobs
  <2>3. /\ accepted' \in SUBSET LocalServers
        /\ accepted \subseteq accepted'
        /\ ok => caller[c].seen \subseteq accepted'
    BY <2>1, <2>2 DEF TrustInv
  <2>4. /\ Admitted \subseteq Admitted' /\ Admitted' \in Configs
        /\ UserServers \cup (IF ok THEN caller[c].seen ELSE {}) \subseteq Admitted'
    BY <2>3 DEF Admitted, Configs, Servers
  <2>5. caller' \in [Callers -> Jobs(Admitted')]
    <3>1. caller \in [Callers -> Jobs(Admitted')] BY <1>0, <2>4, JobsGrow, Zenon
    <3> QED BY <2>1, <2>4, <3>1, GatedJob, Zenon
  <2>6. UNCHANGED <<local, tools, failed, hash, stale, cache>> BY <1>2 DEF Prompt
  <2>7. cache' \in [Configs -> (SUBSET Admitted') \cup {Nothing}]
    <3>1. (SUBSET Admitted) \cup {Nothing} \subseteq (SUBSET Admitted') \cup {Nothing}
      BY <2>4
    <3> HIDE DEF Admitted
    <3> QED BY <2>6, <3>1 DEF TrustInv
  <2>8. /\ trust' \in [config : SUBSET LocalServers, ok : BOOLEAN]
        /\ trust'.ok => trust'.config \subseteq accepted'
    BY <2>1, <2>2, <2>3
  <2>9. tools' \in SUBSET Admitted' /\ failed' \in SUBSET Admitted'
    BY <2>4, <2>6 DEF TrustInv
  <2> QED BY <2>3, <2>5, <2>6, <2>7, <2>8, <2>9 DEF TrustInv
<1> QED BY <1>1, <1>2

LEMMA OtherSteps ==
    ASSUME TrustInv, NEW c \in Callers,
           \/ Enter(c) \/ Reload(c) \/ WriteConfig(c) \/ Cancel(c) \/ Written(c)
           \/ Check(c) \/ Lock(c) \/ Lookup(c) \/ Listed(c) \/ Used(c) \/ Returned(c)
    PROVE  TrustInv'
<1> USE DEF files, state
<1>0. caller[c] \in Jobs(Admitted) /\ caller \in [Callers -> Jobs(Admitted)] BY DEF TrustInv
<1>a. \A l \in Places : Goto(c, l) => caller' \in [Callers -> Jobs(Admitted)]
  BY <1>0, GotoJob
<1>b. Done(c) \/ Use(c) => caller' \in [Callers -> Jobs(Admitted)]
  BY <1>0, DoneJob, UseJob
<1>1. CASE Enter(c)
  <2>1. PICK e \in {<<"call", "check">>, <<"list", "gate">>} :
          caller' = [caller EXCEPT ![c] = [Idle EXCEPT !.op = e[1], !.pc = e[2], !.raw = Raw]]
    BY <1>1 DEF Enter
  <2>2. e[1] \in Ops /\ e[2] \in Places /\ Raw \in Configs
    BY AdmittedConfigs DEF Ops, Places
  <2>3. [Idle EXCEPT !.op = e[1], !.pc = e[2], !.raw = Raw] \in Jobs(Admitted)
    BY <2>2, IdleJob DEF Jobs, Idle
  <2>4. caller' \in [Callers -> Jobs(Admitted)]
    BY ONLY <1>0, <2>1, <2>3, CallerUpdate, c \in Callers, Zenon
  <2> QED BY <1>1, <2>4, SameDecisions DEF Enter, TrustInv
<1>2. CASE Reload(c)
  <2>1. [Idle EXCEPT !.op = "reload", !.pc = "lock"] \in Jobs(Admitted)
    BY IdleJob DEF Jobs, Idle, Ops, Places
  <2>2. caller' \in [Callers -> Jobs(Admitted)]
    BY <1>0, <1>2, <2>1 DEF Reload
  <2> QED BY <1>2, <2>2, SameDecisions DEF Reload, TrustInv
<1>3. CASE WriteConfig(c)
  BY <1>3, <1>a, SameDecisions DEF WriteConfig, TrustInv, Places
<1>4. CASE Cancel(c)
  <2>1. caller[c].old \in Configs \cup {Nothing} BY <1>0 DEF Jobs
  <2> QED BY <1>4, <1>b, <2>1, SameDecisions DEF Cancel, TrustInv
<1>5. CASE Written(c)
  BY <1>5, <1>b, SameDecisions, EmptyCacheType DEF Written, TrustInv
<1>6. CASE Check(c)
  BY <1>6, <1>a, <1>b, SameDecisions DEF Check, TrustInv, Places
<1>7. CASE Lock(c)
  BY <1>7, <1>a, <1>b, SameDecisions DEF Lock, TrustInv, Places
<1>8. CASE Lookup(c)
  <2>1. Raw \in Configs BY AdmittedConfigs
  <2>2. [caller[c] EXCEPT !.pc = "check", !.raw = Raw] \in Jobs(Admitted)
    BY ONLY <1>0, <2>1, JobUpdate, Trivial, Zenon
  <2>3. caller' \in [Callers -> Jobs(Admitted)]
    <3>1. CASE caller' = [caller EXCEPT ![c] = [@ EXCEPT !.pc = "check", !.raw = Raw]]
      BY ONLY <1>0, <2>2, <3>1, CallerUpdate, c \in Callers, Zenon
    <3> QED BY <1>8, <1>b, <3>1, Zenon DEF Lookup
  <2>4. UNCHANGED <<gate, local, tools, failed, hash, stale, cache>> BY <1>8 DEF Lookup
  <2> QED BY <2>3, <2>4, SameDecisions DEF TrustInv
<1>9. CASE Listed(c)
  <2>1. cache' \in [Configs -> (SUBSET Admitted) \cup {Nothing}]
    BY <1>9 DEF Listed, TrustInv
  <2> QED BY <1>9, <1>b, <2>1, SameDecisions DEF Listed, TrustInv
<1>10. CASE Used(c)
  BY <1>10, <1>a, <1>b, SameDecisions DEF Used, TrustInv, Places
<1>11. CASE Returned(c)
  BY <1>11, <1>b, SameDecisions DEF Returned, TrustInv
<1> QED
    BY <1>1, <1>2, <1>3, <1>4, <1>5, <1>6, <1>7, <1>8, <1>9, <1>10, <1>11

LEMMA TrustInvariant == Spec => []TrustInv
<1>1. Init => TrustInv
  BY IdleJob, EmptyCacheType, Trivial DEF Init, TrustInv
<1>2. TrustInv /\ [Next]_vars => TrustInv'
  <2> SUFFICES ASSUME TrustInv, [Next]_vars PROVE TrustInv' OBVIOUS
  <2>1. CASE Edit BY <2>1, SameDecisions DEF Edit, TrustInv, state
  <2>2. ASSUME NEW k \in Configs, Expire(k) PROVE TrustInv'
    <3>1. cache' \in [Configs -> (SUBSET Admitted) \cup {Nothing}]
      BY <2>2 DEF Expire, TrustInv
    <3> QED BY <2>2, <3>1, SameDecisions DEF Expire, TrustInv, files, state
  <2>3. CASE UNCHANGED vars
    BY <2>3, SameDecisions DEF vars, TrustInv, files, gate, state
  <2> QED BY <2>1, <2>2, <2>3, UpdateSteps, GateSteps, OtherSteps DEF Next, Step
<1> QED BY <1>1, <1>2, PTL DEF Spec

\* A server of the local file is connected, reported or cached only if the user
\* accepted a local configuration that names it.
THEOREM TrustCorrect == Spec => []OnlyTrusted
<1>1. TrustInv => OnlyTrusted BY DEF TrustInv, OnlyTrusted, Admitted
<1> QED BY <1>1, TrustInvariant, PTL

-----------------------------------------------------------------------------
(* The hash and the tool map.                                              *)

Locked == {"gate", "prompt", "clear", "connect", "refresh", "drop"}
Always == {"clear", "connect", "refresh", "drop"}

Populated ==
    hash # Nothing /\ hash # stale => hash \subseteq tools \cup failed /\ tools \subseteq hash

\* An update in progress: what is not connected yet has failed or is to do.
Progress(c) ==
    /\ hash = caller[c].old
    /\ failed = {}
    /\ tools \subseteq caller[c].trusted /\ caller[c].todo \subseteq caller[c].trusted
    /\ caller[c].trusted \subseteq tools \cup caller[c].bad \cup caller[c].todo

\* Who clears or fills the map holds init_lock; the hash stands for the map
\* except while an update fills it or a reload has dropped the hash.
ReadyInv ==
    /\ \A c \in Callers : initLock = c => caller[c].pc \in Locked
    /\ \A c \in Callers : caller[c].pc \in Always => initLock = c
    /\ \A c \in Callers : caller[c].pc = "connect" => Progress(c)
    /\ \A c \in Callers : caller[c].pc = "drop" => hash = Nothing
    /\ (\A c \in Callers : caller[c].pc # "connect") => Populated

LEMMA UpdateAt ==
    ASSUME TrustInv, NEW c \in Callers, NEW r, caller' = [caller EXCEPT ![c] = r]
    PROVE  /\ caller'[c] = r
           /\ \A d \in Callers : d # c => caller'[d] = caller[d]
BY DEF TrustInv

LEMMA GotoPlace ==
    ASSUME TrustInv, NEW c \in Callers, NEW l, Goto(c, l)
    PROVE  /\ caller'[c].pc = l
           /\ \A d \in Callers : d # c => caller'[d] = caller[d]
BY DEF TrustInv, Goto, Jobs

LEMMA DonePlace ==
    ASSUME TrustInv, NEW c \in Callers, Done(c)
    PROVE  /\ caller'[c].pc = "idle"
           /\ \A d \in Callers : d # c => caller'[d] = caller[d]
<1>1. caller'[c] = Idle /\ \A d \in Callers : d # c => caller'[d] = caller[d]
  BY UpdateAt DEF Done
<1>2. Idle.pc = "idle" BY DEF Idle
<1> QED BY <1>1, <1>2

LEMMA UsePlace ==
    ASSUME TrustInv, NEW c \in Callers, Use(c)
    PROVE  /\ caller'[c].pc = "use"
           /\ \A d \in Callers : d # c => caller'[d] = caller[d]
<1> DEFINE r == [Idle EXCEPT !.pc = "use", !.op = caller[c].op, !.key = caller[c].key]
<1>1. r.pc = "use" BY DEF Idle
<1>2. caller' = [caller EXCEPT ![c] = r] BY Zenon DEF Use
<1> HIDE DEF r
<1> QED BY <1>1, <1>2, UpdateAt

\* The fields that the updates of a job set and keep.
LEMMA JobPlaces ==
    ASSUME NEW A
    PROVE  /\ \A r \in Jobs(A) : \A T :
                [r EXCEPT !.pc = "clear", !.raw = {}, !.seen = {}, !.trusted = T].pc = "clear"
           /\ \A r \in Jobs(A) : \A L : [r EXCEPT !.pc = "prompt", !.seen = L].pc = "prompt"
           /\ \A r \in Jobs(A) : \A K : [r EXCEPT !.pc = "check", !.raw = K].pc = "check"
BY DEF Jobs

LEMMA ClearFields ==
    ASSUME NEW A
    PROVE  /\ \A r \in Jobs(A) : \A h :
                [r EXCEPT !.pc = "connect", !.old = h, !.todo = r.trusted].pc = "connect"
           /\ \A r \in Jobs(A) : \A h :
                [r EXCEPT !.pc = "connect", !.old = h, !.todo = r.trusted].old = h
           /\ \A r \in Jobs(A) : \A h :
                [r EXCEPT !.pc = "connect", !.old = h, !.todo = r.trusted].todo = r.trusted
           /\ \A r \in Jobs(A) : \A h :
                [r EXCEPT !.pc = "connect", !.old = h, !.todo = r.trusted].trusted = r.trusted
BY DEF Jobs

LEMMA FailFields ==
    ASSUME NEW A
    PROVE  /\ \A r \in Jobs(A) : \A s :
                [r EXCEPT !.todo = r.todo \ {s}, !.bad = r.bad \cup {s}].pc = r.pc
           /\ \A r \in Jobs(A) : \A s :
                [r EXCEPT !.todo = r.todo \ {s}, !.bad = r.bad \cup {s}].old = r.old
           /\ \A r \in Jobs(A) : \A s :
                [r EXCEPT !.todo = r.todo \ {s}, !.bad = r.bad \cup {s}].todo = r.todo \ {s}
           /\ \A r \in Jobs(A) : \A s :
                [r EXCEPT !.todo = r.todo \ {s}, !.bad = r.bad \cup {s}].trusted = r.trusted
           /\ \A r \in Jobs(A) : \A s :
                [r EXCEPT !.todo = r.todo \ {s}, !.bad = r.bad \cup {s}].bad = r.bad \cup {s}
BY DEF Jobs

LEMMA ConnectFields ==
    ASSUME NEW A
    PROVE  /\ \A r \in Jobs(A) : \A S :
                [r EXCEPT !.todo = S].pc = r.pc
           /\ \A r \in Jobs(A) : \A S :
                [r EXCEPT !.todo = S].old = r.old
           /\ \A r \in Jobs(A) : \A S :
                [r EXCEPT !.todo = S].todo = S
           /\ \A r \in Jobs(A) : \A S :
                [r EXCEPT !.todo = S].trusted = r.trusted
           /\ \A r \in Jobs(A) : \A S :
                [r EXCEPT !.todo = S].bad = r.bad
BY DEF Jobs

LEMMA GatedPlace ==
    ASSUME TrustInv, NEW c \in Callers, NEW B, Gated(c, B)
    PROVE  /\ caller'[c].pc = IF initLock = c THEN "clear" ELSE "lookup"
           /\ \A d \in Callers : d # c => caller'[d] = caller[d]
<1> DEFINE t == Retained(caller[c].raw, B)
           q == [caller[c] EXCEPT !.pc = "clear", !.raw = {}, !.seen = {}, !.trusted = t]
           r == [Idle EXCEPT !.pc = "lookup", !.op = "list", !.key = t]
<1>1. caller' = [caller EXCEPT ![c] = IF initLock = c THEN q ELSE r] BY Zenon DEF Gated
<1>2. caller[c] \in Jobs(Admitted) BY DEF TrustInv
<1> HIDE DEF t
<1>3. q.pc = "clear" BY ONLY <1>2, JobPlaces, Zenon
<1>4. r.pc = "lookup" BY DEF Idle
<1> HIDE DEF q, r
<1> QED BY <1>1, <1>3, <1>4, UpdateAt

\* A step that leaves lock, hash and map alone.
LEMMA Moved ==
    ASSUME ReadyInv, NEW c \in Callers,
           UNCHANGED <<tools, failed, hash, stale, initLock>>,
           \A d \in Callers : d # c => caller'[d] = caller[d],
           caller[c].pc # "connect",
           caller'[c].pc \notin {"connect", "drop"},
           initLock = c => caller'[c].pc \in Locked,
           caller'[c].pc \in Always => initLock = c
    PROVE  ReadyInv'
<1>1. \A d \in Callers : caller'[d].pc = "connect" => caller[d].pc = "connect" /\ caller'[d] = caller[d]
  OBVIOUS
<1>2. (\A d \in Callers : caller'[d].pc # "connect") => \A d \in Callers : caller[d].pc # "connect"
  OBVIOUS
<1> QED BY <1>1, <1>2 DEF ReadyInv, Progress, Populated

LEMMA ReadyMoves ==
    ASSUME TrustInv, ReadyInv, NEW c \in Callers,
           \/ Enter(c) \/ Reload(c) \/ WriteConfig(c) \/ Written(c) \/ Check(c)
           \/ Gate(c) \/ Prompt(c) \/ Lookup(c) \/ Listed(c) \/ Used(c) \/ Returned(c)
    PROVE  ReadyInv'
<1> USE DEF state, Locked, Always
<1>0. caller[c].pc \notin Locked => initLock # c BY DEF ReadyInv
<1>a. caller[c] \in Jobs(Admitted) BY DEF TrustInv
<1>1. CASE Enter(c)
  <2>1. PICK e \in {<<"call", "check">>, <<"list", "gate">>} :
          caller' = [caller EXCEPT ![c] = [Idle EXCEPT !.op = e[1], !.pc = e[2], !.raw = Raw]]
    BY <1>1 DEF Enter
  <2> DEFINE r == [Idle EXCEPT !.op = e[1], !.pc = e[2], !.raw = Raw]
  <2>2. r.pc \in {"check", "gate"} BY DEF Idle
  <2>3. caller' = [caller EXCEPT ![c] = r] BY <2>1
  <2> HIDE DEF r
  <2> QED BY <1>0, <1>1, <2>2, <2>3, UpdateAt, Moved DEF Enter
<1>2. CASE Reload(c)
  <2> DEFINE r == [Idle EXCEPT !.op = "reload", !.pc = "lock"]
  <2>1. r.pc = "lock" BY DEF Idle
  <2>2. caller' = [caller EXCEPT ![c] = r] BY <1>2 DEF Reload
  <2> HIDE DEF r
  <2> QED BY <1>0, <1>2, <2>1, <2>2, UpdateAt, Moved DEF Reload
<1>3. CASE WriteConfig(c) BY <1>0, <1>3, GotoPlace, Moved DEF WriteConfig
<1>4. CASE Written(c) BY <1>0, <1>4, DonePlace, Moved DEF Written
<1>5. CASE Check(c) BY <1>0, <1>5, GotoPlace, UsePlace, Moved DEF Check
<1>6. CASE Gate(c)
  <2>1. UNCHANGED <<tools, failed, hash, stale, initLock>> /\ caller[c].pc = "gate"
    BY <1>6 DEF Gate
  <2>2. CASE \E B : Gated(c, B) BY <2>1, <2>2, GatedPlace, Moved
  <2>3. CASE caller' = [caller EXCEPT ![c] = [@ EXCEPT !.pc = "prompt", !.seen = local]]
    <3> DEFINE r == [caller[c] EXCEPT !.pc = "prompt", !.seen = local]
    <3>1. r.pc = "prompt" BY ONLY <1>a, JobPlaces, Zenon
    <3>2. caller' = [caller EXCEPT ![c] = r] BY <2>3, Zenon
    <3> HIDE DEF r
    <3> QED BY <2>1, <3>1, <3>2, UpdateAt, Moved
  <2> QED BY <1>6, <2>2, <2>3, Zenon DEF Gate
<1>7. CASE Prompt(c)
  <2>1. UNCHANGED <<tools, failed, hash, stale, initLock>> /\ caller[c].pc = "prompt"
    BY <1>7 DEF Prompt
  <2>2. \E B : Gated(c, B) BY <1>7, Zenon DEF Prompt
  <2> QED BY <2>1, <2>2, GatedPlace, Moved
<1>8. CASE Lookup(c)
  <2>1. UNCHANGED <<tools, failed, hash, stale, initLock>> /\ caller[c].pc = "lookup"
    BY <1>8 DEF Lookup
  <2>2. CASE Done(c) BY <1>0, <2>1, <2>2, DonePlace, Moved
  <2>3. CASE caller' = [caller EXCEPT ![c] = [@ EXCEPT !.pc = "check", !.raw = Raw]]
    <3> DEFINE r == [caller[c] EXCEPT !.pc = "check", !.raw = Raw]
    <3>1. r.pc = "check" BY ONLY <1>a, JobPlaces, Zenon
    <3>2. caller' = [caller EXCEPT ![c] = r] BY <2>3, Zenon
    <3> HIDE DEF r
    <3> QED BY <1>0, <2>1, <3>1, <3>2, UpdateAt, Moved
  <2> QED BY <1>8, <2>2, <2>3, Zenon DEF Lookup
<1>9. CASE Listed(c) BY <1>0, <1>9, DonePlace, Moved DEF Listed
<1>10. CASE Used(c) BY <1>0, <1>10, DonePlace, GotoPlace, Moved DEF Used
<1>11. CASE Returned(c) BY <1>0, <1>11, DonePlace, Moved DEF Returned
<1> QED
    BY <1>1, <1>2, <1>3, <1>4, <1>5, <1>6, <1>7, <1>8, <1>9, <1>10, <1>11

LEMMA ReadyLocks ==
    ASSUME TrustInv, ReadyInv, NEW c \in Callers, Lock(c)
    PROVE  ReadyInv'
<1> USE NamesAssumption DEF state, Locked, Always
<1>1. initLock = Nobody /\ caller[c].pc = "lock" /\ UNCHANGED <<tools, failed, hash, stale>>
  BY DEF Lock
<1>2. CASE Use(c) /\ UNCHANGED initLock BY <1>1, <1>2, UsePlace, Moved
<1>3. CASE initLock' = c /\ (Goto(c, "refresh") \/ Goto(c, "gate"))
  <2>1. \A d \in Callers : caller[d].pc \notin Always BY <1>1 DEF ReadyInv
  <2>2. /\ caller'[c].pc \in {"refresh", "gate"}
        /\ \A d \in Callers : d # c => caller'[d] = caller[d]
    BY <1>3, GotoPlace
  <2>3. Populated' BY <1>1, <2>1 DEF ReadyInv, Populated
  <2> QED BY <1>3, <2>1, <2>2, <2>3 DEF ReadyInv
<1> QED BY <1>2, <1>3 DEF Lock

\* Steps of the holder of init_lock: nobody else is at a place of its own.
LEMMA ReadyUpdates ==
    ASSUME TrustInv, ReadyInv, NEW c \in Callers,
           \/ Clear(c) \/ (\E s \in Servers : Connected(c, s)) \/ Commit(c)
           \/ Refresh(c) \/ Drop(c)
    PROVE  ReadyInv'
<1> USE NamesAssumption DEF Locked, Always
<1>a. caller[c] \in Jobs(Admitted) BY DEF TrustInv
<1>b. caller[c].pc \in Always => initLock = c /\ \A d \in Callers : d # c => caller[d].pc \notin Always
  BY DEF ReadyInv
<1>1. CASE Clear(c)
  <2> DEFINE r == [caller[c] EXCEPT !.pc = "connect", !.old = hash, !.todo = caller[c].trusted]
  <2>1. r.pc = "connect" /\ r.old = hash /\ r.todo = caller[c].trusted /\ r.trusted = caller[c].trusted
    BY ONLY <1>a, ClearFields, Zenon
  <2>2. caller' = [caller EXCEPT ![c] = r] BY <1>1, Zenon DEF Clear
  <2> HIDE DEF r
  <2>3. caller'[c] = r /\ \A d \in Callers : d # c => caller'[d] = caller[d] BY <2>2, UpdateAt
  <2>4. /\ caller[c].pc = "clear" /\ tools' = {} /\ failed' = {} /\ hash' = hash
        /\ UNCHANGED <<stale, initLock>>
    BY <1>1 DEF Clear, HashAtClear
  <2>5. Progress(c)' BY <2>1, <2>3, <2>4 DEF Progress
  <2> QED BY <1>b, <2>1, <2>3, <2>4, <2>5 DEF ReadyInv
<1>2. ASSUME NEW s \in Servers, Connected(c, s) PROVE ReadyInv'
  <2>1. /\ caller[c].pc = "connect" /\ s \in caller[c].todo
        /\ UNCHANGED <<failed, hash, stale, initLock>>
    BY <1>2 DEF Connected
  <2>2. Progress(c) BY <2>1 DEF ReadyInv
  <2>3. /\ caller'[c].pc = "connect" /\ Progress(c)'
        /\ \A d \in Callers : d # c => caller'[d] = caller[d]
    <3>1. CASE /\ tools' = tools \cup {s}
               /\ caller' = [caller EXCEPT ![c] = [@ EXCEPT !.todo = caller[c].todo \ {s}]]
      <4> DEFINE r == [caller[c] EXCEPT !.todo = caller[c].todo \ {s}]
      <4>1. /\ r.pc = caller[c].pc /\ r.old = caller[c].old /\ r.todo = caller[c].todo \ {s}
            /\ r.trusted = caller[c].trusted /\ r.bad = caller[c].bad
        BY ONLY <1>a, ConnectFields, Zenon
      <4>2. caller' = [caller EXCEPT ![c] = r] BY <3>1, Zenon
      <4> HIDE DEF r
      <4>3. caller'[c] = r /\ \A d \in Callers : d # c => caller'[d] = caller[d]
        BY <4>2, UpdateAt
      <4> QED BY <2>1, <2>2, <3>1, <4>1, <4>3 DEF Progress
    <3>2. CASE /\ UNCHANGED tools
               /\ caller' = [caller EXCEPT ![c] =
                    [@ EXCEPT !.todo = caller[c].todo \ {s}, !.bad = caller[c].bad \cup {s}]]
      <4> DEFINE r == [caller[c] EXCEPT !.todo = caller[c].todo \ {s},
                                        !.bad = caller[c].bad \cup {s}]
      <4>1. /\ r.pc = caller[c].pc /\ r.old = caller[c].old /\ r.todo = caller[c].todo \ {s}
            /\ r.trusted = caller[c].trusted /\ r.bad = caller[c].bad \cup {s}
        BY ONLY <1>a, FailFields, Zenon
      <4>2. caller' = [caller EXCEPT ![c] = r] BY <3>2, Zenon
      <4> HIDE DEF r
      <4>3. caller'[c] = r /\ \A d \in Callers : d # c => caller'[d] = caller[d]
        BY <4>2, UpdateAt
      <4> QED BY <2>1, <2>2, <3>2, <4>1, <4>3 DEF Progress
    <3> QED BY <1>2, <3>1, <3>2, Zenon DEF Connected
  <2> QED BY <1>b, <2>1, <2>3 DEF ReadyInv
<1>3. CASE Commit(c)
  <2>1. /\ caller[c].pc = "connect" /\ caller[c].todo = {}
        /\ failed' = caller[c].bad /\ hash' = caller[c].trusted
        /\ initLock' = Nobody /\ UNCHANGED tools /\ Use(c)
    BY <1>3 DEF Commit
  <2>2. Progress(c) BY <2>1 DEF ReadyInv
  <2>3. Populated' BY <2>1, <2>2 DEF Populated, Progress
  <2>4. caller'[c].pc = "use" /\ \A d \in Callers : d # c => caller'[d] = caller[d]
    BY <2>1, UsePlace
  <2> QED BY <1>b, <2>1, <2>3, <2>4 DEF ReadyInv
<1>4. CASE Refresh(c)
  <2>1. /\ caller[c].pc = "refresh" /\ hash' = Nothing /\ Goto(c, "drop")
        /\ UNCHANGED <<tools, failed, initLock>>
    BY <1>4 DEF Refresh
  <2>2. caller'[c].pc = "drop" /\ \A d \in Callers : d # c => caller'[d] = caller[d]
    BY <2>1, GotoPlace
  <2>3. Populated' BY <2>1 DEF Populated
  <2> QED BY <1>b, <2>1, <2>2, <2>3 DEF ReadyInv
<1>5. CASE Drop(c)
  <2>1. /\ caller[c].pc = "drop" /\ initLock' = Nobody /\ Done(c) /\ UNCHANGED <<hash, stale>>
    BY <1>5 DEF Drop
  <2>2. caller'[c].pc = "idle" /\ \A d \in Callers : d # c => caller'[d] = caller[d]
    BY <2>1, DonePlace
  <2>3. hash = Nothing BY <2>1 DEF ReadyInv
  <2>4. Populated' BY <2>1, <2>3 DEF Populated
  <2> QED BY <1>b, <2>1, <2>2, <2>3, <2>4 DEF ReadyInv
<1> QED BY <1>1, <1>2, <1>3, <1>4, <1>5

LEMMA ReadyCancel ==
    ASSUME TrustInv, ReadyInv, NEW c \in Callers, Cancel(c)
    PROVE  ReadyInv'
<1> USE NamesAssumption DEF Locked, Always
<1>1. /\ UNCHANGED <<tools, failed, hash>>
      /\ initLock' = IF initLock = c THEN Nobody ELSE initLock
      /\ stale' = IF caller[c].pc = "connect" THEN caller[c].old ELSE stale
      /\ Done(c)
  BY DEF Cancel
<1>2. caller'[c].pc = "idle" /\ \A d \in Callers : d # c => caller'[d] = caller[d]
  BY <1>1, DonePlace
<1>3. CASE caller[c].pc = "connect"
  <2>1. hash = caller[c].old /\ initLock = c BY <1>3 DEF ReadyInv, Progress
  <2>2. Populated' BY <1>1, <1>3, <2>1 DEF Populated
  <2>3. \A d \in Callers : d # c => caller[d].pc \notin Always BY <2>1 DEF ReadyInv
  <2> QED BY <1>1, <1>2, <2>1, <2>2, <2>3 DEF ReadyInv
<1>4. CASE caller[c].pc # "connect"
  <2>1. (\A d \in Callers : caller'[d].pc # "connect") => Populated'
    <3>1. (\A d \in Callers : caller'[d].pc # "connect") => \A d \in Callers : caller[d].pc # "connect"
      BY <1>2, <1>4
    <3> QED BY <1>1, <1>4, <3>1 DEF ReadyInv, Populated
  <2>2. \A d \in Callers : caller'[d].pc = "connect" => Progress(d)'
    BY <1>1, <1>2 DEF ReadyInv, Progress
  <2>3. \A d \in Callers : initLock' = d => caller'[d].pc \in Locked
    BY <1>1, <1>2 DEF ReadyInv
  <2>4. \A d \in Callers : caller'[d].pc \in Always => initLock' = d
    BY <1>1, <1>2 DEF ReadyInv
  <2>5. \A d \in Callers : caller'[d].pc = "drop" => hash' = Nothing
    BY <1>1, <1>2 DEF ReadyInv
  <2> QED BY <2>1, <2>2, <2>3, <2>4, <2>5 DEF ReadyInv
<1> QED BY <1>3, <1>4

LEMMA ReadyInvariant == Spec => []ReadyInv
<1>1. Init => ReadyInv
  BY NamesAssumption DEF Init, ReadyInv, Idle, Populated, Always
<1>2. TrustInv /\ ReadyInv /\ [Next]_vars => ReadyInv'
  <2> SUFFICES ASSUME TrustInv, ReadyInv, [Next]_vars PROVE ReadyInv' OBVIOUS
  <2>1. CASE UNCHANGED <<state, initLock, caller>>
    BY <2>1 DEF ReadyInv, Progress, Populated, state
  <2>2. ASSUME Edit \/ \E k \in Configs : Expire(k) PROVE UNCHANGED <<state, initLock, caller>>
    BY <2>2 DEF Edit, Expire
  <2>3. CASE UNCHANGED vars BY <2>1, <2>3 DEF vars
  <2> QED
    BY <2>1, <2>2, <2>3, ReadyMoves, ReadyLocks, ReadyUpdates, ReadyCancel DEF Next, Step
<1> QED BY <1>1, <1>2, TrustInvariant, PTL DEF Spec

\* When init_lock is free, a hash that no cancelled update left behind stands for
\* a populated tool map.
THEOREM ReadyCorrect == Spec => []ReadyMeansPopulated
<1>1. ReadyInv => ReadyMeansPopulated
  <2> SUFFICES ASSUME ReadyInv, initLock = Nobody PROVE Populated
    BY DEF ReadyMeansPopulated, Populated
  <2>1. \A c \in Callers : caller[c].pc # "connect"
    BY NamesAssumption DEF ReadyInv, Always
  <2> QED BY <2>1 DEF ReadyInv
<1> QED BY <1>1, ReadyInvariant, PTL
=============================================================================
