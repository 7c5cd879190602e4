-------------------------- MODULE DaemonRepoProofs --------------------------
(***************************************************************************)
(* Theorems about the routing of conversation writes (DaemonRepo), for any *)
(* number of processes, tasks and daemons, with daemons that crash, drain, *)
(* race for the socket path and lose their queues.                         *)
(***************************************************************************)
EXTENDS DaemonRepo, TLAPS

-----------------------------------------------------------------------------
(* Types.  The lifecycle lock belongs to the one task of a process that    *)
(* looks for a daemon, and a task with a stream knows whose it is.         *)

Recovering(w) == stage[w] \in {"connect", "probe"}

LockHeld ==
    \A w \in Writers :
        /\ Recovering(w) => lifecycle[proc(w)] = w
        /\ stage[w] \in {"probe", "sent", "taken"} => conn[w] \in Daemons

TypeInv == RouteTypeOK /\ LockHeld

LEMMA ProcType == \A w \in Writers : proc(w) \in Procs /\ proc(w) \in Daemons /\ w # NoOne
BY WritersAssumption DEF proc, Daemons

LEMMA ReachableSock == RouteTypeOK /\ Reachable => sock \in Daemons
BY DEF RouteTypeOK, Reachable

Entries == [who : Writers, by : Daemons \cup {NoOne}]

LEMMA AppendEntry ==
    ASSUME RouteTypeOK, NEW e \in Entries
    PROVE  /\ Append(applied, e) \in Seq(Entries)
           /\ Len(applied) \in Nat
           /\ Len(Append(applied, e)) = Len(applied) + 1
           /\ Append(applied, e)[Len(applied) + 1] = e
           /\ \A i \in 1 .. Len(applied) : Append(applied, e)[i] = applied[i]
<1>1. applied \in Seq(Entries)
  BY DEF RouteTypeOK, Entries
<1> QED BY <1>1

LEMMA TypeInit == RouteInit => TypeInv
<1> SUFFICES ASSUME RouteInit PROVE TypeInv
  OBVIOUS
<1>1. PICK s \in {"unused", "up", "gone"} :
        /\ daemon = [d \in Daemons |-> IF d = First THEN s ELSE "unused"]
        /\ sock = IF s = "unused" THEN NoOne ELSE First
  BY DEF RouteInit
<1>2. /\ daemon \in [Daemons -> {"unused", "starting", "removing", "binding",
                                 "up", "draining", "gone"}]
      /\ sock \in Daemons \cup {NoOne}
  BY <1>1 DEF Daemons
<1>3. attempted \in [Procs -> BOOLEAN] /\ spawned \in [Procs -> BOOLEAN]
  BY Zenon DEF RouteInit
<1>4. <<>> \in Seq(Writers) /\ <<>> \in Seq([who : Writers, by : Daemons \cup {NoOne}])
  OBVIOUS
<1>5. /\ queue \in [Daemons -> Seq(Writers)]
      /\ applied \in Seq([who : Writers, by : Daemons \cup {NoOne}])
  BY <1>4 DEF RouteInit
<1>6. RouteTypeOK
  BY <1>2, <1>3, <1>5 DEF RouteInit, RouteTypeOK
<1>7. LockHeld
  BY DEF RouteInit, LockHeld, Recovering
<1> QED BY <1>6, <1>7 DEF TypeInv

LEMMA TypeWrite == ASSUME TypeInv, NEW w \in Writers, WriteStep(w) PROVE TypeInv'
<1> USE ProcType DEF TypeInv, RouteTypeOK, LockHeld, Recovering, goto
<1>1. CASE UseCached(w)
  BY <1>1 DEF UseCached, daemonVars
<1>2. CASE BeginRecovery(w)
  BY <1>2 DEF BeginRecovery, daemonVars
<1>3. CASE ProbeStream(w)
  <2>1. sock \in Daemons /\ conn' = [conn EXCEPT ![w] = sock]
    BY <1>3, ReachableSock DEF ProbeStream
  <2>2. stage' = [stage EXCEPT ![w] = "probe"] /\ stage[w] = "connect"
    BY <1>3 DEF ProbeStream
  <2>3. UNCHANGED <<daemonVars, repoVars, result, applied>>
    BY <1>3 DEF ProbeStream
  <2> QED BY <2>1, <2>2, <2>3 DEF daemonVars, repoVars
<1>4. CASE ProbeAnswered(w)
  <2>1. spawned' \in [Procs -> BOOLEAN]
    BY <1>4, Zenon DEF ProbeAnswered
  <2>2. /\ probes' \in [Procs -> Nat] /\ probes'[proc(w)] \in Nat
        /\ cached' \in [Procs -> Nat] /\ held' \in [Writers -> Nat]
    BY <1>4 DEF ProbeAnswered
  <2> QED BY <1>4, <2>1, <2>2 DEF ProbeAnswered, daemonVars, Unlock
<1>5. CASE SpawnDaemon(w)
  <2>1. spawned' \in [Procs -> BOOLEAN] /\ attempted' \in [Procs -> BOOLEAN]
    BY <1>5, Zenon DEF SpawnDaemon
  <2> QED BY <1>5, <2>1 DEF SpawnDaemon, ConnectFails
<1>6. CASE PollAgain(w)
  BY <1>6 DEF PollAgain, ConnectFails, daemonVars, repoVars
<1>7. CASE GiveUpOnDaemon(w)
  <2>1. spawned' \in [Procs -> BOOLEAN] /\ attempted' \in [Procs -> BOOLEAN]
    BY <1>7, Zenon DEF GiveUpOnDaemon
  <2>2. Recovering(w)
    BY <1>7 DEF GiveUpOnDaemon, ConnectFails
  <2> QED BY <1>7, <2>1, <2>2 DEF GiveUpOnDaemon, daemonVars, Unlock
<1>8. CASE SendStream(w)
  <2>1. sock \in Daemons /\ conn' = [conn EXCEPT ![w] = sock]
    BY <1>8, ReachableSock DEF SendStream
  <2>2. stage' = [stage EXCEPT ![w] = "sent"] /\ stage[w] = "send"
    BY <1>8 DEF SendStream
  <2>3. UNCHANGED <<daemonVars, repoVars, result, applied>>
    BY <1>8 DEF SendStream
  <2> QED BY <2>1, <2>2, <2>3 DEF daemonVars, repoVars
<1>9. CASE SendRefused(w)
  BY <1>9 DEF SendRefused, daemonVars, repoVars
<1>10. CASE EvictStale(w)
  BY <1>10 DEF EvictStale, AfterEvict, daemonVars
<1>11. CASE SendAcked(w)
  BY <1>11 DEF SendAcked, Settle, daemonVars, repoVars
<1>12. CASE SendUncertain(w)
  BY <1>12 DEF SendUncertain, AfterUncertainSend, Settle, daemonVars, repoVars
<1>13. CASE DirectWrite(w)
  <2>1. applied' \in Seq([who : Writers, by : Daemons \cup {NoOne}])
    <3>1. [who |-> w, by |-> NoOne] \in Entries
      BY DEF Entries
    <3>2. applied' \in {applied, Append(applied, [who |-> w, by |-> NoOne])}
      BY <1>13 DEF DirectWrite
    <3>3. Append(applied, [who |-> w, by |-> NoOne]) \in Seq(Entries)
      BY <3>1, AppendEntry
    <3>4. applied \in Seq(Entries)
      BY DEF Entries
    <3> HIDE DEF TypeInv
    <3>5. applied' \in Seq(Entries)
      BY <3>2, <3>3, <3>4
    <3> QED BY <3>5 DEF Entries
  <2>2. PICK r \in {"ok", "failed"} : Settle(w, r)
    BY <1>13 DEF DirectWrite
  <2>3. UNCHANGED <<daemonVars, repoVars, conn>> /\ stage[w] = "fallback"
    BY <1>13 DEF DirectWrite
  <2>4. /\ stage' = [stage EXCEPT ![w] = "done"]
        /\ result' \in [Writers -> {"none", "ok", "failed", "indeterminate"}]
    BY <2>2 DEF Settle
  <2> QED BY <2>1, <2>3, <2>4 DEF daemonVars, repoVars
<1> QED
  BY <1>1, <1>2, <1>3, <1>4, <1>5, <1>6, <1>7, <1>8, <1>9, <1>10, <1>11, <1>12, <1>13
  DEF WriteStep

LEMMA TypeDaemon ==
    ASSUME TypeInv, NEW d \in Daemons, DaemonStep(d) \/ StopDaemon(d) \/ CrashDaemon(d)
    PROVE  TypeInv'
<1> USE DEF TypeInv, RouteTypeOK, LockHeld, Recovering
<1>1. CASE CheckSocket(d)
  BY <1>1 DEF CheckSocket, repoVars
<1>2. CASE RemoveSocket(d)
  BY <1>2 DEF RemoveSocket, repoVars
<1>3. CASE BindSocket(d)
  BY <1>3 DEF BindSocket, repoVars
<1>4. CASE ExecuteRequest(d)
  <2>1. Head(queue[d]) \in Writers /\ Tail(queue[d]) \in Seq(Writers)
    BY <1>4 DEF ExecuteRequest
  <2>2. PICK a \in {"ack", "error"} :
          /\ answer' = [answer EXCEPT ![Head(queue[d])] = a]
          /\ applied' = IF a = "ack"
                        THEN Append(applied, [who |-> Head(queue[d]), by |-> d])
                        ELSE applied
    BY <1>4 DEF ExecuteRequest
  <2>3. applied' \in Seq([who : Writers, by : Daemons \cup {NoOne}])
    <3>1. [who |-> Head(queue[d]), by |-> d] \in Entries
      BY <2>1 DEF Entries
    <3> QED BY <2>2, <3>1, AppendEntry DEF Entries
  <2> QED BY <1>4, <2>1, <2>2, <2>3 DEF ExecuteRequest, repoVars
<1>5. CASE ExitDaemon(d)
  BY <1>5 DEF ExitDaemon, repoVars
<1>6. CASE StopDaemon(d)
  BY <1>6 DEF StopDaemon, repoVars
<1>7. CASE CrashDaemon(d)
  <2>1. <<>> \in Seq(Writers)
    OBVIOUS
  <2> QED BY <1>7, <2>1 DEF CrashDaemon, repoVars
<1> QED
  BY <1>1, <1>2, <1>3, <1>4, <1>5, <1>6, <1>7 DEF DaemonStep

LEMMA TypeStep == TypeInv /\ [RouteNext]_routeVars => TypeInv'
<1> SUFFICES ASSUME TypeInv, [RouteNext]_routeVars PROVE TypeInv'
  OBVIOUS
<1>1. ASSUME NEW w \in Writers, TakeRequest(w) PROVE TypeInv'
  <2>1. conn[w] \in Daemons /\ queue[conn[w]] \in Seq(Writers)
    BY <1>1 DEF TakeRequest, TypeInv, RouteTypeOK, LockHeld
  <2>2. queue' \in [Daemons -> Seq(Writers)]
    BY <1>1, <2>1 DEF TakeRequest, TypeInv, RouteTypeOK
  <2> QED BY <1>1, <2>1, <2>2 DEF TakeRequest, goto, repoVars, TypeInv, RouteTypeOK, LockHeld, Recovering
<1>2. CASE UNCHANGED routeVars
  BY <1>2 DEF routeVars, daemonVars, repoVars, TypeInv, RouteTypeOK, LockHeld, Recovering
<1> QED BY <1>1, <1>2, TypeWrite, TypeDaemon DEF RouteNext

LEMMA TypeInvariant == RouteSpec => []TypeInv
BY TypeInit, TypeStep, PTL DEF RouteSpec

\* Every state of the repositories and the daemons is well typed, and the
\* lifecycle lock of a process is held only by one of its own tasks that is
\* looking for a daemon.
THEOREM TypeCorrect == RouteSpec => []RouteTypeOK
BY TypeInvariant, PTL DEF TypeInv
-----------------------------------------------------------------------------
(* Delivery.  A write that has not been handed over is neither queued nor  *)
(* applied; one that has been handed over is in at most one queue, once,   *)
(* and leaves it when it is applied; it never returns to the direct path.  *)

Queued(w)    == \E d \in Daemons : \E i \in 1 .. Len(queue[d]) : queue[d][i] = w
IsApplied(w) == \E i \in 1 .. Len(applied) : applied[i].who = w
HandedOver(w) == stage[w] \in {"taken", "done"}

QueuedOnce ==
    \A d, e \in Daemons : \A i \in 1 .. Len(queue[d]), j \in 1 .. Len(queue[e]) :
        queue[d][i] = queue[e][j] => d = e /\ i = j

Delivery ==
    \A w \in Writers :
        /\ Queued(w) => HandedOver(w) /\ ~IsApplied(w)
        /\ IsApplied(w) => HandedOver(w)
        /\ answer[w] = "ack" => IsApplied(w)

DeliveryInv == TypeInv /\ QueuedOnce /\ Delivery /\ OneDelivery /\ OkMeansApplied

\* What happens to the deliveries when one entry is added for a write that
\* was neither applied nor is queued any more.
LEMMA Deliver ==
    ASSUME RouteTypeOK, OneDelivery, NEW e \in Entries, ~IsApplied(e.who),
           applied' = Append(applied, e)
    PROVE  /\ OneDelivery'
           /\ \A w \in Writers : IsApplied(w)' <=> IsApplied(w) \/ w = e.who
<1> DEFINE m == Len(applied)
<1>1. /\ m \in Nat /\ Len(applied') = m + 1
      /\ applied'[m + 1] = e
      /\ \A i \in 1 .. m : applied'[i] = applied[i]
  BY AppendEntry
<1>2. OneDelivery'
  <2> SUFFICES ASSUME NEW i \in 1 .. m + 1, NEW j \in 1 .. m + 1,
                      applied'[i].who = applied'[j].who
               PROVE  i = j
    BY <1>1 DEF OneDelivery
  <2>1. CASE i \in 1 .. m /\ j \in 1 .. m
    BY <1>1, <2>1 DEF OneDelivery
  <2>2. CASE i = m + 1 /\ j \in 1 .. m
    BY <1>1, <2>2 DEF IsApplied
  <2>3. CASE j = m + 1 /\ i \in 1 .. m
    BY <1>1, <2>3 DEF IsApplied
  <2> QED BY <1>1, <2>1, <2>2, <2>3
<1>3. ASSUME NEW w \in Writers PROVE IsApplied(w)' <=> IsApplied(w) \/ w = e.who
  <2> HIDE DEF m
  <2>1. ASSUME NEW i \in 1 .. m, applied[i].who = w PROVE IsApplied(w)'
    BY <1>1, <2>1 DEF IsApplied
  <2>2. ASSUME w = e.who PROVE IsApplied(w)'
    <3>1. m + 1 \in 1 .. Len(applied')
      BY <1>1
    <3> QED BY <1>1, <2>2, <3>1 DEF IsApplied
  <2>3. ASSUME NEW i \in 1 .. m + 1, applied'[i].who = w PROVE IsApplied(w) \/ w = e.who
    <3>1. CASE i \in 1 .. m
      BY <1>1, <2>3, <3>1 DEF IsApplied, m
    <3>2. CASE i = m + 1
      BY <1>1, <2>3, <3>2
    <3> QED BY <1>1, <3>1, <3>2
  <2> QED BY <1>1, <2>1, <2>2, <2>3 DEF IsApplied, m
<1> QED BY <1>2, <1>3

\* A step that leaves queues, answers and the database alone, and takes no
\* write back from where it was handed over to.
LEMMA DeliveryFrame ==
    ASSUME DeliveryInv, TypeInv', UNCHANGED <<queue, answer, applied>>,
           \A w \in Writers : HandedOver(w) => HandedOver(w)',
           \A w \in Writers : result'[w] = "ok" => result[w] = "ok" \/ IsApplied(w)
    PROVE  DeliveryInv'
BY DEF DeliveryInv, QueuedOnce, Delivery, OneDelivery, OkMeansApplied, Queued, IsApplied

LEMMA DeliveryStep == DeliveryInv /\ [RouteNext]_routeVars => DeliveryInv'
<1> SUFFICES ASSUME DeliveryInv, [RouteNext]_routeVars PROVE DeliveryInv'
  OBVIOUS
<1>1. TypeInv /\ RouteTypeOK /\ TypeInv'
  BY TypeStep DEF DeliveryInv, TypeInv
<1>2. ASSUME NEW w \in Writers,
             \/ UseCached(w) \/ BeginRecovery(w) \/ ProbeStream(w) \/ ProbeAnswered(w)
             \/ SpawnDaemon(w) \/ PollAgain(w) \/ GiveUpOnDaemon(w)
             \/ SendStream(w) \/ SendRefused(w) \/ EvictStale(w)
      PROVE  DeliveryInv'
  <2>1. UNCHANGED <<queue, answer, applied, result>> /\ stage[w] \notin {"taken", "done"}
    BY <1>2 DEF UseCached, BeginRecovery, ProbeStream, ProbeAnswered, SpawnDaemon, PollAgain,
                GiveUpOnDaemon, ConnectFails, SendStream, SendRefused, EvictStale, daemonVars
  <2>2. \A v \in Writers : v # w => stage'[v] = stage[v]
    BY <1>1, <1>2 DEF UseCached, BeginRecovery, ProbeStream, ProbeAnswered, SpawnDaemon, PollAgain,
                GiveUpOnDaemon, SendStream, SendRefused, EvictStale, goto, RouteTypeOK
  <2> QED BY <1>1, <2>1, <2>2, DeliveryFrame DEF HandedOver
<1>3. ASSUME NEW w \in Writers, SendAcked(w) PROVE DeliveryInv'
  <2>1. IsApplied(w)
    BY <1>3 DEF SendAcked, Confirms, DeliveryInv, Delivery
  <2>2. UNCHANGED <<queue, answer, applied>>
    BY <1>3 DEF SendAcked, daemonVars
  <2>3. \A v \in Writers : HandedOver(v) => HandedOver(v)'
    BY <1>1, <1>3 DEF SendAcked, Settle, goto, HandedOver, RouteTypeOK
  <2>4. \A v \in Writers : v # w => result'[v] = result[v]
    BY <1>1, <1>3 DEF SendAcked, Settle, RouteTypeOK
  <2> QED BY <1>1, <2>1, <2>2, <2>3, <2>4, DeliveryFrame
<1>4. ASSUME NEW w \in Writers, SendUncertain(w) PROVE DeliveryInv'
  <2>1. UNCHANGED <<queue, answer, applied>>
    BY <1>4 DEF SendUncertain, daemonVars
  <2>2. \A v \in Writers : HandedOver(v) => HandedOver(v)'
    BY <1>1, <1>4 DEF SendUncertain, AfterUncertainSend, Settle, goto, HandedOver, RouteTypeOK
  <2>3. \A v \in Writers : result'[v] = "ok" => result[v] = "ok"
    BY <1>1, <1>4 DEF SendUncertain, AfterUncertainSend, Settle, RouteTypeOK
  <2> QED BY <1>1, <2>1, <2>2, <2>3, DeliveryFrame
<1>5. ASSUME NEW w \in Writers, DirectWrite(w) PROVE DeliveryInv'
  <2>1. /\ UNCHANGED <<queue, answer>> /\ stage' = [stage EXCEPT ![w] = "done"]
        /\ stage[w] = "fallback"
    BY <1>5 DEF DirectWrite, Settle, goto, daemonVars
  <2>2. \A v \in Writers : HandedOver(v)' <=> HandedOver(v) \/ v = w
    BY <1>1, <2>1 DEF HandedOver, RouteTypeOK
  <2>3. CASE UNCHANGED applied /\ result' = [result EXCEPT ![w] = "failed"]
    BY <1>1, <2>1, <2>2, <2>3, DeliveryFrame DEF RouteTypeOK
  <2>4. CASE /\ applied' = Append(applied, [who |-> w, by |-> NoOne])
             /\ result' = [result EXCEPT ![w] = "ok"]
    <3>1. ~IsApplied(w) /\ ~Queued(w)
      BY <2>1 DEF DeliveryInv, Delivery, HandedOver
    <3>2. [who |-> w, by |-> NoOne] \in Entries
      BY DEF Entries
    <3>3. /\ OneDelivery'
          /\ \A v \in Writers : IsApplied(v)' <=> IsApplied(v) \/ v = w
      BY <1>1, <2>4, <3>1, <3>2, Deliver DEF DeliveryInv
    <3>4. \A v \in Writers : Queued(v)' <=> Queued(v)
      BY <2>1 DEF Queued
    <3>5. Delivery'
      BY <2>1, <2>2, <3>1, <3>3, <3>4 DEF DeliveryInv, Delivery
    <3>6. OkMeansApplied'
      <4>1. \A v \in Writers : result'[v] = "ok" => result[v] = "ok" \/ v = w
        BY <1>1, <2>4 DEF RouteTypeOK
      <4>2. \A v \in Writers : result'[v] = "ok" => IsApplied(v)'
        BY <3>3, <4>1 DEF DeliveryInv, OkMeansApplied, IsApplied
      <4> QED BY <4>2 DEF OkMeansApplied, IsApplied
    <3>7. QueuedOnce'
      BY <2>1 DEF DeliveryInv, QueuedOnce
    <3> QED BY <1>1, <3>3, <3>5, <3>6, <3>7 DEF DeliveryInv
  <2> QED BY <1>5, <2>3, <2>4 DEF DirectWrite, Settle
<1>6. ASSUME NEW w \in Writers, TakeRequest(w) PROVE DeliveryInv'
  <2> DEFINE d == conn[w]
             q == queue[d]
  <2>1. /\ d \in Daemons /\ q \in Seq(Writers)
        /\ queue' = [queue EXCEPT ![d] = Append(q, w)]
        /\ stage[w] = "sent" /\ stage' = [stage EXCEPT ![w] = "taken"]
        /\ UNCHANGED <<answer, result, applied>>
    BY <1>1, <1>6 DEF TakeRequest, goto, TypeInv, RouteTypeOK, LockHeld
  <2>2. ~IsApplied(w) /\ ~Queued(w)
    BY <2>1 DEF DeliveryInv, Delivery, HandedOver
  <2>3. /\ queue'[d] = Append(q, w)
        /\ \A e \in Daemons : e # d => queue'[e] = queue[e]
    BY <1>1, <2>1 DEF RouteTypeOK
  <2>4. /\ Len(queue'[d]) = Len(q) + 1 /\ Len(q) \in Nat /\ queue'[d][Len(q) + 1] = w
        /\ \A i \in 1 .. Len(q) : queue'[d][i] = q[i]
    BY <2>1, <2>3
  <2> HIDE DEF d
  <2>5. \A v \in Writers : HandedOver(v)' <=> HandedOver(v) \/ v = w
    BY <1>1, <2>1 DEF HandedOver, RouteTypeOK
  <2>6. ASSUME NEW v \in Writers, Queued(v)' PROVE Queued(v) \/ v = w
    <3>1. PICK e \in Daemons : \E i \in 1 .. Len(queue'[e]) : queue'[e][i] = v
      BY <2>6 DEF Queued
    <3> QED BY <2>1, <2>3, <2>4, <3>1 DEF Queued
  <2>7. QueuedOnce'
    <3> SUFFICES ASSUME NEW e \in Daemons, NEW f \in Daemons,
                        NEW i \in 1 .. Len(queue'[e]), NEW j \in 1 .. Len(queue'[f]),
                        queue'[e][i] = queue'[f][j]
                 PROVE  e = f /\ i = j
      BY DEF QueuedOnce
    <3>1. CASE queue'[e][i] = w
      <4>1. \A g \in Daemons : \A k \in 1 .. Len(queue'[g]) :
              queue'[g][k] = w => g = d /\ k = Len(q) + 1
        BY <2>1, <2>2, <2>3, <2>4 DEF Queued
      <4>2. e = d /\ i = Len(q) + 1
        BY <3>1, <4>1
      <4>3. queue'[f][j] = w
        BY <3>1
      <4>4. f = d /\ j = Len(q) + 1
        BY <4>1, <4>3
      <4> QED BY <4>2, <4>4
    <3>2. CASE queue'[e][i] # w
      <4>1. \A g \in Daemons : \A k \in 1 .. Len(queue'[g]) :
              queue'[g][k] # w => k \in 1 .. Len(queue[g]) /\ queue'[g][k] = queue[g][k]
        BY <2>1, <2>3, <2>4
      <4> QED BY <3>2, <4>1 DEF DeliveryInv, QueuedOnce
    <3> QED BY <3>1, <3>2
  <2>8. \A v \in Writers : IsApplied(v)' <=> IsApplied(v)
    BY <2>1 DEF IsApplied
  <2>9. Delivery'
    BY <2>1, <2>2, <2>5, <2>6, <2>8 DEF DeliveryInv, Delivery
  <2>10. OneDelivery' /\ OkMeansApplied'
    BY <2>1 DEF DeliveryInv, OneDelivery, OkMeansApplied
  <2> QED BY <1>1, <2>7, <2>9, <2>10 DEF DeliveryInv
<1>7. ASSUME NEW d \in Daemons, ExecuteRequest(d) \/ CrashDaemon(d) PROVE DeliveryInv'
  <2> DEFINE q == queue[d]
             w == Head(q)
  <2>1. /\ UNCHANGED <<stage, result>>
        /\ \A e \in Daemons : e # d => queue'[e] = queue[e]
        /\ q \in Seq(Writers)
    BY <1>1, <1>7 DEF ExecuteRequest, CrashDaemon, RouteTypeOK
  <2>2. \A v \in Writers : HandedOver(v)' <=> HandedOver(v)
    BY <2>1 DEF HandedOver
  <2>3. CASE CrashDaemon(d)
    <3>1. queue'[d] = <<>> /\ UNCHANGED <<answer, applied>>
      BY <1>1, <2>3 DEF CrashDaemon, RouteTypeOK
    <3>2. \A v \in Writers : Queued(v)' => Queued(v)
      BY <2>1, <3>1 DEF Queued
    <3>3. QueuedOnce'
      BY <2>1, <3>1 DEF DeliveryInv, QueuedOnce
    <3>4. \A v \in Writers : IsApplied(v)' <=> IsApplied(v)
      BY <3>1 DEF IsApplied
    <3>5. Delivery'
      BY <2>2, <3>1, <3>2, <3>4 DEF DeliveryInv, Delivery
    <3>6. OneDelivery' /\ OkMeansApplied'
      BY <2>1, <3>1 DEF DeliveryInv, OneDelivery, OkMeansApplied
    <3> QED BY <1>1, <3>3, <3>5, <3>6 DEF DeliveryInv
  <2>4. CASE ExecuteRequest(d)
    <3>1. /\ q # <<>> /\ w \in Writers /\ queue'[d] = Tail(q)
          /\ Len(q) \in Nat /\ Len(q) > 0 /\ w = q[1]
          /\ Len(Tail(q)) = Len(q) - 1
          /\ \A i \in 1 .. Len(q) - 1 : Tail(q)[i] = q[i + 1]
      BY <1>1, <2>1, <2>4 DEF ExecuteRequest, RouteTypeOK
    <3>2. Queued(w)
      BY <3>1 DEF Queued
    <3>3. ~IsApplied(w) /\ HandedOver(w)
      BY <3>1, <3>2 DEF DeliveryInv, Delivery
    <3> HIDE DEF w
    <3>4. \A e \in Daemons : \A i \in 1 .. Len(queue'[e]) :
            \/ e # d /\ i \in 1 .. Len(queue[e]) /\ queue'[e][i] = queue[e][i]
            \/ e = d /\ i + 1 \in 2 .. Len(q) /\ queue'[e][i] = q[i + 1]
      <4> SUFFICES ASSUME NEW e \in Daemons, NEW i \in 1 .. Len(queue'[e])
                   PROVE  \/ e # d /\ i \in 1 .. Len(queue[e]) /\ queue'[e][i] = queue[e][i]
                          \/ e = d /\ i + 1 \in 2 .. Len(q) /\ queue'[e][i] = q[i + 1]
        OBVIOUS
      <4> HIDE DEF q
      <4>1. CASE e # d
        BY <2>1, <4>1
      <4>2. CASE e = d
        BY <3>1, <4>2
      <4> QED BY <4>1, <4>2
    <3>5. QueuedOnce'
      <4> SUFFICES ASSUME NEW e \in Daemons, NEW f \in Daemons,
                          NEW i \in 1 .. Len(queue'[e]), NEW j \in 1 .. Len(queue'[f]),
                          queue'[e][i] = queue'[f][j]
                   PROVE  e = f /\ i = j
        BY DEF QueuedOnce
      <4> QED BY <3>1, <3>4 DEF DeliveryInv, QueuedOnce
    <3>6. ASSUME NEW v \in Writers, Queued(v)' PROVE Queued(v) /\ v # w
      <4>0. PICK e \in Daemons : \E i \in 1 .. Len(queue'[e]) : queue'[e][i] = v
        BY <3>6 DEF Queued
      <4>1. PICK i \in 1 .. Len(queue'[e]) : queue'[e][i] = v
        BY <4>0
      <4>2. 1 \in 1 .. Len(q)
        BY <3>1
      <4>3. CASE e # d
        BY <3>1, <3>4, <4>1, <4>2, <4>3 DEF DeliveryInv, QueuedOnce, Queued
      <4>4. CASE e = d
        <5>1. i + 1 \in 2 .. Len(q) /\ q[i + 1] = v /\ i + 1 \in 1 .. Len(q)
          BY <3>1, <3>4, <4>1, <4>4
        <5>2. v # w
          BY <3>1, <4>2, <5>1 DEF DeliveryInv, QueuedOnce
        <5> QED BY <5>1, <5>2 DEF Queued
      <4> QED BY <4>3, <4>4
    <3>7. PICK a \in {"ack", "error"} :
            /\ answer' = [answer EXCEPT ![w] = a]
            /\ applied' = IF a = "ack" THEN Append(applied, [who |-> w, by |-> d])
                                       ELSE applied
      BY <2>4 DEF ExecuteRequest, w
    <3>8. \A v \in Writers : answer'[v] = "ack" => (v = w /\ a = "ack") \/ answer[v] = "ack"
      BY <1>1, <3>1, <3>7 DEF RouteTypeOK
    <3>9. CASE a = "ack"
      <4>1. [who |-> w, by |-> d] \in Entries
        BY <3>1 DEF Entries
      <4>2. /\ OneDelivery'
            /\ \A v \in Writers : IsApplied(v)' <=> IsApplied(v) \/ v = w
        BY <1>1, <3>3, <3>7, <3>9, <4>1, Deliver DEF DeliveryInv
      <4>3. Delivery'
        BY <2>2, <3>3, <3>6, <3>8, <4>2 DEF DeliveryInv, Delivery
      <4>4. OkMeansApplied'
        BY <2>1, <4>2 DEF DeliveryInv, OkMeansApplied, IsApplied
      <4> QED BY <1>1, <3>5, <4>2, <4>3, <4>4 DEF DeliveryInv
    <3>10. CASE a = "error"
      <4>1. applied' = applied
        BY <3>7, <3>10
      <4>2. \A v \in Writers : IsApplied(v)' <=> IsApplied(v)
        BY <4>1 DEF IsApplied
      <4>3. Delivery'
        BY <2>2, <3>6, <3>8, <3>10, <4>2 DEF DeliveryInv, Delivery
      <4>4. OneDelivery' /\ OkMeansApplied'
        BY <2>1, <4>1 DEF DeliveryInv, OneDelivery, OkMeansApplied
      <4> QED BY <1>1, <3>5, <4>3, <4>4 DEF DeliveryInv
    <3> QED BY <3>9, <3>10
  <2> QED BY <1>7, <2>3, <2>4
<1>8. ASSUME NEW d \in Daemons,
             CheckSocket(d) \/ RemoveSocket(d) \/ BindSocket(d) \/ StopDaemon(d) \/ ExitDaemon(d)
      PROVE  DeliveryInv'
  <2>1. UNCHANGED <<queue, answer, stage, result, applied>>
    BY <1>8 DEF CheckSocket, RemoveSocket, BindSocket, StopDaemon, ExitDaemon
  <2> QED BY <1>1, <2>1, DeliveryFrame DEF HandedOver
<1>9. CASE UNCHANGED routeVars
  <2>1. UNCHANGED <<queue, answer, stage, result, applied>>
    BY <1>9 DEF routeVars, daemonVars
  <2> QED BY <1>1, <2>1, DeliveryFrame DEF HandedOver
<1> QED
  BY <1>2, <1>3, <1>4, <1>5, <1>6, <1>7, <1>8, <1>9 DEF RouteNext, WriteStep, DaemonStep

LEMMA DeliveryInvariant == RouteSpec => []DeliveryInv
<1>1. RouteInit => DeliveryInv
  <2> SUFFICES ASSUME RouteInit PROVE DeliveryInv
    OBVIOUS
  <2>1. \A w \in Writers : ~Queued(w) /\ ~IsApplied(w)
    BY DEF RouteInit, Queued, IsApplied
  <2>2. Delivery /\ QueuedOnce
    BY <2>1 DEF RouteInit, Delivery, QueuedOnce
  <2>3. OneDelivery /\ OkMeansApplied
    BY DEF RouteInit, OneDelivery, OkMeansApplied
  <2> QED BY <2>2, <2>3, TypeInit DEF DeliveryInv
<1> QED BY <1>1, DeliveryStep, PTL DEF RouteSpec

\* write_or_fallback never lets a write reach the database twice: not by two
\* daemons, not by a daemon and the direct pool, whatever crashed or timed out.
THEOREM DeliveryCorrect == RouteSpec => []OneDelivery
BY DeliveryInvariant, PTL DEF DeliveryInv

\* A caller of the repository that got Ok has its write in the database.
THEOREM OkCorrect == RouteSpec => []OkMeansApplied
BY DeliveryInvariant, PTL DEF DeliveryInv
-----------------------------------------------------------------------------
(* The lifecycle lock and the cache, as properties of steps.               *)

\* A write takes the direct path only at a moment when no other task of its
\* process is recovering a daemon: it gave up while it held the lifecycle
\* lock, or it found the lock free when it evicted its client.
THEOREM FallbackCorrect == RouteSpec => FallbackWaitsForRecovery
<1>1. ASSUME TypeInv, [RouteNext]_routeVars, NEW w \in Writers, NEW v \in Writers,
             stage[w] # "fallback", stage'[w] = "fallback", proc(v) = proc(w), v # w
      PROVE  stage[v] \notin {"connect", "probe"}
  <2>1. RouteTypeOK /\ LockHeld
    BY <1>1 DEF TypeInv
  <2>2. stage'[w] # stage[w] /\ ~UNCHANGED routeVars
    BY <1>1 DEF routeVars
  <2>3. \A d \in Daemons : ~(DaemonStep(d) \/ StopDaemon(d) \/ CrashDaemon(d))
    BY <2>2 DEF DaemonStep, CheckSocket, RemoveSocket, BindSocket, ExecuteRequest, ExitDaemon,
                StopDaemon, CrashDaemon
  <2>4. PICK u \in Writers : WriteStep(u) \/ TakeRequest(u)
    BY <1>1, <2>2, <2>3 DEF RouteNext
  <2>5. u = w
    <3>1. \E l : stage' = [stage EXCEPT ![u] = l]
      BY <2>4 DEF WriteStep, goto, UseCached, BeginRecovery, ProbeStream, ProbeAnswered,
         SpawnDaemon, PollAgain, GiveUpOnDaemon, SendStream, SendRefused, EvictStale,
         SendAcked, SendUncertain, AfterUncertainSend, DirectWrite, Settle, TakeRequest
    <3> QED BY <2>1, <2>2, <3>1 DEF RouteTypeOK
  <2>6. GiveUpOnDaemon(w) \/ EvictStale(w)
    BY <1>1, <2>1, <2>4, <2>5 DEF WriteStep, goto, UseCached, BeginRecovery, ProbeStream,
       ProbeAnswered, SpawnDaemon, PollAgain, SendStream, SendRefused, SendAcked,
       SendUncertain, AfterUncertainSend, DirectWrite, Settle, TakeRequest, RouteTypeOK
  <2>7. lifecycle[proc(w)] \in {w, NoOne}
    BY <2>1, <2>6 DEF GiveUpOnDaemon, ConnectFails, EvictStale, EvictAllowed, LockHeld, Recovering
  <2> QED BY <1>1, <2>1, <2>7, ProcType DEF LockHeld, Recovering
<1>2. TypeInv /\ [RouteNext]_routeVars =>
        [\A w, v \in Writers :
           /\ stage[w] # "fallback" /\ stage'[w] = "fallback"
           /\ proc(v) = proc(w) /\ v # w
           => stage[v] \notin {"connect", "probe"}]_routeVars
  BY <1>1
<1> QED BY <1>2, TypeInvariant, PTL DEF RouteSpec, FallbackWaitsForRecovery

\* The cache of a process is only emptied by a write that was refused on the
\* very client it empties the cache of.
THEOREM EvictionCorrect == RouteSpec => EvictsOwnProbe
<1>1. ASSUME TypeInv, [RouteNext]_routeVars, NEW p \in Procs, cached[p] # 0, cached'[p] = 0
      PROVE  \E w \in Writers : proc(w) = p /\ stage[w] = "evict" /\ held[w] = cached[p]
  <2>1. RouteTypeOK
    BY <1>1 DEF TypeInv
  <2>2. ASSUME NEW w \in Writers, ProbeAnswered(w) PROVE FALSE
    <3>1. probes'[proc(w)] = probes[proc(w)] + 1 /\ probes[proc(w)] \in Nat
      BY <2>1, <2>2, ProcType DEF ProbeAnswered, RouteTypeOK
    <3>2. cached' = [cached EXCEPT ![proc(w)] = probes'[proc(w)]]
      BY <2>2 DEF ProbeAnswered
    <3> QED BY <1>1, <2>1, <3>1, <3>2 DEF RouteTypeOK
  <2>3. cached' # cached
    BY <1>1
  <2>4. PICK w \in Writers : EvictStale(w)
    BY <1>1, <2>2, <2>3 DEF RouteNext, routeVars, repoVars, WriteStep, UseCached, BeginRecovery, ProbeStream,
         SpawnDaemon, PollAgain, GiveUpOnDaemon, SendStream, SendRefused, SendAcked,
         SendUncertain, DirectWrite, TakeRequest, DaemonStep, CheckSocket, RemoveSocket,
         BindSocket, ExecuteRequest, ExitDaemon, StopDaemon, CrashDaemon
  <2> QED BY <1>1, <2>1, <2>4 DEF EvictStale, AfterEvict, RouteTypeOK
<1>2. TypeInv /\ [RouteNext]_routeVars =>
        [\A p \in Procs : cached[p] # 0 /\ cached'[p] = 0 =>
           \E w \in Writers : proc(w) = p /\ stage[w] = "evict" /\ held[w] = cached[p]]_routeVars
  BY <1>1
<1> QED BY <1>2, TypeInvariant, PTL DEF RouteSpec, EvictsOwnProbe
=============================================================================
