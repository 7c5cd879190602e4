-------------------------- MODULE McpClientProofs ---------------------------
(***************************************************************************)
(* Theorems about McpClient, for any number of tasks and permits and any   *)
(* failure threshold.                                                      *)
(***************************************************************************)
EXTENDS McpClient, TLAPS

-----------------------------------------------------------------------------
(* The breaker.                                                            *)

BreakerTypes ==
    /\ breaker \in {"closed", "open", "halfOpen"}
    /\ failures \in Nat

BreakerInv == BreakerTypes /\ BreakerSound

\* What the end of a call does to the breaker.
LEMMA ReportStep ==
    ASSUME BreakerInv, OnSuccess \/ OnFailure
    PROVE  BreakerInv' /\ breaker' # "halfOpen"
<1> USE ClientAssumption DEF BreakerInv, BreakerTypes, BreakerSound
<1>1. CASE OnSuccess BY <1>1 DEF OnSuccess
<1>2. CASE OnFailure
  <2>1. CASE breaker = "closed" BY <1>2, <2>1 DEF OnFailure, Opens
  <2>2. CASE breaker = "halfOpen" BY <1>2, <2>2 DEF OnFailure, Opens
  <2>3. CASE breaker = "open" BY <1>2, <2>3 DEF OnFailure, Opens
  <2> QED BY <2>1, <2>2, <2>3
<1> QED BY <1>1, <1>2

LEMMA BeginStep ==
    ASSUME BreakerInv, NEW t \in Tasks, Begin(t)
    PROVE  BreakerInv'
BY ClientAssumption DEF BreakerInv, BreakerTypes, BreakerSound, Begin, AllowCall

\* Between half-open and the report of the call that was let through, nothing
\* changes the breaker but the report of another call, and that never leaves it
\* half-open.
LEMMA BreakerStep ==
    ASSUME BreakerInv, [CNext]_cvars
    PROVE  BreakerInv'
<1>1. CASE UNCHANGED <<breaker, failures, probe>>
  BY <1>1 DEF BreakerInv, BreakerTypes, BreakerSound
<1>2. ASSUME NEW t \in Tasks,
             \/ Begin(t) \/ HandshakeFails(t) \/ Answered(t) \/ Refused(t) \/ TransportFails(t)
      PROVE  BreakerInv'
  <2>1. CASE Begin(t) BY <2>1, BeginStep
  <2>2. CASE OnSuccess \/ OnFailure BY <2>2, ReportStep
  <2>3. CASE UNCHANGED <<breaker, failures, probe>> BY <1>1, <2>3
  <2> QED BY <1>2, <2>1, <2>2, <2>3 DEF HandshakeFails, Answered, Refused, TransportFails
<1>3. ASSUME NEW t \in Tasks,
             Connect(t) \/ LockConnect(t) \/ Handshake(t) \/ Retry(t) \/ CancelCall(t)
      PROVE  UNCHANGED <<breaker, failures, probe>>
  BY <1>3 DEF Connect, LockConnect, Handshake, Retry, CancelCall
<1>4. CASE ResetElapses BY <1>1, <1>4 DEF ResetElapses
<1>5. CASE UNCHANGED cvars BY <1>1, <1>5 DEF cvars
<1> QED BY <1>1, <1>2, <1>3, <1>4, <1>5 DEF CNext

\* The breaker is closed exactly below the threshold, although calls of earlier
\* phases report late, and half-open only for a call that has not reported.
THEOREM BreakerCorrect == CSpec => []BreakerSound
<1>1. CInit => BreakerInv
  BY ClientAssumption DEF CInit, BreakerInv, BreakerTypes, BreakerSound
<1>2. BreakerInv /\ [CNext]_cvars => BreakerInv' BY BreakerStep
<1>3. BreakerInv => BreakerSound BY DEF BreakerInv
<1> QED BY <1>1, <1>2, <1>3, PTL DEF CSpec

-----------------------------------------------------------------------------
(* The connection.                                                         *)

Places == {"idle", "connect", "wait", "handshake", "calling", "backoff"}
Calls  == [pc : Places, attempt : Int]

\* Whoever shakes hands holds connect_mutex, and there is no connection then.
ConnectInv ==
    /\ task \in [Tasks -> Calls]
    /\ conns \in Nat
    /\ \A t \in Tasks : task[t].pc = "handshake" => mutex = t /\ client = 0

LEMMA ConnectStep ==
    ASSUME ConnectInv, NEW t \in Tasks,
           \/ Begin(t) \/ Connect(t) \/ LockConnect(t) \/ Handshake(t) \/ HandshakeFails(t)
           \/ Answered(t) \/ Refused(t) \/ TransportFails(t) \/ Retry(t) \/ CancelCall(t)
    PROVE  ConnectInv'
<1> USE ClientAssumption DEF ConnectInv, Calls, Places, OnConnection, Ended, NoCall
<1>1. CASE Begin(t)          BY <1>1 DEF Begin
<1>2. CASE Connect(t)        BY <1>2 DEF Connect
<1>3. CASE LockConnect(t)    BY <1>3 DEF LockConnect, NeedsHandshake
<1>4. CASE Handshake(t)      BY <1>4 DEF Handshake
<1>5. CASE HandshakeFails(t) BY <1>5 DEF HandshakeFails
<1>6. CASE Answered(t)       BY <1>6 DEF Answered
<1>7. CASE Refused(t)        BY <1>7 DEF Refused
<1>8. CASE TransportFails(t) BY <1>8 DEF TransportFails
<1>9. CASE Retry(t)          BY <1>9 DEF Retry
<1>10. CASE CancelCall(t)    BY <1>10 DEF CancelCall
<1> QED
    BY <1>1, <1>2, <1>3, <1>4, <1>5, <1>6, <1>7, <1>8, <1>9, <1>10

LEMMA ConnectInvariant == CSpec => []ConnectInv
<1>1. CInit => ConnectInv BY DEF CInit, ConnectInv, NoCall, Calls, Places
<1>2. ConnectInv /\ [CNext]_cvars => ConnectInv'
  <2> SUFFICES ASSUME ConnectInv, [CNext]_cvars PROVE ConnectInv' OBVIOUS
  <2>1. CASE UNCHANGED <<task, conns, mutex, client>> BY <2>1 DEF ConnectInv
  <2> QED BY <2>1, ConnectStep DEF CNext, ResetElapses, cvars
<1> QED BY <1>1, <1>2, PTL DEF CSpec

\* No step replaces a connection by another one: it is cleared by a transport
\* error first.
THEOREM ConnectionCorrect == CSpec => NoConnectionDiscarded
<1>1. ConnectInv /\ [CNext]_cvars => [client # 0 /\ client' # 0 => client' = client]_cvars
  <2> SUFFICES ASSUME ConnectInv, CNext, client # 0, client' # 0 PROVE client' = client
    OBVIOUS
  <2>1. ASSUME NEW t \in Tasks PROVE ~Handshake(t)
    BY <2>1 DEF Handshake, ConnectInv
  <2> QED
    BY <2>1 DEF CNext, ResetElapses, Begin, Connect, LockConnect, HandshakeFails,
                Answered, Refused, TransportFails, Retry, CancelCall
<1> QED BY <1>1, ConnectInvariant, PTL DEF CSpec, NoConnectionDiscarded
=============================================================================
