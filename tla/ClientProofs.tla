--------------------------- MODULE ClientProofs ----------------------------
(***************************************************************************)
(* Theorems about the connection loop of the client, for every number of   *)
(* connections, whether or not the operator may end the program.           *)
(***************************************************************************)
EXTENDS Client, TLAPS

-----------------------------------------------------------------------------
(* The inductive invariant                                                 *)

Connected == main \notin {"dial", "backoff", "returned"}
Fresh(k)  == heartbeat[k] = "none" /\ acceptor[k] = "none"

(* A goroutine reports one error and ends, and each connection has its own *)
(* goroutines and its own channel.                                         *)
OneReportEach ==
  \A k \in Conns :
    /\ heartbeat[k] # "ended" \/ acceptor[k] # "ended" => errCh[k] <= 1
    /\ heartbeat[k] # "ended" /\ acceptor[k] # "ended" => errCh[k] = 0

NotStarted ==
  /\ \A k \in Conns : k > conn => Fresh(k)
  /\ Connected => conn \in Conns
  /\ main \in {"newSession", "openStream", "handshake", "start"} => Fresh(conn)

(* Only the current connection can be up, and not once its session is      *)
(* closed.                                                                 *)
OneLink ==
  /\ open \subseteq {conn}
  /\ ~Connected \/ main \in {"forgetSession", "forgetConn"} => open = {}

(* From the handshake to the first deferred function all three fields hold *)
(* the current connection, so that no use of a field meets nil.            *)
FieldsHeld ==
  /\ main \in {"newSession", "openStream", "handshake", "start", "serve"} => controlConn = conn
  /\ main \in {"openStream", "handshake", "start", "serve"} => dataSession = conn
  /\ main \in {"handshake", "start", "serve"} => controlStream = conn
  /\ main \in {"start", "serve"} => ~crashed

ClientInv == TypeOK /\ OneReportEach /\ NotStarted /\ OneLink /\ FieldsHeld

LEMMA ClientInit == Init => ClientInv
<1> USE ConnBound, MayStopBool DEF Init, Conns, Nil, ErrCap, Connected, Fresh
<1>1. ASSUME Init PROVE TypeOK
  <2>1. conn \in 0..MaxConns
    BY <1>1
  <2>2. errCh \in [Conns -> 0..ErrCap]
    BY <1>1
  <2>3. done \in BOOLEAN /\ crashed \in BOOLEAN
    BY <1>1
  <2> QED
    BY <1>1, <2>1, <2>2, <2>3 DEF TypeOK
<1>2. Init => OneReportEach /\ NotStarted /\ OneLink /\ FieldsHeld
  BY DEF OneReportEach, NotStarted, OneLink, FieldsHeld
<1> QED
  BY <1>1, <1>2 DEF ClientInv

LEMMA ClientStep == ClientInv /\ [Next]_vars => ClientInv'
<1> USE ConnBound, MayStopBool DEF Conns, Nil, ErrCap, fields, world, Connected, Fresh
<1> SUFFICES ASSUME ClientInv, [Next]_vars PROVE ClientInv'
    OBVIOUS
<1> USE DEF ClientInv
<1>1. CASE Dial
  <2>0. conn + 1 \in Conns \/ (UNCHANGED <<conn, controlConn, open>> /\ main' = "backoff")
    BY <1>1 DEF Dial, TypeOK
  <2>1. TypeOK'
    <3>1. conn' \in 0..MaxConns
      BY <1>1, <2>0 DEF Dial, TypeOK
    <3>3. open' \subseteq Conns
      BY <1>1, <2>0 DEF Dial, TypeOK
    <3>2. controlConn' \in Conns \union {Nil}
      BY <1>1, <2>0 DEF Dial, TypeOK
    <3> QED
      BY <1>1, <3>1, <3>2, <3>3 DEF Dial, TypeOK
  <2>2. OneReportEach'
    BY <1>1 DEF Dial, TypeOK, OneReportEach
  <2>3. NotStarted'
    BY <1>1, <2>0 DEF Dial, TypeOK, NotStarted
  <2>4. OneLink'
    BY <1>1, <2>0 DEF Dial, TypeOK, OneLink
  <2>5. FieldsHeld'
    BY <1>1, <2>0 DEF Dial, TypeOK, FieldsHeld
  <2> QED
    BY <2>1, <2>2, <2>3, <2>4, <2>5
<1>2. CASE NewSession
  BY <1>2 DEF NewSession, TypeOK, OneReportEach, NotStarted, OneLink, FieldsHeld
<1>3. CASE OpenStream
  BY <1>3 DEF OpenStream, TypeOK, OneReportEach, NotStarted, OneLink, FieldsHeld
<1>4. CASE Handshake
  BY <1>4 DEF Handshake, TypeOK, OneReportEach, NotStarted, OneLink, FieldsHeld
<1>5. CASE StartGoroutines
  BY <1>5 DEF StartGoroutines, TypeOK, OneReportEach, NotStarted, OneLink, FieldsHeld
<1>6. CASE AwaitError
  BY <1>6 DEF AwaitError, TypeOK, OneReportEach, NotStarted, OneLink, FieldsHeld
<1>7. CASE CloseStream
  BY <1>7 DEF CloseStream, TypeOK, OneReportEach, NotStarted, OneLink, FieldsHeld
<1>8. CASE ForgetStream
  BY <1>8 DEF ForgetStream, TypeOK, OneReportEach, NotStarted, OneLink, FieldsHeld
<1>9. CASE CloseSession
  BY <1>9 DEF CloseSession, TypeOK, OneReportEach, NotStarted, OneLink, FieldsHeld
<1>10. CASE ForgetSession
  BY <1>10 DEF ForgetSession, TypeOK, OneReportEach, NotStarted, OneLink, FieldsHeld
<1>11. CASE ForgetConn
  BY <1>11 DEF ForgetConn, TypeOK, OneReportEach, NotStarted, OneLink, FieldsHeld
<1>12. CASE BackoffDone
  BY <1>12 DEF BackoffDone, TypeOK, OneReportEach, NotStarted, OneLink, FieldsHeld
<1>13. CASE BackoffTimer
  BY <1>13 DEF BackoffTimer, TypeOK, OneReportEach, NotStarted, OneLink, FieldsHeld
<1>14. CASE Signal
  BY <1>14 DEF Signal, TypeOK, OneReportEach, NotStarted, OneLink, FieldsHeld
<1>15. CASE StopCheckConn
  BY <1>15 DEF StopCheckConn, TypeOK, OneReportEach, NotStarted, OneLink, FieldsHeld
<1>16. CASE StopCheckStream
  BY <1>16 DEF StopCheckStream, TypeOK, OneReportEach, NotStarted, OneLink, FieldsHeld
<1>17. CASE StopWriteClose
  BY <1>17 DEF StopWriteClose, TypeOK, OneReportEach, NotStarted, OneLink, FieldsHeld
<1>18. CASE StopCloseConn
  BY <1>18 DEF StopCloseConn, TypeOK, OneReportEach, NotStarted, OneLink, FieldsHeld
<1>19. CASE LoseConnection
  BY <1>19 DEF LoseConnection, TypeOK, OneReportEach, NotStarted, OneLink, FieldsHeld
<1>20. ASSUME NEW k \in Conns, HeartbeatDone(k) PROVE ClientInv'
  BY <1>20 DEF HeartbeatDone, TypeOK, OneReportEach, NotStarted, OneLink, FieldsHeld
<1>21. ASSUME NEW k \in Conns, Ping(k) PROVE ClientInv'
  <2>1. TypeOK'
    BY <1>21 DEF Ping, Report, TypeOK, OneReportEach
  <2>2. OneReportEach'
    BY <1>21 DEF Ping, Report, TypeOK, OneReportEach
  <2>3. NotStarted' /\ OneLink' /\ FieldsHeld'
    BY <1>21 DEF Ping, Report, TypeOK, NotStarted, OneLink, FieldsHeld
  <2> QED
    BY <2>1, <2>2, <2>3
<1>22. ASSUME NEW k \in Conns, Pong(k) PROVE ClientInv'
  BY <1>22 DEF Pong, Report, TypeOK, OneReportEach, NotStarted, OneLink, FieldsHeld
<1>23. ASSUME NEW k \in Conns, CheckDone(k) PROVE ClientInv'
  BY <1>23 DEF CheckDone, TypeOK, OneReportEach, NotStarted, OneLink, FieldsHeld
<1>24. ASSUME NEW k \in Conns, ReadSession(k) PROVE ClientInv'
  BY <1>24 DEF ReadSession, TypeOK, OneReportEach, NotStarted, OneLink, FieldsHeld
<1>25. ASSUME NEW k \in Conns, AcceptStream(k) PROVE ClientInv'
  BY <1>25 DEF AcceptStream, TypeOK, OneReportEach, NotStarted, OneLink, FieldsHeld
<1>26. ASSUME NEW k \in Conns, AcceptError(k) PROVE ClientInv'
  <2>1. TypeOK'
    BY <1>26 DEF AcceptError, Report, TypeOK, OneReportEach
  <2>2. OneReportEach'
    BY <1>26 DEF AcceptError, Report, TypeOK, OneReportEach
  <2>3. NotStarted' /\ OneLink' /\ FieldsHeld'
    BY <1>26 DEF AcceptError, Report, TypeOK, NotStarted, OneLink, FieldsHeld
  <2> QED
    BY <2>1, <2>2, <2>3
<1>27. CASE UNCHANGED vars
  BY <1>27 DEF vars, TypeOK, OneReportEach, NotStarted, OneLink, FieldsHeld
<1> QED
  BY <1>1, <1>2, <1>3, <1>4, <1>5, <1>6, <1>7, <1>8, <1>9, <1>10, <1>11, <1>12, <1>13, <1>14, <1>15, <1>16, <1>17, <1>18, <1>19, <1>20, <1>21, <1>22, <1>23, <1>24, <1>25, <1>26, <1>27
     DEF Next, MainStep, HeartbeatStep, AcceptorStep, StopStep

LEMMA ClientAlways == Spec => []ClientInv
BY ClientInit, ClientStep, PTL DEF Spec

-----------------------------------------------------------------------------
(* The properties                                                          *)

(* The state stays within its types: no goroutine ever has to wait for     *)
(* room in the error channel, and no connection is counted past the last.  *)
THEOREM TypeCorrect == Spec => []TypeOK
<1>1. ClientInv => TypeOK
  BY DEF ClientInv
<1> QED
  BY <1>1, ClientAlways, PTL

(* Whatever the order of the deferred functions and of Stop, a client that *)
(* waits, dials or has returned holds no link to the server.               *)
THEOREM NoLinkIsLeft == Spec => []NoLinkLeft
<1>1. ClientInv => NoLinkLeft
  BY DEF ClientInv, OneLink, Connected, NoLinkLeft
<1> QED
  BY <1>1, ClientAlways, PTL

(* No nil dereference while a connection is being served.                  *)
THEOREM ServingIsSafe == Spec => []NoCrashWhileServing
<1>1. ClientInv => NoCrashWhileServing
  BY DEF ClientInv, FieldsHeld, NoCrashWhileServing
<1> QED
  BY <1>1, ClientAlways, PTL
=============================================================================
