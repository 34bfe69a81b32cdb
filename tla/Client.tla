------------------------------- MODULE Client -------------------------------
(***************************************************************************)
(* The connection loop of the client (client/client.go, client/cmd.go):    *)
(* Run and connectAndServe in the main goroutine, runHeartbeat and         *)
(* acceptDataStreams in two goroutines per connection, and Stop in the     *)
(* signal goroutine.  They share the channel done, one error channel per   *)
(* connection, and the fields controlConn, dataSession and controlStream,  *)
(* which no lock protects: each access to a field is a step.               *)
(*                                                                         *)
(* The k-th connection that is dialled successfully is called k, and 0     *)
(* stands for nil.  The network and the server may end a connection at any *)
(* time.                                                                   *)
(***************************************************************************)
EXTENDS Naturals

CONSTANTS
  MaxConns,   \* bound: connections that can be dialled successfully
  MayStop     \* whether the operator may end the program

ASSUME ConnBound   == MaxConns \in Nat \ {0}
ASSUME MayStopBool == MayStop \in BOOLEAN

Conns == 1..MaxConns
Nil   == 0

VARIABLES
  main,           \* next step of the main goroutine
  conn,           \* the connection it works on, or the last one it had
  controlConn, dataSession, controlStream,   \* fields of Client
  done,           \* whether the channel done is closed
  errCh,          \* per connection: errors waiting in its channel
  heartbeat,      \* per connection: next step of runHeartbeat
  acceptor,       \* per connection: next step of acceptDataStreams
  acceptFrom,     \* per connection: the session it is blocked on
  stop,           \* next step of the signal goroutine
  open,           \* connections that are up
  streams,        \* connections whose control stream is open here
  crashed         \* a nil pointer was dereferenced: the process is gone

fields == <<controlConn, dataSession, controlStream>>
world  == <<open, streams>>
vars   == <<main, conn, fields, done, errCh, heartbeat, acceptor, acceptFrom, stop,
            world, crashed>>

ErrCap == 2   \* capacity of errCh

-----------------------------------------------------------------------------
(* Wrong variants of steps, each put in the place of the step it is a      *)
(* variant of to see that the properties tell them apart.                  *)

(* The deferred session.Close and conn.Close are missing.                  *)
KeepSession ==
  /\ ~crashed
  /\ main = "closeSession"
  /\ main' = "forgetSession"
  /\ UNCHANGED <<conn, fields, done, errCh, heartbeat, acceptor, acceptFrom, stop, world,
                 crashed>>

(* The new session does not reach the field.                               *)
NewSessionUnstored ==
  /\ ~crashed
  /\ main = "newSession"
  /\ main' = "openStream"
  /\ UNCHANGED <<conn, fields, done, errCh, heartbeat, acceptor, acceptFrom, stop, world,
                 crashed>>

(* runHeartbeat goes on after it has reported an error.                    *)
PongContinue(k) ==
  /\ ~crashed
  /\ heartbeat[k] = "pong"
  /\ heartbeat' = [heartbeat EXCEPT ![k] = "wait"]
  /\ \/ k \in open \intersect streams /\ UNCHANGED errCh
     \/ errCh' = [errCh EXCEPT ![k] = @ + 1]
  /\ UNCHANGED <<main, conn, fields, done, acceptor, acceptFrom, stop, world, crashed>>

(* The goroutines end without a report.                                    *)
ReportNothing(k) == UNCHANGED errCh

(* The read of the pong has no deadline and no end.                        *)
PongForever(k) ==
  /\ ~crashed
  /\ heartbeat[k] = "pong"
  /\ k \in open \intersect streams
  /\ heartbeat' = [heartbeat EXCEPT ![k] = "wait"]
  /\ UNCHANGED <<main, conn, fields, done, errCh, acceptor, acceptFrom, stop, world, crashed>>

-----------------------------------------------------------------------------
(* Run and connectAndServe                                                 *)

Dial ==
  /\ ~crashed
  /\ main = "dial"
  /\ \/ /\ conn < MaxConns
        /\ conn' = conn + 1
        /\ controlConn' = conn + 1
        /\ open' = open \union {conn + 1}
        /\ main' = "newSession"
     \/ /\ main' = "backoff"
        /\ UNCHANGED <<conn, controlConn, open>>
  /\ UNCHANGED <<dataSession, controlStream, done, errCh, heartbeat, acceptor, acceptFrom,
                 stop, streams, crashed>>

(* yamux.Client only checks its configuration, which is the same for every *)
(* connection and valid: its error does not occur.                         *)
NewSession ==
  /\ ~crashed
  /\ main = "newSession"
  /\ dataSession' = conn
  /\ main' = "openStream"
  /\ UNCHANGED <<conn, controlConn, controlStream, done, errCh, heartbeat, acceptor,
                 acceptFrom, stop, world, crashed>>

OpenStream ==
  /\ ~crashed
  /\ main = "openStream"
  /\ \/ /\ conn \in open
        /\ controlStream' = conn
        /\ streams' = streams \union {conn}
        /\ main' = "handshake"
     \/ /\ main' = "closeSession"
        /\ UNCHANGED <<controlStream, streams>>
  /\ UNCHANGED <<conn, controlConn, dataSession, done, errCh, heartbeat, acceptor, acceptFrom,
                 stop, open, crashed>>

(* Any error up to a refused port ends connectAndServe.                    *)
Handshake ==
  /\ ~crashed
  /\ main = "handshake"
  /\ \/ conn \in open /\ main' = "start"
     \/ main' = "closeStream"
  /\ UNCHANGED <<conn, fields, done, errCh, heartbeat, acceptor, acceptFrom, stop, world,
                 crashed>>

StartGoroutines ==
  /\ ~crashed
  /\ main = "start"
  /\ heartbeat' = [heartbeat EXCEPT ![conn] = "wait"]
  /\ acceptor' = [acceptor EXCEPT ![conn] = "check"]
  /\ main' = "serve"
  /\ UNCHANGED <<conn, fields, done, errCh, acceptFrom, stop, world, crashed>>

(* return <-errCh                                                          *)
AwaitError ==
  /\ ~crashed
  /\ main = "serve"
  /\ errCh[conn] > 0
  /\ errCh' = [errCh EXCEPT ![conn] = @ - 1]
  /\ main' = "closeStream"
  /\ UNCHANGED <<conn, fields, done, heartbeat, acceptor, acceptFrom, stop, world, crashed>>

(* The deferred functions, last one first.                                 *)
CloseStream ==
  /\ ~crashed
  /\ main = "closeStream"
  /\ streams' = streams \ {conn}
  /\ main' = "forgetStream"
  /\ UNCHANGED <<conn, fields, done, errCh, heartbeat, acceptor, acceptFrom, stop, open, crashed>>

ForgetStream ==
  /\ ~crashed
  /\ main = "forgetStream"
  /\ controlStream' = Nil
  /\ main' = "closeSession"
  /\ UNCHANGED <<conn, controlConn, dataSession, done, errCh, heartbeat, acceptor, acceptFrom,
                 stop, world, crashed>>

(* yamux closes the connection under it; the later conn.Close finds it so. *)
CloseSession ==
  /\ ~crashed
  /\ main = "closeSession"
  /\ open' = open \ {conn}
  /\ main' = "forgetSession"
  /\ UNCHANGED <<conn, fields, done, errCh, heartbeat, acceptor, acceptFrom, stop, streams,
                 crashed>>

ForgetSession ==
  /\ ~crashed
  /\ main = "forgetSession"
  /\ dataSession' = Nil
  /\ main' = "forgetConn"
  /\ UNCHANGED <<conn, controlConn, controlStream, done, errCh, heartbeat, acceptor,
                 acceptFrom, stop, world, crashed>>

ForgetConn ==
  /\ ~crashed
  /\ main = "forgetConn"
  /\ controlConn' = Nil
  /\ main' = "backoff"
  /\ UNCHANGED <<conn, dataSession, controlStream, done, errCh, heartbeat, acceptor,
                 acceptFrom, stop, world, crashed>>

(* The select of Run: done, or a timer of five seconds.  When both are     *)
(* ready it takes either.                                                  *)
BackoffDone ==
  /\ ~crashed
  /\ main = "backoff"
  /\ done
  /\ main' = "returned"
  /\ UNCHANGED <<conn, fields, done, errCh, heartbeat, acceptor, acceptFrom, stop, world,
                 crashed>>

BackoffTimer ==
  /\ ~crashed
  /\ main = "backoff"
  /\ main' = "dial"
  /\ UNCHANGED <<conn, fields, done, errCh, heartbeat, acceptor, acceptFrom, stop, world,
                 crashed>>

-----------------------------------------------------------------------------
(* runHeartbeat of connection k                                            *)

Report(k) == errCh' = [errCh EXCEPT ![k] = @ + 1]

HeartbeatDone(k) ==
  /\ ~crashed
  /\ heartbeat[k] = "wait"
  /\ done
  /\ heartbeat' = [heartbeat EXCEPT ![k] = "ended"]
  /\ UNCHANGED <<main, conn, fields, done, errCh, acceptor, acceptFrom, stop, world, crashed>>

Ping(k) ==
  /\ ~crashed
  /\ heartbeat[k] = "wait"
  /\ \/ /\ k \in open \intersect streams
        /\ heartbeat' = [heartbeat EXCEPT ![k] = "pong"]
        /\ UNCHANGED errCh
     \/ /\ k \notin open \intersect streams
        /\ heartbeat' = [heartbeat EXCEPT ![k] = "ended"]
        /\ Report(k)
  /\ UNCHANGED <<main, conn, fields, done, acceptor, acceptFrom, stop, world, crashed>>

(* A frame arrives, or the read fails or times out.                        *)
Pong(k) ==
  /\ ~crashed
  /\ heartbeat[k] = "pong"
  /\ \/ /\ k \in open \intersect streams
        /\ heartbeat' = [heartbeat EXCEPT ![k] = "wait"]
        /\ UNCHANGED errCh
     \/ /\ heartbeat' = [heartbeat EXCEPT ![k] = "ended"]
        /\ Report(k)
  /\ UNCHANGED <<main, conn, fields, done, acceptor, acceptFrom, stop, world, crashed>>

-----------------------------------------------------------------------------
(* acceptDataStreams of connection k                                       *)

CheckDone(k) ==
  /\ ~crashed
  /\ acceptor[k] = "check"
  /\ acceptor' = [acceptor EXCEPT ![k] = IF done THEN "ended" ELSE "read"]
  /\ UNCHANGED <<main, conn, fields, done, errCh, heartbeat, acceptFrom, stop, world, crashed>>

(* c.dataSession is read anew for every stream.                            *)
ReadSession(k) ==
  /\ ~crashed
  /\ acceptor[k] = "read"
  /\ acceptor' = [acceptor EXCEPT ![k] = "accept"]
  /\ acceptFrom' = [acceptFrom EXCEPT ![k] = dataSession]
  /\ crashed' = (dataSession = Nil)
  /\ UNCHANGED <<main, conn, fields, done, errCh, heartbeat, stop, world>>

AcceptStream(k) ==
  /\ ~crashed
  /\ acceptor[k] = "accept"
  /\ acceptFrom[k] \in open
  /\ acceptor' = [acceptor EXCEPT ![k] = "check"]
  /\ acceptFrom' = [acceptFrom EXCEPT ![k] = Nil]
  /\ UNCHANGED <<main, conn, fields, done, errCh, heartbeat, stop, world, crashed>>

AcceptError(k) ==
  /\ ~crashed
  /\ acceptor[k] = "accept"
  /\ acceptFrom[k] \notin open
  /\ acceptor' = [acceptor EXCEPT ![k] = "ended"]
  /\ acceptFrom' = [acceptFrom EXCEPT ![k] = Nil]
  /\ Report(k)
  /\ UNCHANGED <<main, conn, fields, done, heartbeat, stop, world, crashed>>

-----------------------------------------------------------------------------
(* Stop, and the network                                                   *)

Signal ==
  /\ ~crashed
  /\ stop = "idle"
  /\ MayStop
  /\ main # "returned"
  /\ done' = TRUE
  /\ stop' = "checkConn"
  /\ UNCHANGED <<main, conn, fields, errCh, heartbeat, acceptor, acceptFrom, world, crashed>>

StopCheckConn ==
  /\ ~crashed
  /\ stop = "checkConn"
  /\ stop' = IF controlConn = Nil THEN "returned" ELSE "checkStream"
  /\ UNCHANGED <<main, conn, fields, done, errCh, heartbeat, acceptor, acceptFrom, world,
                 crashed>>

StopCheckStream ==
  /\ ~crashed
  /\ stop = "checkStream"
  /\ stop' = IF controlStream = Nil THEN "closeConn" ELSE "writeClose"
  /\ UNCHANGED <<main, conn, fields, done, errCh, heartbeat, acceptor, acceptFrom, world,
                 crashed>>

StopWriteClose ==
  /\ ~crashed
  /\ stop = "writeClose"
  /\ stop' = "closeConn"
  /\ crashed' = (controlStream = Nil)
  /\ UNCHANGED <<main, conn, fields, done, errCh, heartbeat, acceptor, acceptFrom, world>>

StopCloseConn ==
  /\ ~crashed
  /\ stop = "closeConn"
  /\ stop' = "returned"
  /\ crashed' = (controlConn = Nil)
  /\ open' = open \ {controlConn}
  /\ UNCHANGED <<main, conn, fields, done, errCh, heartbeat, acceptor, acceptFrom, streams>>

LoseConnection ==
  /\ ~crashed
  /\ \E k \in open : open' = open \ {k}
  /\ UNCHANGED <<main, conn, fields, done, errCh, heartbeat, acceptor, acceptFrom, stop,
                 streams, crashed>>

-----------------------------------------------------------------------------

Init ==
  /\ main = "dial"
  /\ conn = 0
  /\ controlConn = Nil /\ dataSession = Nil /\ controlStream = Nil
  /\ done = FALSE
  /\ errCh = [k \in Conns |-> 0]
  /\ heartbeat = [k \in Conns |-> "none"]
  /\ acceptor = [k \in Conns |-> "none"]
  /\ acceptFrom = [k \in Conns |-> Nil]
  /\ stop = "idle"
  /\ open = {} /\ streams = {}
  /\ crashed = FALSE

MainStep ==
  \/ Dial \/ NewSession \/ OpenStream \/ Handshake \/ StartGoroutines \/ AwaitError
  \/ CloseStream \/ ForgetStream \/ CloseSession \/ ForgetSession \/ ForgetConn
  \/ BackoffDone \/ BackoffTimer

HeartbeatStep(k) == HeartbeatDone(k) \/ Ping(k) \/ Pong(k)
AcceptorStep(k)  == CheckDone(k) \/ ReadSession(k) \/ AcceptStream(k) \/ AcceptError(k)
StopStep         == StopCheckConn \/ StopCheckStream \/ StopWriteClose \/ StopCloseConn

Next ==
  \/ MainStep
  \/ \E k \in Conns : HeartbeatStep(k) \/ AcceptorStep(k)
  \/ Signal \/ StopStep
  \/ LoseConnection

Spec == Init /\ [][Next]_vars

(* Goroutines run on; a select whose done case is ready takes it in the    *)
(* end; data streams, signals and losses are up to the world.              *)
Fairness ==
  /\ WF_vars(MainStep)
  /\ SF_vars(BackoffDone)
  /\ WF_vars(StopStep)
  /\ \A k \in Conns :
       /\ WF_vars(HeartbeatStep(k))
       /\ SF_vars(HeartbeatDone(k))
       /\ WF_vars(CheckDone(k) \/ ReadSession(k) \/ AcceptError(k))

FairSpec == Spec /\ Fairness

-----------------------------------------------------------------------------

TypeOK ==
  /\ main \in {"dial", "newSession", "openStream", "handshake", "start", "serve",
               "closeStream", "forgetStream", "closeSession", "forgetSession", "forgetConn",
               "backoff", "returned"}
  /\ conn \in 0..MaxConns
  /\ controlConn \in Conns \union {Nil}
  /\ dataSession \in Conns \union {Nil}
  /\ controlStream \in Conns \union {Nil}
  /\ done \in BOOLEAN
  /\ errCh \in [Conns -> 0..ErrCap]
  /\ heartbeat \in [Conns -> {"none", "wait", "pong", "ended"}]
  /\ acceptor \in [Conns -> {"none", "check", "read", "accept", "ended"}]
  /\ acceptFrom \in [Conns -> Conns \union {Nil}]
  /\ stop \in {"idle", "checkConn", "checkStream", "writeClose", "closeConn", "returned"}
  /\ open \in SUBSET Conns
  /\ streams \in SUBSET Conns
  /\ crashed \in BOOLEAN

(* A connection does not outlive its connectAndServe: when the client      *)
(* waits, dials again or has returned, no link to the server is up, so the *)
(* server can take the old port back.                                      *)
NoLinkLeft == main \in {"dial", "backoff", "returned"} => open = {}

(* A connection that is lost while it serves is noticed, and the client    *)
(* dials again, unless it is stopped or has crashed.                       *)
LossNoticed ==
  main = "serve" /\ conn \notin open ~> main = "dial" \/ done \/ crashed

(* The heartbeat goroutine of a connection that is gone ends.              *)
HeartbeatEnds ==
  \A k \in Conns : k <= conn /\ k \notin open ~> heartbeat[k] \in {"none", "ended"} \/ crashed

(* After Stop, Run returns, so that the deferred releaseLock runs.         *)
StopEndsRun == done ~> main = "returned" \/ crashed

(* Fields that are reset between a test and a use, or under a goroutine    *)
(* that outlives its connection, bring the client down between two         *)
(* connections at most, never while one is serving players.                *)
NoCrashWhileServing == main \in {"start", "serve"} => ~crashed
=============================================================================
