----------------------------- MODULE ServerLoop -----------------------------
(***************************************************************************)
(* The server in main: certificate, listener, then the loop of accept, TLS *)
(* handshake, Hello, run_server, next client.  Clients connect whenever    *)
(* they like and wait in the listener's queue, where they may give up; the *)
(* one that is served is the peer of module ServerOpen, who sends anything *)
(* and may leave.  Nothing but the one session runs in the loop, and       *)
(* nothing in it has a timeout.                                            *)
(***************************************************************************)
EXTENDS ServerOpen

CONSTANTS
  Clients,    \* those who connect, once each
  NoClient

ASSUME ClientsAssumption == NoClient \notin Clients

VARIABLES
  at,         \* "start", "accept", "handshake" or "session", or its exit code
  peer,       \* whom the server has accepted
  backlog,    \* connections that wait to be accepted
  away,       \* clients who have not connected
  gone        \* clients who gave up before their session

loopVars == <<at, peer, backlog, away, gone>>
allVars == <<vars, loopVars>>

LoopInit ==
  /\ Init
  /\ at = "start"
  /\ peer = NoClient
  /\ backlog = <<>>
  /\ away = Clients
  /\ gone = {}

-----------------------------------------------------------------------------
\* A certificate of its own, which may fail; then bind_with_reuse, which may.
CertificateFails ==
  /\ at = "start"
  /\ at' = "exit 2"
  /\ UNCHANGED <<vars, peer, backlog, away, gone>>

bind_with_reuse ==
  /\ at = "start"
  /\ at' \in {"accept", "exit 3"}
  /\ UNCHANGED <<vars, peer, backlog, away, gone>>

Listening == at \notin {"start", "exit 2", "exit 3"}

\* The host's TCP takes the connection (listen(1024), never full here).
Connects(c) ==
  /\ Listening /\ c \in away
  /\ away' = away \ {c}
  /\ backlog' = Append(backlog, c)
  /\ UNCHANGED <<vars, at, peer, gone>>

\* A client gives up, in the queue or during its handshake.
GivesUp(c) ==
  /\ c \notin away \cup gone
  /\ (\E i \in DOMAIN backlog : backlog[i] = c) \/ (c = peer /\ at = "handshake")
  /\ gone' = gone \cup {c}
  /\ UNCHANGED <<vars, at, peer, backlog, away>>

\* listener.accept: the oldest connection, or an error on one that is gone.
Accepts ==
  /\ at = "accept" /\ backlog # <<>>
  /\ backlog' = Tail(backlog)
  /\ \/ at' = "handshake" /\ peer' = Head(backlog)
     \/ Head(backlog) \in gone /\ UNCHANGED <<at, peer>>
  /\ UNCHANGED <<vars, away, gone>>

HandshakeSucceeds ==
  /\ at = "handshake" /\ peer \notin gone
  /\ at' = "session"
  /\ UNCHANGED <<vars, peer, backlog, away, gone>>

\* The handshake of a client that is gone, or that refuses the certificate or
\* speaks no TLS, fails: `continue`.
AfterFailure_Ends == "ended"
AfterFailure == "accept"
HandshakeFails ==
  /\ at = "handshake"
  /\ at' = AfterFailure
  /\ peer' = NoClient
  /\ UNCHANGED <<vars, backlog, away, gone>>

\* Hello, and run_server.
InSession ==
  /\ at = "session"
  /\ PeerSends \/ PeerReads \/ PeerLeaves \/ ServerMoves
  /\ UNCHANGED loopVars

\* The session is over, well or not: the next one starts afresh.
SessionOver ==
  /\ at = "session" /\ ServerOver
  /\ at' = "accept"
  /\ peer' = NoClient
  /\ toServer' = <<>> /\ toClient' = <<>> /\ closed' = {}
  /\ spc' = "configure" /\ sout' = Hello(sversion) /\ serr' = "none"
  /\ limit' = 1 /\ sbatch' = <<>> /\ running' = {} /\ doneAfter' = FALSE
  /\ scounts' = NoCounts
  /\ asked' = NotAsked
  /\ taken' = [id \in TestIds |-> 0]
  /\ answered' = [id \in TestIds |-> 0] /\ reports' = 0
  /\ UNCHANGED <<sversion, inputs, backlog, away, gone>>

\* Nobody is left to come, or the server has exited.
Idle ==
  /\ \/ at = "accept" /\ backlog = <<>> /\ away = {}
     \/ at \in {"exit 2", "exit 3"}
  /\ UNCHANGED allVars

LoopNext ==
  \/ CertificateFails \/ bind_with_reuse
  \/ \E c \in Clients : Connects(c) \/ GivesUp(c)
  \/ Accepts \/ HandshakeSucceeds \/ HandshakeFails \/ SessionOver \/ InSession
  \/ Idle

\* The loop's steps are taken.  Of a handshake only this is sure: with a
\* client that is gone it fails.
LoopFairness ==
  /\ WF_allVars(Accepts) /\ WF_allVars(SessionOver)
  /\ WF_allVars(at = "session" /\ ServerMoves /\ UNCHANGED loopVars)
  /\ WF_allVars(peer \in gone /\ HandshakeFails)

LoopSpec == LoopInit /\ [][LoopNext]_allVars /\ LoopFairness

-----------------------------------------------------------------------------
\* The loop is held by a client that has not left it.
Held ==
  \/ at = "handshake" /\ peer \notin gone
  \/ at = "session" /\ "client" \notin closed

Waits(c) == c \in {backlog[i] : i \in DOMAIN backlog}

\* A failed handshake, a broken session or a protocol error does not stop the
\* server ("accept error", "server session error": `continue`): if no client
\* holds it for good, then whoever waits in the queue is accepted.
WaitingServed == []<>~Held => \A c \in Clients : Waits(c) ~> ~Waits(c)
=============================================================================
