--------------------------- MODULE ControlChannel ---------------------------
(***************************************************************************)
(* The control connection between one client and the server, at the level  *)
(* of whole messages: two FIFO queues over TLS/TCP.  A send waits while    *)
(* the peer's buffers are full.  An end that is dropped leaves what it had *)
(* sent for the other to read, unless it had not read everything it was    *)
(* sent, or is sent more: that resets the connection.  On a connection     *)
(* that is reset or broken any send or receive may fail; a send that does  *)
(* not fail goes nowhere.                                                  *)
(***************************************************************************)
EXTENDS Naturals, Sequences, Verdict

CONSTANTS
  CapToServer, CapToClient,   \* messages buffered each way before a send waits
  Versions    \* protocol versions of the builds in use

ASSUME CapAssumption == {CapToServer, CapToClient} \subseteq Nat \ {0}

VARIABLES
  toServer,   \* messages the client has sent and the server has not read
  toClient,   \* messages the server has sent and the client has not read
  closed      \* which of the client's end, the server's end and the
              \* connection itself are gone

channelVars == <<toServer, toClient, closed>>

Directions == {"->", "<-"}
Transports == {"tcp", "udp", "icmp"}

Hello(version) == [type |-> "hello", version |-> version]
Configure(version, parallel) ==
  [type |-> "configure", client_version |-> version, parallel |-> parallel]
Ack(ok) == [type |-> "ack", ok |-> ok]
Test(entry) == [type |-> "test", entry |-> entry]
BatchEnd == [type |-> "batch_end"]
Done == [type |-> "done"]
Report(id, body) == [type |-> "report", id |-> id, body |-> body]
Bye == [type |-> "bye"]   \* its summary is not looked at

\* No message waiting to be sent.
Nothing == [type |-> "nothing"]

ChannelInit ==
  /\ toServer = <<>>
  /\ toClient = <<>>
  /\ closed = {}

Broken == "wire" \in closed

\* ControlChannel::send as it succeeds at the client, and at the server.
ClientSends(message) ==
  IF closed \cap {"server", "wire"} = {}
  THEN /\ Len(toServer) < CapToServer
       /\ toServer' = Append(toServer, message)
       /\ UNCHANGED <<toClient, closed>>
  ELSE /\ closed' = closed \cup {"wire"}
       /\ UNCHANGED <<toServer, toClient>>

ServerSends(message) ==
  IF closed \cap {"client", "wire"} = {}
  THEN /\ Len(toClient) < CapToClient
       /\ toClient' = Append(toClient, message)
       /\ UNCHANGED <<toServer, closed>>
  ELSE /\ closed' = closed \cup {"wire"}
       /\ UNCHANGED <<toServer, toClient>>

\* ControlChannel::recv as it succeeds: the oldest message leaves the queue.
ClientTakes == toClient # <<>> /\ toClient' = Tail(toClient)
ServerTakes == toServer # <<>> /\ toServer' = Tail(toServer)

\* ControlChannel::recv fails: the stream is reset, or at its end.
ClientHearsEnd_OnlyReset == Broken
ServerHearsEnd_OnlyReset == Broken
ClientHearsEnd == Broken \/ ("server" \in closed /\ toClient = <<>>)
ServerHearsEnd == Broken \/ ("client" \in closed /\ toServer = <<>>)

\* An end is dropped, with unread messages left in its queue or none.
Dropped(end, unread) ==
  closed' = closed \cup {end} \cup (IF unread THEN {"wire"} ELSE {})

\* The connection breaks and both ends will notice.
Cut ==
  /\ ~Broken
  /\ closed' = closed \cup {"wire"}
  /\ UNCHANGED <<toServer, toClient>>
=============================================================================
