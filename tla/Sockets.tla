------------------------------ MODULE Sockets -------------------------------
(***************************************************************************)
(* How the sockets of the W5100 are shared by the objects of a sketch: one *)
(* EthernetServer, one EthernetClient that connects, one EthernetUDP, and  *)
(* the client the server handed out last.  An object knows its socket by   *)
(* number only, and the server its own by EthernetClass::_server_port.     *)
(*                                                                         *)
(* The chip and the peers are external: connections come in, are made or   *)
(* refused, carry data, and are closed or reset from the other side while  *)
(* the sketch waits or computes.                                           *)
(***************************************************************************)
EXTENDS Integers, FiniteSets

CONSTANTS
  Sock,             \* the sockets, 0 .. MAX_SOCK_NUM - 1
  NoSock,           \* MAX_SOCK_NUM
  Resets,           \* TRUE: peers also reset connections
  Steals            \* TRUE: the sketch connects although no socket is CLOSED

ASSUME SocketsAssumption ==
  /\ Sock \subseteq Nat /\ Sock # {} /\ NoSock \notin Sock
  /\ IsFiniteSet(Sock) /\ { Resets, Steals } \subseteq BOOLEAN

VARIABLES
  sr,               \* Sn_SR of every socket
  unread,           \* is there data in its receive memory
  serverPort,       \* _server_port[s] = _port
  client, udp, handed,  \* _sock of the three objects
  netPc,            \* where the sketch is
  at,               \* the socket of accept()'s loop
  listening,        \* the local of accept()
  stopping          \* the socket stop() waits for

objects   == << client, udp, handed >>
chipState == << sr, unread >>
acceptVars == << at, listening >>
socketsVars == << chipState, serverPort, objects, netPc, acceptVars, stopping >>

Lowest(S) == CHOOSE s \in S : \A t \in S : s <= t
After(s) == { t \in Sock : t > s }
In(statuses) == { s \in Sock : sr[s] \in statuses }

Set(f, s, v) == [f EXCEPT ![s] = v]

(***************************************************************************)
(* EthernetClient: connect and stop.                                       *)
(***************************************************************************)
\* socket() closes the socket first, so whatever it carried is gone.
Open(s, status) ==
  /\ sr' = Set(sr, s, status)
  /\ unread' = Set(unread, s, FALSE)

Connectable == In({ "CLOSED", "FIN_WAIT", "CLOSE_WAIT" })

MayConnect ==
  /\ netPc = "idle" /\ client = NoSock /\ Connectable # {}
  /\ Steals \/ Lowest(Connectable) \in In({ "CLOSED" })
  /\ handed' = NoSock       \* the sketch no longer uses it
  /\ UNCHANGED << serverPort, udp, acceptVars, stopping >>

Connect ==
  /\ MayConnect
  /\ client' = Lowest(Connectable)
  /\ Open(client', "SYNSENT")
  /\ netPc' = "connecting"

\* The address 0.0.0.0 or 255.255.255.255 or the port 0: the socket is open by then.
ConnectIsRefused ==
  /\ MayConnect
  /\ Open(Lowest(Connectable), "INIT")
  /\ UNCHANGED << client, netPc >>

ConnectReturns ==
  /\ netPc = "connecting" /\ sr[client] \in { "ESTABLISHED", "CLOSED" }
  /\ client' = IF sr[client] = "CLOSED" THEN NoSock ELSE client
  /\ netPc' = "idle"
  /\ UNCHANGED << chipState, serverPort, udp, handed, acceptVars, stopping >>

\* The DISCON command, on a connection and on a socket without one.
Disconnected(status) ==
  CASE status = "ESTABLISHED" -> "FIN_WAIT"
    [] status = "CLOSE_WAIT" -> "LAST_ACK"
    [] OTHER -> status

Stop(s, then) ==
  /\ sr' = Set(sr, s, Disconnected(sr[s]))
  /\ stopping' = s /\ netPc' = then
  /\ UNCHANGED unread

\* It has closed, or a second is over and it is closed by force.
Stopped ==
  /\ sr' = Set(sr, stopping, "CLOSED")
  /\ unread' = Set(unread, stopping, FALSE)
  /\ serverPort' = Set(serverPort, stopping, FALSE)
  /\ stopping' = NoSock

ClientStop ==
  /\ netPc = "idle"
  /\ \E s \in { client, handed } \ { NoSock } : Stop(s, "stopping")
  /\ UNCHANGED << serverPort, objects, acceptVars >>

ClientStopReturns ==
  /\ netPc = "stopping"
  /\ Stopped
  /\ client' = IF client = stopping THEN NoSock ELSE client
  /\ handed' = IF handed = stopping THEN NoSock ELSE handed
  /\ netPc' = "idle"
  /\ UNCHANGED << udp, acceptVars >>

ClientRead ==
  /\ netPc = "idle"
  /\ \E s \in { client, handed } \ { NoSock } : unread[s] /\ unread' = Set(unread, s, FALSE)
  /\ UNCHANGED << sr, serverPort, objects, netPc, acceptVars, stopping >>

(***************************************************************************)
(* EthernetUDP: begin and stop.                                            *)
(***************************************************************************)
UdpBegin ==
  /\ netPc = "idle" /\ udp = NoSock /\ In({ "CLOSED", "FIN_WAIT" }) # {}
  /\ udp' = Lowest(In({ "CLOSED", "FIN_WAIT" }))
  /\ Open(udp', "UDP")
  /\ UNCHANGED << serverPort, client, handed, netPc, acceptVars, stopping >>

UdpStop ==
  /\ netPc = "idle" /\ udp # NoSock
  /\ Open(udp, "CLOSED")
  /\ serverPort' = Set(serverPort, udp, FALSE)
  /\ udp' = NoSock
  /\ UNCHANGED << client, handed, netPc, acceptVars, stopping >>

(***************************************************************************)
(* EthernetServer: available, which accepts first, and begin.              *)
(***************************************************************************)
Available ==
  /\ netPc = "idle"
  /\ netPc' = "accept" /\ at' = Lowest(Sock) /\ listening' = FALSE
  /\ handed' = NoSock
  /\ UNCHANGED << chipState, serverPort, client, udp, stopping >>

Onward == IF After(at) = {} THEN netPc' = "accepted" /\ at' = Lowest(Sock)
                            ELSE netPc' = "accept" /\ at' = Lowest(After(at))

\* A connection its peer has closed and from which all was read.
Finished(s) == sr[s] = "CLOSE_WAIT" /\ ~unread[s]

AcceptNext ==
  /\ netPc = "accept"
  /\ ~(serverPort[at] /\ Finished(at))
  /\ listening' = (listening \/ (serverPort[at] /\ sr[at] = "LISTEN"))
  /\ Onward
  /\ UNCHANGED << chipState, serverPort, objects, stopping >>

AcceptStops ==
  /\ netPc = "accept" /\ serverPort[at] /\ Finished(at)
  /\ Stop(at, "acceptStopping")
  /\ UNCHANGED << serverPort, objects, acceptVars >>

AcceptStopped ==
  /\ netPc = "acceptStopping"
  /\ Stopped /\ Onward
  /\ UNCHANGED << objects, listening >>

ServerBegin ==
  /\ netPc = "accepted" /\ ~listening /\ In({ "CLOSED" }) # {}
  /\ LET s == Lowest(In({ "CLOSED" })) IN
       Open(s, "LISTEN") /\ serverPort' = Set(serverPort, s, TRUE)
  /\ netPc' = "handOut" /\ listening' = FALSE
  /\ UNCHANGED << objects, at, stopping >>

NoBegin ==
  /\ netPc = "accepted" /\ (listening \/ In({ "CLOSED" }) = {})
  /\ netPc' = "handOut" /\ listening' = FALSE
  /\ UNCHANGED << chipState, serverPort, objects, at, stopping >>

Readable == { s \in In({ "ESTABLISHED", "CLOSE_WAIT" }) : serverPort[s] /\ unread[s] }

HandOut ==
  /\ netPc = "handOut"
  /\ handed' = IF Readable = {} THEN NoSock ELSE Lowest(Readable)
  /\ netPc' = "idle"
  /\ UNCHANGED << chipState, serverPort, client, udp, acceptVars, stopping >>

(***************************************************************************)
(* The chip and the peers.                                                 *)
(***************************************************************************)
Becomes(s, status) == sr' = Set(sr, s, status)
Elsewhere == UNCHANGED << serverPort, objects, netPc, acceptVars, stopping >>

PeerConnects(s) ==
  /\ sr[s] = "LISTEN" /\ Becomes(s, "ESTABLISHED")
  /\ UNCHANGED unread /\ Elsewhere
PeerAnswers(s) ==
  /\ sr[s] = "SYNSENT" /\ \E r \in { "ESTABLISHED", "CLOSED" } : Becomes(s, r)
  /\ UNCHANGED unread /\ Elsewhere
PeerSends(s) ==
  /\ sr[s] = "ESTABLISHED" /\ ~unread[s] /\ unread' = Set(unread, s, TRUE)
  /\ UNCHANGED sr /\ Elsewhere
PeerCloses(s) ==
  /\ \/ sr[s] = "ESTABLISHED" /\ Becomes(s, "CLOSE_WAIT")
     \/ sr[s] \in { "FIN_WAIT", "LAST_ACK" } /\ Becomes(s, "CLOSED")
  /\ UNCHANGED unread /\ Elsewhere
PeerResets(s) ==
  /\ Resets /\ sr[s] \in { "ESTABLISHED", "CLOSE_WAIT", "FIN_WAIT", "LAST_ACK" }
  /\ Becomes(s, "CLOSED")
  /\ UNCHANGED unread /\ Elsewhere

(***************************************************************************)
(* Specification and properties.                                           *)
(***************************************************************************)
SocketsInit ==
  /\ sr = [s \in Sock |-> "CLOSED"]
  /\ unread = [s \in Sock |-> FALSE]
  /\ serverPort = [s \in Sock |-> FALSE]
  /\ client = NoSock /\ udp = NoSock /\ handed = NoSock /\ stopping = NoSock
  /\ netPc = "idle" /\ at = Lowest(Sock) /\ listening = FALSE

Going == ConnectReturns \/ ClientStopReturns \/ AcceptNext \/ AcceptStops \/ AcceptStopped
           \/ ServerBegin \/ NoBegin \/ HandOut
NetCalls == Connect \/ ConnectIsRefused \/ ClientStop \/ ClientRead \/ UdpBegin \/ UdpStop \/ Available
Peer == \E s \in Sock : PeerConnects(s) \/ PeerSends(s) \/ PeerCloses(s) \/ PeerResets(s)
PeersAnswer == \E s \in Sock : PeerAnswers(s)

SocketsNext == Going \/ NetCalls \/ Peer \/ PeersAnswer

\* The processor runs, a connection attempt ends, and the sketch goes on
\* calling available().
SocketsFairness ==
  WF_socketsVars(Going) /\ WF_socketsVars(PeersAnswer) /\ SF_socketsVars(Available)
SocketsSpec == SocketsInit /\ [][SocketsNext]_socketsVars /\ SocketsFairness

\* A socket that is in use belongs to an object or to the server, and is given
\* back by them, unless it was opened for a peer that connect() then refuses
\* (EthernetClient.cpp:55-60): nothing closes that one.
NoSocketLost ==
  \A s \in Sock : sr[s] \notin { "CLOSED", "INIT" } => s \in { client, udp, stopping } \/ serverPort[s]

\* connect() waits for ESTABLISHED or CLOSED and misses a connection that its peer
\* has closed again (EthernetClient.cpp:62-68).
MissedThePeer == netPc = "connecting" /\ sr[client] = "CLOSE_WAIT"

\* connect() tells the sketch when it "didn't get a connection to the server"
\* (WebClient.ino:62), unless the peer had closed before it looked.
ConnectReports == []<>(netPc # "connecting" \/ MissedThePeer)

\* The server listens, unless all sockets are taken (EthernetServer.cpp:29-49).
Listening == In({ "CLOSED" }) = {} \/ \E s \in Sock : serverPort[s] /\ sr[s] = "LISTEN"

=============================================================================
