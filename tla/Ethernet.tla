------------------------------ MODULE Ethernet -------------------------------
(***************************************************************************)
(* The Ethernet library: the DHCP client, the DNS client, the data path of *)
(* a socket and the sharing of the sockets.  The four share no state of    *)
(* the model: a behaviour of the library is one of each of them.           *)
(***************************************************************************)
EXTENDS Dhcp, Dns, W5100, Sockets

netVars == << dhcpVars, dnsVars, w5100Vars, socketsVars >>

ClientsSpec == DhcpSpec /\ DnsSpec /\ SocketsSpec

\* The chip answers only to an address that a server has acknowledged, and a
\* lease is renewed in time (Dhcp.cpp:282, :397-418); a lookup that succeeds
\* returns the address of its own name, though 16 bits and a port tell its
\* answer from those to earlier ones (Dns.cpp:170, :268), or none if the answer
\* was cut short; and no socket of the chip is lost, whoever gives it up and
\* whatever its peer does meanwhile, but for those that a refused connect() left
\* open (EthernetClient.cpp:42-70, EthernetServer.cpp:29-49).
ClientsAreSound == ChipUsesAcked /\ RenewalNotMissed /\ ResultIsOwn /\ NoSocketLost

\* The rings of a socket hold what was accepted and not sent, and what arrived
\* and was not read, through wraps and torn sizes, and reading keeps in step
\* with the datagrams (w5100.cpp:50-114, EthernetUdp.cpp:118-150).
SocketsAreSound == TxIsAccepted /\ RxIsUnread /\ InFrame

=============================================================================
