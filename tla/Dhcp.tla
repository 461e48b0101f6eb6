-------------------------------- MODULE Dhcp --------------------------------
(***************************************************************************)
(* The DHCP client of the Ethernet library: DhcpClass, and the two calls   *)
(* of EthernetClass that use it, begin and maintain.                       *)
(*                                                                         *)
(* A call to request_DHCP_lease is a session.  Inside one the client sends *)
(* and waits (dhcpPc); the network delivers what servers sent, late, twice *)
(* or never, and time passes.  Time is counted in parts of a second,       *)
(* Second of them, and only as differences: the code compares nothing else.*)
(***************************************************************************)
EXTENDS Integers, FiniteSets

CONSTANTS
  Servers,          \* each leases out one address, which bears its name
  NoIp,             \* 0.0.0.0
  FirstXids,        \* what random() may return
  Grants,           \* the times servers send, in seconds: lease, T1, T2, and
                    \* 0 for an option left out
  Second,           \* ticks of the clock in a second
  ResponseTimeout, SessionTimeout,  \* _responseTimeout, _timeout, in ticks
  CheckEvery,       \* bound: the sketch calls maintain() this often, in ticks
  MaxXid,           \* bound: servers refuse no more once this is reached
  MaxNet            \* bound: answers on their way

ASSUME DhcpAssumption ==
  /\ NoIp \notin Servers
  /\ FirstXids \subseteq Nat /\ FirstXids # {}
  /\ Grants \subseteq [lease : Nat, t1 : Nat, t2 : Nat]
  /\ \A g \in Grants : g.lease >= 2
  /\ Second \in Nat \ {0}
  /\ { ResponseTimeout, SessionTimeout, CheckEvery, MaxXid, MaxNet } \subseteq Nat

VARIABLES
  dhcpState,        \* _dhcp_state
  xid, firstXid,    \* _dhcpTransactionId, _dhcpInitialTransactionId
  localIp,          \* _dhcpLocalIp
  serverId,         \* _dhcpDhcpServerIp
  leaseTime, t1, t2,    \* _dhcpLeaseTime, _dhcpT1, _dhcpT2
  renewIn, rebindIn,    \* _renewInSec, _rebindInSec
  sinceCheck,       \* millis() - _lastCheckLeaseMillis
  dhcpPc,           \* "idle", or where in a session the client is
  caller,           \* which call the session belongs to
  elapsed, waited,  \* time since the session, and since the wait, began
  net,              \* answers sent and not yet lost
  chipIp,           \* the address the W5100 answers to
  acked,            \* the address of the last acknowledgement received
  age               \* ticks since then, while the lease is thought good

dhcpLease == << localIp, serverId, leaseTime, t1, t2, renewIn, rebindIn >>
dhcpVars  == << dhcpState, xid, firstXid, dhcpLease, sinceCheck, dhcpPc, caller,
                elapsed, waited, net, chipIp, acked, age >>

Addresses == Servers \cup { NoIp }

Answer == [type : { "OFFER", "ACK", "NAK" }, xid : Nat, ip : Addresses,
          server : Servers, grant : Grants]

(***************************************************************************)
(* Servers and the network.                                                *)
(***************************************************************************)

\* What server s may answer to a discovery, and to a request for address ip
\* that names server id: it serves only its own address, and may refuse.
Offers(s, x) == [type : { "OFFER" }, xid : { x }, ip : { s }, server : { s }, grant : Grants]
Acks(s, x, ip, id) ==
  IF s = id /\ s = ip THEN [type : { "ACK" }, xid : { x }, ip : { s }, server : { s }, grant : Grants]
                      ELSE {}
Naks(s, x, id) ==
  IF s = id /\ x < MaxXid
  THEN [type : { "NAK" }, xid : { x }, ip : { NoIp }, server : { s }, grant : Grants]
  ELSE {}

\* Some of the servers get the message and answer it with one of answers[s];
\* some of the answers that were on their way are lost.
Answered(answers) ==
  \E R \in SUBSET { s \in Servers : answers[s] # {} }, kept \in SUBSET net :
    \E a \in [R -> UNION { answers[s] : s \in R }] :
      /\ \A s \in R : a[s] \in answers[s]
      /\ net' = kept \cup { a[s] : s \in R }
      /\ Cardinality(net') <= MaxNet

Discover(x) == Answered([s \in Servers |-> Offers(s, x)])
Request(x, ip, id) == Answered([s \in Servers |-> Acks(s, x, ip, id) \cup Naks(s, x, id)])

Lose ==
  /\ \E m \in net : net' = net \ { m }
  /\ UNCHANGED << dhcpState, xid, firstXid, dhcpLease, sinceCheck, dhcpPc, caller,
                  elapsed, waited, chipIp, acked, age >>

(***************************************************************************)
(* A session: request_DHCP_lease.                                          *)
(***************************************************************************)

\* Until the socket is open; without a free one the session is over at once.
StartSession(who) ==
  /\ caller' = who /\ elapsed' = 0 /\ waited' = 0
  /\ firstXid' \in FirstXids /\ xid' = firstXid'
  /\ dhcpPc' \in { "loop", "noSocket" }

\* The end of the loop: the lease is there, the time is over, or once more.
LoopEnd(state) ==
  /\ dhcpState' = state
  /\ dhcpPc' = IF state = "LEASED" \/ elapsed > SessionTimeout THEN "end" ELSE "loop"

SendDiscover ==
  /\ dhcpPc = "loop" /\ dhcpState = "START"
  /\ xid' = xid + 1
  /\ Discover(xid')
  /\ LoopEnd("DISCOVER")
  /\ UNCHANGED << acked, firstXid, dhcpLease, sinceCheck, caller, elapsed, waited, chipIp, age >>

SendRenewal ==
  /\ dhcpPc = "loop" /\ dhcpState = "REREQUEST"
  /\ xid' = xid + 1
  /\ Request(xid', localIp, serverId)
  /\ LoopEnd("REQUEST")
  /\ UNCHANGED << acked, firstXid, dhcpLease, sinceCheck, caller, elapsed, waited, chipIp, age >>

WaitsLonger ==
  /\ dhcpPc = "loop" /\ dhcpState \in { "DISCOVER", "REQUEST" }
  /\ dhcpPc' = "wait" /\ waited' = 0
  /\ UNCHANGED << dhcpState, xid, firstXid, dhcpLease, sinceCheck, caller, elapsed, net,
                  chipIp, acked, age >>

ResponseTimesOut ==
  /\ dhcpPc = "wait" /\ waited > ResponseTimeout
  /\ LoopEnd("START")
  /\ UNCHANGED << xid, firstXid, dhcpLease, sinceCheck, caller, elapsed, waited, net,
                  chipIp, acked, age >>

\* A datagram that is not a reply, not for this client or of another session.
NotOurs(m) == m.xid < firstXid \/ m.xid > xid

Given(new, old) == IF new # 0 THEN new ELSE old
OrZero(x, default) == IF x = 0 THEN default ELSE x

\* What parseDHCPResponse takes over from a reply, whatever its type.
KeepAddress(m) ==
  /\ localIp' = m.ip
  /\ serverId' = IF serverId \in { NoIp, m.server } THEN m.server ELSE serverId

KeepTimes(m) ==
  /\ leaseTime' = Given(m.grant.lease, leaseTime)
  /\ t1' = Given(m.grant.t1, t1) /\ t2' = Given(m.grant.t2, t2)
  /\ renewIn' = Given(m.grant.lease, renewIn)
  /\ UNCHANGED << rebindIn, age >>

\* The lease begins; what the server left out is computed.
Bind(m) ==
  /\ leaseTime' = Given(m.grant.lease, leaseTime)
  /\ t1' = OrZero(Given(m.grant.t1, t1), leaseTime' \div 2)
  /\ t2' = OrZero(Given(m.grant.t2, t2), leaseTime' - leaseTime' \div 8)
  /\ renewIn' = t1' /\ rebindIn' = t2'
  /\ age' = 0

ReceiveForeign(m) ==
  /\ NotOurs(m)
  /\ LoopEnd(dhcpState)
  /\ UNCHANGED << xid, dhcpLease, net, acked, age >>

ReceiveOffer(m) ==
  /\ ~NotOurs(m) /\ dhcpState = "DISCOVER" /\ m.type = "OFFER"
  /\ KeepAddress(m) /\ KeepTimes(m)
  /\ xid' = m.xid
  /\ Request(xid', localIp', serverId')
  /\ LoopEnd("REQUEST")
  /\ UNCHANGED acked

ReceiveAck(m) ==
  /\ ~NotOurs(m) /\ dhcpState = "REQUEST" /\ m.type = "ACK"
  /\ KeepAddress(m) /\ Bind(m)
  /\ acked' = m.ip
  /\ LoopEnd("LEASED")
  /\ UNCHANGED << xid, net >>

ReceiveNak(m) ==
  /\ ~NotOurs(m) /\ dhcpState = "REQUEST" /\ m.type = "NAK"
  /\ xid < MaxXid
  /\ KeepAddress(m) /\ KeepTimes(m)
  /\ LoopEnd("START")
  /\ UNCHANGED << xid, net, acked >>

\* Of a type that the state does not wait for.
ReceiveUnexpected(m) ==
  /\ ~NotOurs(m)
  /\ \/ dhcpState = "DISCOVER" /\ m.type # "OFFER"
     \/ dhcpState = "REQUEST" /\ m.type = "OFFER"
  /\ KeepAddress(m) /\ KeepTimes(m)
  /\ LoopEnd(dhcpState)
  /\ UNCHANGED << xid, net, acked >>

Receive ==
  /\ dhcpPc = "wait"
  /\ \E m \in net : \/ ReceiveForeign(m) \/ ReceiveOffer(m) \/ ReceiveAck(m)
                    \/ ReceiveNak(m) \/ ReceiveUnexpected(m)
  /\ UNCHANGED << firstXid, sinceCheck, caller, elapsed, waited, chipIp >>

(***************************************************************************)
(* The calls of the sketch.                                                *)
(***************************************************************************)

Begin ==
  /\ dhcpPc = "idle"
  /\ chipIp' = NoIp
  /\ leaseTime' = 0 /\ t1' = 0 /\ t2' = 0 /\ localIp' = NoIp /\ serverId' = NoIp
  /\ dhcpState' = "START"
  /\ StartSession("begin")
  /\ age' = 0
  /\ UNCHANGED << renewIn, rebindIn, sinceCheck, net, acked >>

\* Mutant: nothing is rounded to zero.
CountDownUnderflow(counter, secs) == counter - secs

\* The seconds a counter has left after secs of them passed.
CountDown(counter, secs) == IF counter < secs * 2 THEN 0 ELSE counter - secs

\* reset_DHCP_lease and a new start.
Rebind ==
  /\ dhcpState' = "START"
  /\ localIp' = NoIp /\ serverId' = NoIp
  /\ StartSession("rebind")
  /\ UNCHANGED << leaseTime, t1, t2 >>

\* What is left of a second counts at the next call; mutant: it is forgotten.
RemainderForgotten == 0
Remainder == sinceCheck % Second

CheckLease ==
  /\ dhcpPc = "idle"
  /\ LET secs == sinceCheck \div Second IN
       /\ renewIn' = IF secs > 0 THEN CountDown(renewIn, secs) ELSE renewIn
       /\ rebindIn' = IF secs > 0 THEN CountDown(rebindIn, secs) ELSE rebindIn
  /\ sinceCheck' = Remainder
  /\ \/ /\ renewIn' = 0 /\ dhcpState = "LEASED"
        /\ dhcpState' = "REREQUEST"
        /\ StartSession("renew")
        /\ age' = 0
        /\ UNCHANGED << localIp, serverId, leaseTime, t1, t2 >>
     \/ /\ ~(renewIn' = 0 /\ dhcpState = "LEASED")
        /\ rebindIn' = 0 /\ dhcpState \in { "LEASED", "START" }
        /\ Rebind /\ age' = 0
     \/ /\ ~(renewIn' = 0 /\ dhcpState = "LEASED")
        /\ ~(rebindIn' = 0 /\ dhcpState \in { "LEASED", "START" })
        /\ UNCHANGED << dhcpState, xid, firstXid, dhcpPc, caller, elapsed, waited,
                        localIp, serverId, leaseTime, t1, t2, age >>
  /\ UNCHANGED << net, chipIp, acked >>

\* The session returns; a failed renewal may be followed by a rebind at once.
SessionReturns ==
  /\ dhcpPc \in { "end", "noSocket" }
  /\ sinceCheck' = IF dhcpPc = "end" THEN 0 ELSE sinceCheck
  /\ chipIp' = IF dhcpState = "LEASED" THEN localIp ELSE chipIp
  /\ \/ /\ caller = "renew" /\ rebindIn = 0 /\ dhcpState \in { "LEASED", "START" }
        /\ Rebind
        /\ UNCHANGED << renewIn, rebindIn >>
     \/ /\ ~(caller = "renew" /\ rebindIn = 0 /\ dhcpState \in { "LEASED", "START" })
        /\ dhcpPc' = "idle"
        /\ caller' = "none" /\ elapsed' = 0 /\ waited' = 0
        /\ xid' = firstXid      \* no one looks at it before the next session
        /\ UNCHANGED << dhcpState, firstXid, dhcpLease >>
  /\ UNCHANGED << net, acked, age >>

(***************************************************************************)
(* Time.  Age stops counting when no lease lasts any longer.               *)
(***************************************************************************)
MaxAge == Second * (1 + CHOOSE k \in { g.lease : g \in Grants } : \A g \in Grants : g.lease <= k)

DhcpTick ==
  /\ \/ /\ dhcpPc = "idle" /\ sinceCheck < CheckEvery
        /\ sinceCheck' = sinceCheck + 1
        /\ UNCHANGED << elapsed, waited >>
     \/ /\ dhcpPc = "wait" /\ waited <= ResponseTimeout
        /\ elapsed' = (IF elapsed <= SessionTimeout THEN elapsed + 1 ELSE elapsed)
        /\ waited' = waited + 1
        /\ UNCHANGED sinceCheck
  /\ age' = IF dhcpState = "LEASED" /\ age < MaxAge THEN age + 1 ELSE age
  /\ UNCHANGED << dhcpState, xid, firstXid, dhcpLease, dhcpPc, caller, net, chipIp, acked >>

(***************************************************************************)
(* Specification.                                                          *)
(***************************************************************************)
DhcpInit ==
  /\ dhcpState = "START"
  /\ firstXid = CHOOSE x \in FirstXids : TRUE
  /\ xid = firstXid
  /\ localIp = NoIp /\ serverId = NoIp /\ chipIp = NoIp
  /\ leaseTime = 0 /\ t1 = 0 /\ t2 = 0 /\ renewIn = 0 /\ rebindIn = 0
  /\ sinceCheck = 0 /\ elapsed = 0 /\ waited = 0 /\ age = 0
  /\ dhcpPc = "idle" /\ caller = "none"
  /\ net = {} /\ acked = NoIp

Session == SendDiscover \/ SendRenewal \/ WaitsLonger \/ ResponseTimesOut \/ Receive \/ SessionReturns
DhcpNext == Begin \/ CheckLease \/ Session \/ DhcpTick \/ Lose

\* The processor runs, a tick comes although datagrams do, and the sketch
\* goes on calling maintain().
DhcpFairness == WF_dhcpVars(Session) /\ SF_dhcpVars(DhcpTick) /\ WF_dhcpVars(CheckLease)

DhcpSpec == DhcpInit /\ [][DhcpNext]_dhcpVars /\ DhcpFairness

DhcpTypeOK ==
  /\ dhcpState \in { "START", "DISCOVER", "REQUEST", "LEASED", "REREQUEST" }
  /\ dhcpPc \in { "idle", "loop", "wait", "end", "noSocket" }
  /\ caller \in { "none", "begin", "renew", "rebind" }
  /\ { localIp, serverId, chipIp } \subseteq Addresses /\ acked \in Addresses
  /\ { xid, firstXid, leaseTime, t1, t2, renewIn, rebindIn, sinceCheck, elapsed, waited, age }
       \subseteq Nat
  /\ net \subseteq Answer

(***************************************************************************)
(* Properties.                                                             *)
(***************************************************************************)

\* Between the calls the chip answers to no address or to the one last
\* acknowledged, whatever offers, refusals and late answers of two servers
\* wrote into _dhcpLocalIp meanwhile (Dhcp.cpp:282, Ethernet.cpp:77-102).
ChipUsesAcked == caller = "none" => chipIp \in { NoIp, acked }

\* The counters do not fall behind the clock: while the client thinks its
\* lease is good and need not be renewed, less than T1 had passed when it
\* last looked, for every rhythm of the calls (Dhcp.cpp:397-418).
RenewalNotMissed ==
  dhcpState = "LEASED" /\ dhcpPc = "idle" => age - sinceCheck < t1 * Second

\* A session ends, also if datagrams of any kind come in all the time and
\* none is the one it waits for (Dhcp.cpp:119).
SessionEnds == []<>(dhcpPc = "idle")

\* After a failure the client tries again, as the comment at Ethernet.cpp:97
\* says ("it will retry though").
FailureIsRetried == dhcpState # "LEASED" /\ caller = "none" ~> caller # "none"

=============================================================================
