--------------------------------- MODULE Dns ---------------------------------
(***************************************************************************)
(* The DNS client of the Ethernet library: DNSClient::getHostByName.       *)
(*                                                                         *)
(* The server and the network are external: a question is answered at any  *)
(* time before the answer has grown Life ticks old, twice, or never, whole *)
(* or cut short, and other hosts may send to the port too.  The number and *)
(* the port of a question are taken from millis(), whose clock wraps here  *)
(* at IdMod; a lookup takes at least a tick, and reading an answer none.   *)
(*                                                                         *)
(* The name of the question is one label here, and the code reads it label *)
(* by label without asking whether there was one to read.                  *)
(***************************************************************************)
EXTENDS Integers, FiniteSets, Sequences

CONSTANTS
  Names, NoName,
  IdMod,            \* 65536: iRequestId has 16 bits
  PortMod,          \* the ports differ by the low bits of millis()
  Life,             \* ticks after which the network has lost an answer
  DnsTimeout,       \* a wait, in ticks
  Waits,            \* how often getHostByName waits
  MaxAnswers        \* bound: answers on their way

ASSUME DnsAssumption ==
  /\ NoName \notin Names
  /\ IdMod \in Nat \ {0} /\ PortMod \in 1 .. IdMod /\ Waits \in Nat \ {0}
  /\ Life \in 0 .. IdMod - 1 /\ { DnsTimeout, MaxAnswers } \subseteq Nat

VARIABLES
  dnsPc,            \* "idle", "sending", "waiting", "question", "answer"
  ms,               \* millis()
  requestId, localPort,
  asked,            \* the name looked up
  waits,            \* wait_retries
  waiting,          \* ticks since this wait began
  answers,          \* on their way to us
  reply,            \* the one being read: what is left, how many records it promises,
                    \* and its name
  labelLen,         \* len is not 0
  result            \* what the last lookup returned, whose address, and whether the
                    \* answer it read was cut short

replyVars == << reply, labelLen >>
dnsVars == << dnsPc, ms, requestId, localPort, asked, waits, waiting, answers, replyVars, result >>

\* The records of an answer: an address, an address record of the wrong size,
\* or a record of another type.
Records == { << >>, << "other" >>, << "other", "A" >>, << "A" >>, << "odd", "A" >> }
Unread(records) ==
  << "label", "end" >> \o [i \in 1 .. 2 * Len(records) |-> IF i % 2 = 1 THEN records[(i + 1) \div 2] ELSE "data"]
Codes == { 0, 1, -1, -2, -3, -4, -5, -6, -9, -10 }

NothingLeft == [body |-> << >>, count |-> 0, name |-> NoName]

Returns(code, name) ==
  /\ result' = [code |-> code, name |-> IF code = 1 THEN name ELSE NoName, cut |-> result.cut]
  /\ dnsPc' = "idle"

NoResult == [code |-> 0, name |-> NoName, cut |-> FALSE]

\* A client of its own, begin(); and a name that is an address, no server known,
\* or no socket free.
Lookup(name) ==
  /\ dnsPc = "idle" /\ asked' = name
  /\ \/ /\ dnsPc' = "idle"
        /\ result' \in { NoResult, [NoResult EXCEPT !.code = -2], [NoResult EXCEPT !.code = 1, !.name = name] }
     \/ dnsPc' = "sending" /\ result' = NoResult
  /\ requestId' = 0 /\ localPort' = ms % PortMod
  /\ UNCHANGED << ms, waits, waiting, answers, replyVars >>

ServerAnswers(name) == [id |-> ms, port |-> localPort, name |-> name, age |-> 0]

\* The request leaves and the server answers or not; or the chip gives up.
SendRequest ==
  /\ dnsPc = "sending"
  /\ requestId' = ms
  /\ waits' = 0 /\ waiting' = 0
  /\ \/ /\ \/ answers' = answers \cup { ServerAnswers(asked) } /\ Cardinality(answers') <= MaxAnswers
           \/ UNCHANGED answers
        /\ dnsPc' = "waiting" /\ UNCHANGED result
     \/ Returns(0, asked) /\ UNCHANGED answers
  /\ UNCHANGED << ms, localPort, asked, replyVars >>

IsOurs(answer) == answer.id = requestId

\* parsePacket() finds an answer, of which the network may deliver a copy later,
\* and its header is looked at.
ReceiveAnswer(answer) ==
  /\ dnsPc = "waiting" /\ answer.port = localPort
  /\ answers' \in { answers, answers \ { answer } }
  /\ UNCHANGED << ms, requestId, localPort, asked, waits, waiting >>

AnswerIsRefused(answer) ==
  /\ ReceiveAnswer(answer)
  /\ \/ ~IsOurs(answer) /\ Returns(-4, asked)
     \/ IsOurs(answer) /\ (Returns(-5, asked) \/ Returns(-6, asked))
  /\ UNCHANGED replyVars

\* len has no value yet.
ReadAnswer(answer) ==
  /\ ReceiveAnswer(answer) /\ IsOurs(answer)
  /\ \E records \in Records \ { << >> } : \E size \in 0 .. Len(Unread(records)) :
       /\ reply' = [body |-> SubSeq(Unread(records), 1, size), count |-> Len(records), name |-> answer.name]
       /\ result' = [result EXCEPT !.cut = size < Len(Unread(records))]
  /\ labelLen' \in BOOLEAN
  /\ dnsPc' = "question"

\* A length that could not be read is the old one, and a label leaves 255.
LengthRead == IF reply.body = << >> THEN labelLen ELSE Head(reply.body) = "label"

ReadLabel ==
  /\ dnsPc = "question"
  /\ labelLen' = LengthRead
  /\ reply' = [reply EXCEPT !.body = IF @ = << >> THEN @ ELSE Tail(@)]
  /\ dnsPc' = IF labelLen' THEN "question" ELSE "answer"
  /\ UNCHANGED << ms, requestId, localPort, asked, waits, waiting, answers, result >>

\* The first address decides, unless its size is odd.  A record that did not come
\* is whatever its variables held: an address of four bytes only if a length was
\* read before.  The address may not have come either.
ReadRecords ==
  /\ dnsPc = "answer"
  /\ LET came     == { i \in 1 .. reply.count : 2 * i - 1 <= Len(reply.body) }
         Kind(i)  == reply.body[2 * i - 1]
         decisive == { i \in came : Kind(i) # "other" }
         first    == CHOOSE i \in decisive : \A j \in decisive : i <= j
     IN \/ decisive = {} /\ Returns(-10, asked)
        \/ decisive = {} /\ came # 1 .. reply.count /\ Returns(-9, asked)
        \/ decisive = {} /\ came # 1 .. reply.count /\ came # {} /\ Returns(1, NoName)
        \/ /\ decisive # {}
           /\ IF Kind(first) = "odd" THEN Returns(-9, asked)
              ELSE Returns(1, IF 2 * first <= Len(reply.body) THEN reply.name ELSE NoName)
  /\ reply' = NothingLeft /\ labelLen' = FALSE
  /\ UNCHANGED << ms, requestId, localPort, asked, waits, waiting, answers >>

\* From another host, or too short to hold a header.
ReceiveStray ==
  /\ dnsPc = "waiting"
  /\ Returns(-2, asked) \/ Returns(-3, asked)
  /\ UNCHANGED << ms, requestId, localPort, asked, waits, waiting, answers, replyVars >>

WaitEnds ==
  /\ dnsPc = "waiting" /\ waiting > DnsTimeout
  /\ waits' = waits + 1 /\ waiting' = 0
  /\ IF waits' < Waits THEN UNCHANGED << dnsPc, result >> ELSE Returns(-1, asked)
  /\ UNCHANGED << ms, requestId, localPort, asked, answers, replyVars >>

\* An answer dies of age, at the latest, when its number comes up again.
DnsTick ==
  /\ dnsPc \notin { "question", "answer" } /\ (dnsPc = "waiting" => waiting <= DnsTimeout)
  /\ ms' = (ms + 1) % IdMod
  /\ waiting' = IF dnsPc = "waiting" THEN waiting + 1 ELSE 0
  /\ answers' = { [a EXCEPT !.age = a.age + 1] : a \in { b \in answers : b.age < Life } }
  /\ dnsPc' = dnsPc
  /\ UNCHANGED << requestId, localPort, asked, waits, replyVars, result >>

\* It takes time to send.
SendTakesTime == \A a \in answers : a.id # ms

DnsInit ==
  /\ dnsPc = "idle" /\ ms = 0 /\ requestId = 0 /\ localPort = 0
  /\ asked = NoName /\ waits = 0 /\ waiting = 0 /\ answers = {}
  /\ result = NoResult
  /\ reply = NothingLeft /\ labelLen = FALSE

DnsNext ==
  \/ \E name \in Names : Lookup(name)
  \/ SendTakesTime /\ SendRequest
  \/ \E a \in answers : AnswerIsRefused(a) \/ ReadAnswer(a)
  \/ ReadLabel \/ ReadRecords
  \/ ReceiveStray \/ WaitEnds \/ DnsTick

DnsSpec == DnsInit /\ [][DnsNext]_dnsVars
             /\ WF_dnsVars(SendTakesTime /\ SendRequest) /\ WF_dnsVars(WaitEnds) /\ WF_dnsVars(DnsTick)
             /\ WF_dnsVars(ReadLabel \/ ReadRecords)

(***************************************************************************)
(* Properties.                                                             *)
(***************************************************************************)
DnsTypeOK ==
  /\ dnsPc \in { "idle", "sending", "waiting", "question", "answer" }
  /\ ms \in 0 .. IdMod - 1 /\ requestId \in 0 .. IdMod - 1 /\ localPort \in 0 .. PortMod - 1
  /\ asked \in Names \cup { NoName } /\ waits \in 0 .. Waits /\ waiting \in 0 .. DnsTimeout + 1
  /\ answers \subseteq [id : 0 .. IdMod - 1, port : 0 .. PortMod - 1, name : Names, age : 0 .. Life]
  /\ labelLen \in BOOLEAN /\ reply.name \in Names \cup { NoName }
  /\ result \in [code : Codes, name : Names \cup { NoName }, cut : BOOLEAN]

\* A lookup that succeeds returns the address of the name it asked for, though
\* answers to earlier lookups still arrive and only 16 bits tell them apart
\* (Dns.cpp:177, :270) - or, without a word, no address, and only for an answer
\* that was cut short (:375, :389).
ResultIsOwn ==
  dnsPc = "idle" /\ result.code = 1 => result.name = asked \/ (result.name = NoName /\ result.cut)

\* Every lookup returns, for the waits are counted (Dns.cpp:139), unless its
\* answer was cut short before or in the name of the question (:296-312): the
\* length that could not be read stays what it was.
LookupReturns == []<>(dnsPc = "idle" \/ (dnsPc = "question" /\ result.cut /\ reply.body = << >>))

=============================================================================
