--------------------------- MODULE SoftwareSerial ---------------------------
(***************************************************************************)
(* Ports made of two pins and the processor's time (SoftwareSerial.cpp).   *)
(* All ports share one ring, and one of them at most listens.              *)
(*                                                                         *)
(* Time is counted in bits.  A peer may start a byte on an idle line at    *)
(* any bit; a change on a line whose pin is unmasked sets the flag of the  *)
(* pin change interrupt, which is served when interrupts are on and no     *)
(* handler runs.  The handler stays until the stop bit.                    *)
(***************************************************************************)
EXTENDS Integers, Sequences

CONSTANTS
  Ports, NoPort,
  Bytes,            \* what peers send, each a sequence of bits
  Bits,             \* bits of a byte: 8
  _SS_MAX_RX_BUFF

ASSUME SoftwareSerialAssumption ==
  /\ NoPort \notin Ports /\ Bits \in Nat \ {0}
  /\ Bytes # {} /\ Bytes \subseteq [1 .. Bits -> { 0, 1 }]
  /\ _SS_MAX_RX_BUFF \in Nat \ {0, 1}

VARIABLES
  line,             \* the byte on each line, and how far it is: 0 is idle, 1 the
                    \* start bit, 2 .. Bits + 1 the data, Bits + 2 the stop bit
  pcint,            \* the interrupt flag
  masked,           \* is the pin of a port masked
  active_object,
  ring, head, tail, \* _receive_buffer and its indices
  overflow,         \* _buffer_overflow of the port that listens
  sketch,           \* "run", or how far listen() is
  inHand,           \* inside read(): the byte it has fetched
  target,           \* the port it is called for
  sending,          \* bits that write() has still to send, interrupts off
  recv,             \* "none", "bits", "stop"
  d,                \* the bits recv() has sampled
  clean,            \* it started in the start bit
  awaited,          \* a byte started while the port listened, and is not stored yet
  due               \* the bytes the sketch should read next

hardware  == << line, pcint >>
ringVars  == << ring, head, tail >>
softVars  == << hardware, masked, active_object, ringVars, overflow, sketch, inHand,
                target, sending, recv, d, clean, awaited, due >>

Level(l) == CASE l.pos = 1 -> 0
              [] l.pos \in 2 .. Bits + 1 -> l.byte[l.pos - 1]
              [] OTHER -> 1

Quiescent == [byte |-> CHOOSE b \in Bytes : TRUE, pos |-> 0]

\* A byte may start on an idle line, or right after a stop bit.
Following(l) ==
  IF l.pos \in 1 .. Bits + 1 THEN { [l EXCEPT !.pos = @ + 1] }
  ELSE { Quiescent } \cup [byte : Bytes, pos : { 1 }]

\* A byte that the port has to hear: the sketch has it listen, interrupts are on
\* and recv() is not busy with an earlier one.
MustHear == /\ sketch = "run" /\ active_object # NoPort /\ recv = "none"
            /\ sending <= 1 /\ line'[active_object].pos = 1

\* A bit on every line.  Without a handler, an interrupt is served first.
BitTime ==
  /\ recv = "none" => ~pcint \/ sending > 0
  /\ recv \in { "bits", "stop" } => Len(d) < Bits + (IF recv = "stop" THEN 1 ELSE 0)
  /\ line' \in [Ports -> UNION { Following(line[p]) : p \in Ports }]
  /\ \A p \in Ports : line'[p] \in Following(line[p])
  /\ pcint' = (pcint \/ \E p \in Ports : ~masked[p] /\ Level(line'[p]) # Level(line[p]))
  /\ sending' = IF sending > 0 THEN sending - 1 ELSE 0
  /\ d' = IF recv = "none" THEN d ELSE Append(d, Level(line'[active_object]))
  /\ awaited' = (awaited \/ MustHear)
  /\ UNCHANGED << masked, active_object, ringVars, overflow, sketch, inHand, target,
                  recv, clean, due >>

(***************************************************************************)
(* The handler: recv() of the active object.                               *)
(***************************************************************************)
Interrupt ==
  /\ pcint /\ sending = 0 /\ recv = "none"
  /\ pcint' = FALSE
  /\ IF active_object # NoPort /\ Level(line[active_object]) = 0
     THEN /\ masked' = [masked EXCEPT ![active_object] = TRUE]
          /\ recv' = "bits" /\ clean' = (line[active_object].pos = 1)
     ELSE UNCHANGED << masked, recv, clean >>
  /\ UNCHANGED << line, active_object, ringVars, overflow, sketch, inHand, target,
                  sending, d, awaited, due >>

NextIndex(i) == (i + 1) % _SS_MAX_RX_BUFF
Full == NextIndex(tail) = head

\* What its peer sent, when recv() saw all of it.
Heard == IF clean THEN line[active_object].byte ELSE d

Store ==
  /\ recv = "bits" /\ Len(d) = Bits
  /\ IF Full
     THEN /\ overflow' = TRUE
          /\ UNCHANGED << ring, tail, due >>
     ELSE /\ ring' = [ring EXCEPT ![tail] = d] /\ tail' = NextIndex(tail)
          /\ due' = Append(due, Heard)
          /\ UNCHANGED overflow
  /\ recv' = "stop" /\ awaited' = (awaited /\ ~clean)
  /\ UNCHANGED << hardware, masked, active_object, head, sketch, inHand, target, sending,
                  d, clean >>

RecvReturns ==
  /\ recv = "stop" /\ Len(d) = Bits + 1
  /\ masked' = [masked EXCEPT ![active_object] = FALSE]
  /\ recv' = "none" /\ d' = << >> /\ clean' = FALSE
  /\ UNCHANGED << hardware, active_object, ringVars, overflow, sketch, inHand, target,
                  sending, awaited, due >>

(***************************************************************************)
(* The calls of the sketch.                                                *)
(***************************************************************************)
EmptyKeepsRing == due' = << >> /\ UNCHANGED ringVars
SketchRuns == recv = "none" /\ sending = 0
SketchCalls == SketchRuns /\ sketch = "run" /\ inHand = << >>
\* What the ring held, or read() has inHand from it, is of no more use.
Empty == head' = 0 /\ tail' = 0 /\ ring' = [i \in DOMAIN ring |-> << >>] /\ due' = << >>

\* listen() and begin(), which ends with it: nothing to do for the active port.
Listen(p) ==
  /\ SketchCalls /\ active_object # p
  /\ target' = p
  /\ sketch' = IF active_object = NoPort THEN "reset" ELSE "mask"
  /\ awaited' = FALSE
  /\ UNCHANGED << hardware, masked, active_object, ringVars, overflow, inHand, sending,
                  recv, d, clean, due >>

\* end(), which stops listening and listens to nothing else.
EndPort ==
  /\ SketchCalls /\ active_object # NoPort
  /\ target' = NoPort /\ sketch' = "mask"
  /\ awaited' = FALSE
  /\ UNCHANGED << hardware, masked, active_object, ringVars, overflow, inHand, sending,
                  recv, d, clean, due >>

StopListening ==
  /\ SketchRuns
  /\ \/ /\ sketch = "mask" /\ sketch' = "stop"
        /\ masked' = [masked EXCEPT ![active_object] = TRUE]
        /\ UNCHANGED active_object
     \/ /\ sketch = "stop" /\ sketch' = IF target = NoPort THEN "run" ELSE "reset"
        /\ active_object' = NoPort
        /\ UNCHANGED masked
  /\ UNCHANGED << hardware, ringVars, overflow, inHand, target, sending, recv, d, clean,
                  awaited, due >>

Reset ==
  /\ SketchRuns /\ sketch = "reset" /\ sketch' = "activate"
  /\ overflow' = FALSE
  /\ Empty
  /\ UNCHANGED << hardware, masked, active_object, inHand, target, sending, recv, d,
                  clean, awaited >>

StartListening ==
  /\ SketchRuns
  /\ \/ /\ sketch = "activate" /\ sketch' = "unmask"
        /\ active_object' = target
        /\ UNCHANGED << masked, target >>
     \/ /\ sketch = "unmask" /\ sketch' = "run"
        /\ masked' = [masked EXCEPT ![active_object] = FALSE]
        /\ target' = NoPort /\ UNCHANGED active_object
  /\ UNCHANGED << hardware, ringVars, overflow, inHand, sending, recv, d, clean, awaited,
                  due >>

\* read() fetches the byte first, then frees its place: recv() may run between.
Read ==
  /\ SketchCalls /\ active_object # NoPort /\ head # tail
  /\ inHand' = ring[head]
  /\ UNCHANGED << hardware, masked, active_object, ringVars, overflow, sketch, target,
                  sending, recv, d, clean, awaited, due >>

ReadAdvances ==
  /\ SketchRuns /\ inHand # << >>
  /\ head' = NextIndex(head) /\ due' = Tail(due) /\ ring' = [ring EXCEPT ![head] = << >>]
  /\ inHand' = << >>
  /\ UNCHANGED << hardware, masked, active_object, tail, overflow, sketch, target, sending,
                  recv, d, clean, awaited >>

\* Between cli and the restored SREG.
Flush ==
  /\ SketchCalls /\ active_object # NoPort /\ head # tail
  /\ Empty
  /\ UNCHANGED << hardware, masked, active_object, overflow, sketch, inHand, target,
                  sending, recv, d, clean, awaited >>

\* The start bit and the data; interrupts are on again in the stop bit.
WriteByte ==
  /\ SketchCalls /\ ~pcint
  /\ sending' = Bits + 1
  /\ UNCHANGED << hardware, masked, active_object, ringVars, overflow, sketch, inHand,
                  target, recv, d, clean, awaited, due >>

(***************************************************************************)
(* Specification and properties.                                           *)
(***************************************************************************)
SoftInit ==
  /\ line = [p \in Ports |-> Quiescent] /\ pcint = FALSE
  /\ masked = [p \in Ports |-> TRUE] /\ active_object = NoPort
  /\ ring = [i \in 0 .. _SS_MAX_RX_BUFF - 1 |-> << >>] /\ head = 0 /\ tail = 0
  /\ overflow = FALSE
  /\ sketch = "run" /\ inHand = << >> /\ target = NoPort /\ sending = 0
  /\ recv = "none" /\ d = << >> /\ clean = FALSE /\ awaited = FALSE /\ due = << >>

SoftNext ==
  \/ BitTime \/ Interrupt \/ Store \/ RecvReturns
  \/ \E p \in Ports : Listen(p)
  \/ EndPort \/ StopListening \/ Reset \/ StartListening \/ Read \/ ReadAdvances
  \/ Flush \/ WriteByte

SoftSpec == SoftInit /\ [][SoftNext]_softVars

SoftTypeOK ==
  /\ line \in [Ports -> [byte : Bytes, pos : 0 .. Bits + 2]]
  /\ masked \in [Ports -> BOOLEAN] /\ overflow \in BOOLEAN
  /\ { active_object, target } \subseteq Ports \cup { NoPort }
  /\ { head, tail } \subseteq DOMAIN ring /\ sending \in 0 .. Bits + 1
  /\ recv \in { "none", "bits", "stop" } /\ Len(d) <= Bits + 1

Content == [i \in 1 .. (tail + _SS_MAX_RX_BUFF - head) % _SS_MAX_RX_BUFF |->
              ring[(head + i - 1) % _SS_MAX_RX_BUFF]]

\* The sketch reads what the peer of the listening port has sent since it
\* listens, in order, bit by bit as it was sent whenever the handler was there
\* for the start bit; never a byte of another port, though they share the ring,
\* and never one that recv() has put in its place while read() was at work
\* (SoftwareSerial.cpp:85-104, :121-189, :393-403).
SoftRxFifo ==
  /\ sketch = "run" /\ active_object # NoPort => Content = due
  /\ inHand # << >> => due # << >> /\ inHand = Head(due)

\* The port that listens is never left deaf: outside the handler and listen()
\* its pin is unmasked (SoftwareSerial.cpp:149, :187).
ListenerHears == sketch = "run" /\ recv = "none" /\ active_object # NoPort => ~masked[active_object]

\* A byte whose start bit comes while the port listens, interrupts are on and
\* recv() is not at an earlier byte is in the ring, or counted as an overflow,
\* before its stop bit comes; also when it follows right on the stop bit of
\* the one before (SoftwareSerial.cpp:121-189).
HearsEveryByte ==
  awaited => active_object # NoPort /\ line[active_object].pos \in 1 .. Bits + 1

\* A software port hears every byte that is sent while it listens, hands them
\* out in order, and never those of another port (SoftwareSerial.cpp:85-187).
SoftPortHears == SoftRxFifo /\ ListenerHears /\ HearsEveryByte

=============================================================================
