------------------------------ MODULE ByteFifo ------------------------------
(***************************************************************************)
(* What a serial buffer promises its two ends, whoever they are: a bounded *)
(* first-in first-out queue of bytes.  The receive and transmit paths of   *)
(* HardwareSerial are shown to implement it; neither the ring, its         *)
(* two indices nor the interrupt handlers appear here.                     *)
(***************************************************************************)
EXTENDS Naturals, Sequences

CONSTANTS
  Byte,   \* the values a byte is drawn from
  Cap     \* how many bytes the queue holds

VARIABLE q

Init == q = << >>

Put(b) ==
  /\ Len(q) < Cap
  /\ q' = Append(q, b)

Get ==
  /\ q # << >>
  /\ q' = Tail(q)

Clear == q' = << >>

(* A queue nobody may empty except by taking its bytes one by one. *)
Lossless == Init /\ [][Get \/ \E b \in Byte : Put(b)]_q

(* A queue whose owner may also throw everything away. *)
Clearable == Init /\ [][Get \/ Clear \/ \E b \in Byte : Put(b)]_q

=============================================================================
