------------------------ MODULE HardwareSerialProofs ------------------------
(***************************************************************************)
(* Proofs about HardwareSerial for rings of any size and any set of bytes. *)
(***************************************************************************)
EXTENDS HardwareSerial, SequenceTheorems, TLAPS

-----------------------------------------------------------------------------
(* Sequences that agree element by element. *)

LEMMA AppendIs ==
  ASSUME NEW B, NEW s \in Seq(B), NEW t \in Seq(B), NEW b \in B,
         Len(t) = Len(s) + 1, t[Len(s) + 1] = b,
         \A k \in 1 .. Len(s) : t[k] = s[k]
  PROVE  t = Append(s, b)
<1>1. Append(s, b) \in Seq(B) /\ Len(Append(s, b)) = Len(t)
  BY AppendProperties
<1>2. ASSUME NEW k \in 1 .. Len(t) PROVE t[k] = Append(s, b)[k]
  BY AppendProperties
<1>. QED BY <1>1, <1>2, SeqEqual

LEMMA TailIs ==
  ASSUME NEW B, NEW s \in Seq(B), NEW t \in Seq(B), s # << >>,
         Len(t) = Len(s) - 1,
         \A k \in 1 .. Len(t) : t[k] = s[k + 1]
  PROVE  t = Tail(s)
<1>1. Tail(s) \in Seq(B) /\ Len(Tail(s)) = Len(t)
  BY HeadTailProperties
<1>2. ASSUME NEW k \in 1 .. Len(t) PROVE t[k] = Tail(s)[k]
  BY HeadTailProperties
<1>. QED BY <1>1, <1>2, SeqEqual

-----------------------------------------------------------------------------
(* Arithmetic of a ring. *)

LEMMA AdvanceInRing ==
  ASSUME NEW N \in Nat \ {0}, NEW x \in 0 .. N - 1
  PROVE  /\ Advance(x, N) \in 0 .. N - 1
         /\ Advance(x, N) = IF x + 1 = N THEN 0 ELSE x + 1
  BY DEF Advance

(* How many bytes lie between a tail and a head. *)
Count(tail, head, N) == (N + head - tail) % N

LEMMA CountInRing ==
  ASSUME NEW N \in Nat \ {0}, NEW tail \in 0 .. N - 1, NEW head \in 0 .. N - 1
  PROVE  /\ Count(tail, head, N) \in 0 .. N - 1
         /\ Count(tail, head, N) = IF head >= tail THEN head - tail
                                                   ELSE N + head - tail
  BY DEF Count

LEMMA SlotInRing ==
  ASSUME NEW N \in Nat \ {0}, NEW tail \in 0 .. N - 1, NEW k \in 1 .. N
  PROVE  /\ (tail + k - 1) % N \in 0 .. N - 1
         /\ (tail + k - 1) % N = IF tail + k - 1 < N THEN tail + k - 1
                                                     ELSE tail + k - 1 - N
  OBVIOUS

LEMMA FunIsSeq ==
  ASSUME NEW B, NEW m \in Nat, NEW f \in [1 .. m -> B]
  PROVE  f \in Seq(B) /\ Len(f) = m
  OBVIOUS

(* A ring of N bytes out of B, and its two indices. *)
IsRing(B, buf, tail, head, N) ==
  /\ N \in Nat \ {0}
  /\ buf \in [0 .. N - 1 -> B]
  /\ tail \in 0 .. N - 1
  /\ head \in 0 .. N - 1

LEMMA RingIsSeq ==
  ASSUME NEW B, NEW buf, NEW tail, NEW head, NEW N,
         IsRing(B, buf, tail, head, N)
  PROVE  /\ Ring(buf, tail, head, N) \in Seq(B)
         /\ Len(Ring(buf, tail, head, N)) = Count(tail, head, N)
         /\ \A k \in 1 .. Count(tail, head, N) :
              Ring(buf, tail, head, N)[k] = buf[(tail + k - 1) % N]
<1>. USE DEF IsRing
<1>. DEFINE m == Count(tail, head, N)
            r == Ring(buf, tail, head, N)
<1>1. m \in 0 .. N - 1
  BY CountInRing
<1>2. \A k \in 1 .. m : buf[(tail + k - 1) % N] \in B
  BY <1>1, SlotInRing
<1>3. /\ r = [k \in 1 .. m |-> buf[(tail + k - 1) % N]]
      /\ r \in [1 .. m -> B]
  BY <1>2 DEF Ring, Count
<1>. HIDE DEF m, r
<1>4. \A k \in 1 .. m : r[k] = buf[(tail + k - 1) % N]
  BY <1>3
<1>5. r \in Seq(B) /\ Len(r) = m
  <2>1. m \in Nat
    BY <1>1
  <2>. QED BY <2>1, <1>3, FunIsSeq
<1>. QED BY <1>4, <1>5 DEF m, r

(* Storing at the head of a ring that is not full appends one byte.        *)
LEMMA RingStore ==
  ASSUME NEW B, NEW buf, NEW tail, NEW head, NEW N,
         IsRing(B, buf, tail, head, N), NEW b \in B,
         Advance(head, N) # tail
  PROVE  /\ Ring([buf EXCEPT ![head] = b], tail, Advance(head, N), N)
              = Append(Ring(buf, tail, head, N), b)
         /\ Len(Ring(buf, tail, head, N)) < N - 1
<1>. DEFINE new == [buf EXCEPT ![head] = b]
            next == Advance(head, N)
            m == Count(tail, head, N)
<1>0. /\ N \in Nat \ {0}
      /\ buf \in [0 .. N - 1 -> B]
      /\ tail \in 0 .. N - 1
      /\ head \in 0 .. N - 1
  BY DEF IsRing
<1>1. /\ next \in 0 .. N - 1 /\ next # tail
      /\ next = IF head + 1 = N THEN 0 ELSE head + 1
  BY <1>0, AdvanceInRing
<1>2. m \in 0 .. N - 1 /\ m = IF head >= tail THEN head - tail
                                              ELSE N + head - tail
  BY <1>0, CountInRing
<1>3. Count(tail, next, N) = m + 1 /\ m < N - 1
  <2>1. Count(tail, next, N) = IF next >= tail THEN next - tail
                                               ELSE N + next - tail
    BY <1>0, <1>1, CountInRing
  <2>. HIDE DEF m, next
  <2>. QED BY <1>0, <1>1, <1>2, <2>1
<1>4. new \in [0 .. N - 1 -> B]
  BY <1>0
<1>5. \A k \in 1 .. m : new[(tail + k - 1) % N] = buf[(tail + k - 1) % N]
  <2>. SUFFICES ASSUME NEW k \in 1 .. m
                PROVE  new[(tail + k - 1) % N] = buf[(tail + k - 1) % N]
    OBVIOUS
  <2>1. (tail + k - 1) % N = IF tail + k - 1 < N THEN tail + k - 1
                                                 ELSE tail + k - 1 - N
    BY <1>0, <1>2, SlotInRing
  <2>2. (tail + k - 1) % N # head
    <3>. HIDE DEF m, next
    <3>. QED BY <1>0, <1>2, <1>3, <2>1
  <2>. QED BY <2>2
<1>6. new[(tail + (m + 1) - 1) % N] = b
  <2>1. (tail + (m + 1) - 1) % N = head
    <3>1. m + 1 \in 1 .. N
      BY <1>0, <1>2, <1>3
    <3>2. (tail + (m + 1) - 1) % N = IF tail + (m + 1) - 1 < N
              THEN tail + (m + 1) - 1 ELSE tail + (m + 1) - 1 - N
      BY <1>0, <3>1, SlotInRing
    <3>. HIDE DEF m, next
    <3>. QED BY <1>0, <1>2, <3>2
  <2>2. new[head] = b
    BY <1>0
  <2>. QED BY <2>1, <2>2
<1>. DEFINE s == Ring(buf, tail, head, N)
            t == Ring(new, tail, next, N)
<1>7. /\ s \in Seq(B) /\ Len(s) = m
      /\ \A k \in 1 .. m : s[k] = buf[(tail + k - 1) % N]
  BY RingIsSeq
<1>8. /\ t \in Seq(B) /\ Len(t) = m + 1
      /\ \A k \in 1 .. m + 1 : t[k] = new[(tail + k - 1) % N]
  <2>. HIDE DEF new, next
  <2>1. /\ t \in Seq(B) /\ Len(t) = Count(tail, next, N)
        /\ \A k \in 1 .. Count(tail, next, N) : t[k] = new[(tail + k - 1) % N]
    <3>1. IsRing(B, new, tail, next, N)
      BY <1>0, <1>1, <1>4 DEF IsRing
    <3>. QED BY <3>1, RingIsSeq
  <2>. QED BY <1>0, <1>3, <2>1
<1>. HIDE DEF m, new, next, s, t
<1>9. m \in Nat
  BY <1>0, <1>2
<1>10. t[m + 1] = b /\ \A k \in 1 .. m : t[k] = s[k]
  <2>1. m + 1 \in 1 .. m + 1 /\ \A k \in 1 .. m : k \in 1 .. m + 1
    BY <1>9
  <2>2. t[m + 1] = new[(tail + (m + 1) - 1) % N]
    BY <2>1, <1>8
  <2>3. ASSUME NEW k \in 1 .. m PROVE t[k] = s[k]
    <3>1. t[k] = new[(tail + k - 1) % N]
      BY <2>1, <1>8
    <3>2. s[k] = buf[(tail + k - 1) % N]
      BY <1>7
    <3>. QED BY <3>1, <3>2, <1>5
  <2>. QED BY <2>2, <2>3, <1>6
<1>11. t = Append(s, b)
  BY <1>0, <1>7, <1>8, <1>10, AppendIs
<1>. QED BY <1>0, <1>3, <1>7, <1>11 DEF new, next, s, t

(* Advancing the tail of a ring that is not empty takes its first byte.    *)
LEMMA RingTake ==
  ASSUME NEW B, NEW buf, NEW tail, NEW head, NEW N,
         IsRing(B, buf, tail, head, N), head # tail
  PROVE  /\ Ring(buf, tail, head, N) # << >>
         /\ Head(Ring(buf, tail, head, N)) = buf[tail]
         /\ Ring(buf, Advance(tail, N), head, N) = Tail(Ring(buf, tail, head, N))
<1>. DEFINE next == Advance(tail, N)
            m == Count(tail, head, N)
            r == Ring(buf, tail, head, N)
<1>0. /\ N \in Nat \ {0}
      /\ buf \in [0 .. N - 1 -> B]
      /\ tail \in 0 .. N - 1
      /\ head \in 0 .. N - 1
  BY DEF IsRing
<1>1. next \in 0 .. N - 1 /\ next = IF tail + 1 = N THEN 0 ELSE tail + 1
  BY <1>0, AdvanceInRing
<1>2. m \in 0 .. N - 1 /\ m = IF head >= tail THEN head - tail
                                              ELSE N + head - tail
  BY <1>0, CountInRing
<1>3. m > 0 /\ Count(next, head, N) = m - 1
  <2>1. Count(next, head, N) = IF head >= next THEN head - next
                                               ELSE N + head - next
    BY <1>0, <1>1, CountInRing
  <2>. HIDE DEF m, next
  <2>. QED BY <1>0, <1>1, <1>2, <2>1
<1>4. \A k \in 1 .. m - 1 :
        buf[(next + k - 1) % N] = buf[(tail + (k + 1) - 1) % N]
  <2>. SUFFICES ASSUME NEW k \in 1 .. m - 1
                PROVE  (next + k - 1) % N = (tail + (k + 1) - 1) % N
    OBVIOUS
  <2>1. k \in 1 .. N /\ k + 1 \in 1 .. N
    BY <1>0, <1>2
  <2>2. (next + k - 1) % N = IF next + k - 1 < N THEN next + k - 1
                                                 ELSE next + k - 1 - N
    BY <1>0, <1>1, <2>1, SlotInRing
  <2>3. (tail + (k + 1) - 1) % N = IF tail + (k + 1) - 1 < N
             THEN tail + (k + 1) - 1 ELSE tail + (k + 1) - 1 - N
    BY <1>0, <2>1, SlotInRing
  <2>. HIDE DEF m, next
  <2>. QED BY <1>0, <1>1, <1>2, <2>2, <2>3
<1>. DEFINE t == Ring(buf, next, head, N)
<1>5. /\ r \in Seq(B) /\ Len(r) = m
      /\ \A k \in 1 .. m : r[k] = buf[(tail + k - 1) % N]
  BY RingIsSeq
<1>6. /\ t \in Seq(B) /\ Len(t) = m - 1
      /\ \A k \in 1 .. m - 1 : t[k] = buf[(next + k - 1) % N]
  <2>. HIDE DEF next
  <2>1. /\ t \in Seq(B) /\ Len(t) = Count(next, head, N)
        /\ \A k \in 1 .. Count(next, head, N) : t[k] = buf[(next + k - 1) % N]
    <3>1. IsRing(B, buf, next, head, N)
      BY <1>0, <1>1 DEF IsRing
    <3>. QED BY <3>1, RingIsSeq
  <2>. QED BY <1>0, <1>3, <2>1
<1>8. (tail + 1 - 1) % N = tail
  BY <1>0, 1 \in 1 .. N, SlotInRing
<1>. HIDE DEF m, next, r, t
<1>7. m \in Nat
  BY <1>0, <1>2
<1>9. r # << >> /\ Head(r) = buf[tail]
  BY <1>0, <1>3, <1>5, <1>7, <1>8
<1>10. \A k \in 1 .. m - 1 : t[k] = r[k + 1]
  <2>. SUFFICES ASSUME NEW k \in 1 .. m - 1 PROVE t[k] = r[k + 1]
    OBVIOUS
  <2>1. k + 1 \in 1 .. m
    BY <1>7
  <2>2. r[k + 1] = buf[(tail + (k + 1) - 1) % N]
    BY <2>1, <1>5
  <2>3. t[k] = buf[(next + k - 1) % N]
    BY <1>6
  <2>. QED BY <2>2, <2>3, <1>4
<1>11. t = Tail(r)
  BY <1>0, <1>5, <1>6, <1>9, <1>10, TailIs
<1>. QED BY <1>0, <1>9, <1>11 DEF r, next, t

LEMMA RingEmpty ==
  ASSUME NEW B, NEW buf, NEW tail, NEW N,
         IsRing(B, buf, tail, tail, N)
  PROVE  Ring(buf, tail, tail, N) = << >>
<1>1. Count(tail, tail, N) = 0
  BY CountInRing DEF IsRing
<1>. DEFINE r == Ring(buf, tail, tail, N)
<1>2. r \in Seq(B) /\ Len(r) = Count(tail, tail, N)
  BY RingIsSeq
<1>. QED BY <1>1, <1>2

-----------------------------------------------------------------------------
(* Types.  write() must hold a byte until it has stored it. *)

HoldsByte ==
  pc \in { "w_check", "w_udre", "w_udr", "w_txc", "w_next", "w_wait", "w_store" }
    => c \in Byte

TypeInv == TypeOK /\ HoldsByte

LEMMA TypeInit == Init => TypeInv
<1>. SUFFICES ASSUME Init PROVE TypeInv
  OBVIOUS
<1>1. /\ 0 \in 0 .. RxSize - 1 /\ 0 \in 0 .. TxSize - 1
      /\ Zero \in Byte
  BY SerialAssumption
<1>2. rxBuf \in [0 .. RxSize - 1 -> Byte] /\ txBuf \in [0 .. TxSize - 1 -> Byte]
  BY <1>1 DEF Init
<1>. QED
  BY <1>1, <1>2 DEF Init, TypeInv, TypeOK, HoldsByte, PcValue, Window

(* What one run of the transmit handler's body leaves. *)
LEMMA TxUdrEmptyTypes ==
  ASSUME TypeOK, TxUdrEmptyIrq
  PROVE  /\ txTail' \in 0 .. TxSize - 1
         /\ udr' \in Byte \cup {None} /\ shift' \in Byte \cup {None}
         /\ txc' \in BOOLEAN /\ udrie' \in BOOLEAN
         /\ UNCHANGED << txBuf, txHead >>
<1>1. txTail' \in 0 .. TxSize - 1
  BY SerialAssumption, AdvanceInRing DEF TypeOK, TxUdrEmptyIrq
<1>2. txBuf[txTail] \in Byte
  BY DEF TypeOK
<1>3. udr' \in Byte \cup {None} /\ shift' \in Byte \cup {None}
  BY <1>2 DEF TypeOK, TxUdrEmptyIrq, LoadUdr
<1>4. udrie' \in BOOLEAN
  BY DEF TypeOK, TxUdrEmptyIrq, KeepUdrie
<1>. QED BY <1>1, <1>3, <1>4 DEF TypeOK, TxUdrEmptyIrq

LEMMA TypeStep == TypeInv /\ [Next]_vars => TypeInv'
<1>. SUFFICES ASSUME TypeInv, [Next]_vars PROVE TypeInv'
  OBVIOUS
<1>. USE SerialAssumption DEF TypeInv, TypeOK, HoldsByte, PcValue, Window, Main,
         Goto, vars, rxVars, txVars, txRing, txLine, ctlVars, locals
<1>0. /\ \A x \in 0 .. RxSize - 1 : Advance(x, RxSize) \in 0 .. RxSize - 1
      /\ \A x \in 0 .. TxSize - 1 : Advance(x, TxSize) \in 0 .. TxSize - 1
  BY AdvanceInRing
<1>1. CASE Begin
  BY <1>1 DEF Begin
<1>2. CASE FlushCall
  BY <1>2 DEF FlushCall
<1>3. CASE EndCall
  BY <1>3 DEF EndCall
<1>4. CASE ReadCall
  BY <1>4 DEF ReadCall
<1>5. CASE AvailableCall
  <2>1. CountUnread(rxHead, rxTail) \in Nat
    BY DEF CountUnread
  <2>. QED BY <1>5, <2>1 DEF AvailableCall
<1>6. CASE AvailableForWriteCall
  <2>1. Free(txHead, txTail) \in Nat
    BY DEF Free
  <2>. QED BY <1>6, <2>1 DEF AvailableForWriteCall
<1>7. CASE \E on \in BOOLEAN : SetInterrupts(on)
  BY <1>7 DEF SetInterrupts
<1>8. CASE \E b \in Sent : WriteCall(b)
  BY <1>8 DEF WriteCall
<1>9. CASE WriteCheck
  BY <1>9 DEF WriteCheck
<1>10. CASE WriteUdre
  BY <1>10 DEF WriteUdre
<1>11. CASE WriteUdr
  BY <1>11 DEF WriteUdr, LoadUdr
<1>12. CASE WriteTxc
  BY ZenonT(40), <1>12 DEF WriteTxc
<1>13. CASE WriteNext
  BY SMTT(30), <1>13, <1>0 DEF WriteNext
<1>14. CASE WriteWait
  BY <1>14, TxUdrEmptyTypes DEF WriteWait
<1>15. CASE WriteStore
  BY <1>15 DEF WriteStore
<1>16. CASE WriteHead
  BY <1>16 DEF WriteHead
<1>17. CASE WriteUdrie
  BY <1>17 DEF WriteUdrie
<1>18. CASE FlushTest
  BY <1>18 DEF FlushTest, FlushReturn
<1>19. CASE FlushPoll
  BY <1>19, TxUdrEmptyTypes DEF FlushPoll
<1>20. CASE FlushDone
  BY <1>20 DEF FlushDone, FlushReturn
<1>21. CASE EndDisable
  BY <1>21 DEF EndDisable
<1>22. CASE EndClear
  BY <1>22 DEF EndClear, HeadAfterEnd
<1>23. CASE ReadTest
  BY <1>23 DEF ReadTest
<1>24. CASE ReadFetch
  BY <1>24 DEF ReadFetch
<1>25. CASE ReadTail
  BY SMTT(30), <1>25, <1>0 DEF ReadTail
<1>26. CASE ResultReturn
  BY <1>26 DEF ResultReturn
<1>27. CASE RxCompleteIrq
  <2>1. rxHead' \in 0 .. RxSize - 1
    BY <1>27, <1>0 DEF RxCompleteIrq
  <2>2. rxBuf' \in [0 .. RxSize - 1 -> Byte]
    BY <1>27 DEF RxCompleteIrq, RxPending
  <2>3. /\ rxDr' = None /\ rxBad' = FALSE
        /\ UNCHANGED << rxTail, txVars, ctlVars, pc, locals, frames >>
    BY <1>27 DEF RxCompleteIrq
  <2>4. TypeOK'
    <3>1. (rxBuf \in [0 .. RxSize - 1 -> Byte])'
      BY <2>2
    <3>2. (/\ rxHead \in 0 .. RxSize - 1 /\ rxTail \in 0 .. RxSize - 1
           /\ rxDr \in Byte \cup {None} /\ rxBad \in BOOLEAN)'
      BY <2>1, <2>3
    <3>3. UNCHANGED << txVars, ctlVars, pc, locals, frames >>
      BY <2>3
    <3>. QED BY <3>1, <3>2, <3>3
  <2>5. HoldsByte'
    BY <2>3
  <2>. QED BY <2>4, <2>5
<1>28. CASE TxInterrupt
  BY <1>28, TxUdrEmptyTypes DEF TxInterrupt
<1>29. CASE FrameDone
  BY <1>29 DEF FrameDone, BeganInside
<1>30. CASE \E b \in Received, bad \in BOOLEAN : ByteArrives(b, bad)
  BY <1>30 DEF ByteArrives
<1>31. CASE UNCHANGED vars
  BY <1>31
<1>. QED
  BY <1>1, <1>2, <1>3, <1>4, <1>5, <1>6, <1>7, <1>8, <1>9, <1>10, <1>11, <1>12,
     <1>13, <1>14, <1>15, <1>16, <1>17, <1>18, <1>19, <1>20, <1>21, <1>22,
     <1>23, <1>24, <1>25, <1>26, <1>27, <1>28, <1>29, <1>30, <1>31
     DEF Next, Calls, Proceed, Handlers, Line

(* Every variable keeps its type, in particular every index stays inside   *)
(* its ring.                                                               *)
THEOREM TypeCorrect == Spec => []TypeOK
<1>1. TypeInv => TypeOK
  BY DEF TypeInv
<1>. QED BY <1>1, TypeInit, TypeStep, PTL DEF Spec

-----------------------------------------------------------------------------
(* The receive ring.  Between the two accesses of read() that fetch a byte *)
(* and give up its slot, the ring is not empty and the slot is untouched.  *)

ReadInv ==
  /\ pc \in {"r_fetch", "r_tail"} => rxHead # rxTail
  /\ pc = "r_tail" => c = rxBuf[rxTail]

RxInv == TypeInv /\ ReadInv

RxRing == << rxBuf, rxHead, rxTail >>

LEMMA RxIsRing ==
  ASSUME TypeOK
  PROVE  IsRing(Byte, rxBuf, rxTail, rxHead, RxSize)
  BY SerialAssumption DEF TypeOK, IsRing

(* A receive handler run appends the byte, or leaves the ring as it is.    *)
LEMMA RxCompleteStep ==
  ASSUME TypeOK, RxCompleteIrq
  PROVE  \/ UNCHANGED RxRing /\ RxDrops
         \/ /\ ~RxDrops
            /\ UNCHANGED rxTail
            /\ rxHead' # rxTail
            /\ rxDr \in Byte
            /\ rxHead # rxTail => rxBuf'[rxTail] = rxBuf[rxTail]
            /\ Len(RxQueue) < RxSize - 1
            /\ RxQueue' = Append(RxQueue, rxDr)
<1>1. CASE RxDrops
  BY <1>1 DEF RxCompleteIrq, RxRing
<1>2. CASE ~RxDrops
  <2>1. /\ rxBuf' = [rxBuf EXCEPT ![rxHead] = rxDr]
        /\ rxHead' = Advance(rxHead, RxSize)
        /\ rxTail' = rxTail
        /\ Advance(rxHead, RxSize) # rxTail
    BY <1>2 DEF RxCompleteIrq, RxDrops
  <2>2. rxDr \in Byte
    BY DEF TypeOK, RxCompleteIrq, RxPending
  <2>3. /\ RxQueue' = Append(RxQueue, rxDr)
        /\ Len(RxQueue) < RxSize - 1
    <3>1. /\ Ring([rxBuf EXCEPT ![rxHead] = rxDr], rxTail,
                  Advance(rxHead, RxSize), RxSize)
               = Append(Ring(rxBuf, rxTail, rxHead, RxSize), rxDr)
          /\ Len(Ring(rxBuf, rxTail, rxHead, RxSize)) < RxSize - 1
      BY <2>1, <2>2, RxIsRing, RingStore
    <3>. QED BY <2>1, <3>1 DEF RxQueue
  <2>4. rxHead # rxTail => rxBuf'[rxTail] = rxBuf[rxTail]
    BY <2>1 DEF TypeOK
  <2>. QED BY <1>2, <2>1, <2>2, <2>3, <2>4
<1>. QED BY <1>1, <1>2

(* The last step of read() takes the oldest byte. *)
LEMMA ReadTailStep ==
  ASSUME TypeOK, ReadInv, ReadTail
  PROVE  /\ RxQueue # << >>
         /\ c = Head(RxQueue)
         /\ RxQueue' = Tail(RxQueue)
<1>1. /\ rxBuf' = rxBuf /\ rxHead' = rxHead
      /\ rxTail' = Advance(rxTail, RxSize)
      /\ rxHead # rxTail /\ c = rxBuf[rxTail]
  BY DEF ReadTail, Main, ReadInv
<1>. QED BY <1>1, RxIsRing, RingTake DEF RxQueue

(* end() empties the ring.  Both ends agree, whatever the tail is. *)
LEMMA EndClearStep ==
  ASSUME TypeOK, EndClear
  PROVE  RxQueue' = << >>
<1>1. rxBuf' = rxBuf /\ rxHead' = rxTail /\ rxTail' = rxTail
  BY DEF EndClear, HeadAfterEnd
<1>2. IsRing(Byte, rxBuf, rxTail, rxTail, RxSize)
  BY RxIsRing DEF IsRing
<1>. QED BY <1>1, <1>2, RingEmpty DEF RxQueue

LEMMA RxFrame ==
  ASSUME [Next]_vars
  PROVE  RxCompleteIrq \/ ReadTail \/ EndClear \/ UNCHANGED RxRing
<1>. USE DEF RxRing, vars, rxVars
<1>1. CASE Calls
  BY <1>1 DEF Calls, Begin, FlushCall, EndCall, ReadCall, AvailableCall,
       AvailableForWriteCall, SetInterrupts, WriteCall
<1>2. CASE Proceed
  BY <1>2 DEF Proceed, WriteCheck, WriteUdre, WriteUdr, WriteTxc, WriteNext,
       WriteWait, WriteStore, WriteHead, WriteUdrie, FlushTest, FlushPoll,
       FlushDone, EndDisable, ReadTest, ReadFetch, ResultReturn
<1>3. CASE Handlers
  BY <1>3 DEF Handlers, TxInterrupt
<1>4. CASE Line
  BY <1>4 DEF Line, FrameDone, ByteArrives
<1>. QED BY <1>1, <1>2, <1>3, <1>4 DEF Next

(* The two middle steps of read() are reached only from its own steps. *)
LEMMA ReadFrame ==
  ASSUME [Next]_vars
  PROVE  \/ ReadTest \/ ReadFetch
         \/ pc' \notin {"r_fetch", "r_tail"}
         \/ UNCHANGED << pc, c >>
<1>. USE DEF vars, locals, Goto, Main
<1>1. CASE Calls
  BY <1>1 DEF Calls, Begin, FlushCall, EndCall, ReadCall, AvailableCall,
       AvailableForWriteCall, SetInterrupts, WriteCall
<1>2. CASE Proceed
  BY <1>2 DEF Proceed, WriteCheck, WriteUdre, WriteUdr, WriteTxc, WriteNext,
       WriteWait, WriteStore, WriteHead, WriteUdrie, FlushTest, FlushPoll,
       FlushDone, FlushReturn, EndDisable, EndClear, ReadTail, ResultReturn
<1>3. CASE Handlers
  BY <1>3 DEF Handlers, TxInterrupt, RxCompleteIrq
<1>4. CASE Line
  BY <1>4 DEF Line, FrameDone, ByteArrives
<1>. QED BY <1>1, <1>2, <1>3, <1>4 DEF Next

LEMMA RxStep == RxInv /\ [Next]_vars => ReadInv'
<1>. SUFFICES ASSUME RxInv, [Next]_vars PROVE ReadInv'
  OBVIOUS
<1>. USE DEF RxInv, TypeInv
<1>1. CASE ReadTest
  BY <1>1 DEF ReadTest, Goto, rxVars, ReadInv
<1>2. CASE ReadFetch
  BY <1>2 DEF ReadFetch, Main, Goto, rxVars, ReadInv
<1>3. CASE pc' \notin {"r_fetch", "r_tail"}
  BY <1>3 DEF ReadInv
<1>4. CASE UNCHANGED << pc, c >>
  <2>1. CASE RxCompleteIrq
    BY <1>4, <2>1, RxCompleteStep DEF ReadInv, RxRing
  <2>2. CASE ReadTail \/ EndClear
    BY <1>4, <2>2 DEF ReadTail, EndClear, Main, Goto
  <2>3. CASE UNCHANGED RxRing
    BY <1>4, <2>3 DEF ReadInv, RxRing
  <2>. QED BY <2>1, <2>2, <2>3, RxFrame
<1>. QED BY <1>1, <1>2, <1>3, <1>4, ReadFrame

LEMMA RxInvariant == Spec => []RxInv
<1>1. Init => RxInv
  BY TypeInit DEF Init, RxInv, ReadInv
<1>2. RxInv /\ [Next]_vars => RxInv'
  BY TypeStep, RxStep DEF RxInv
<1>. QED BY <1>1, <1>2, PTL DEF Spec

(* The receive path implements a bounded queue that end() may clear.       *)
THEOREM RxImplementsFifo == Spec => RxFifo
<1>1. Init => Rx!Init
  <2>. SUFFICES ASSUME Init PROVE RxQueue = << >>
    BY DEF Rx!Init
  <2>1. IsRing(Byte, rxBuf, rxTail, rxTail, RxSize) /\ rxHead = rxTail
    BY TypeInit, RxIsRing DEF Init, TypeInv
  <2>. QED BY <2>1, RingEmpty DEF RxQueue
<1>2. RxInv /\ [Next]_vars
        => [Rx!Get \/ Rx!Clear \/ \E b \in Byte : Rx!Put(b)]_RxQueue
  <2>. SUFFICES ASSUME RxInv, [Next]_vars
                PROVE  \/ Rx!Get \/ Rx!Clear \/ \E b \in Byte : Rx!Put(b)
                       \/ RxQueue' = RxQueue
    OBVIOUS
  <2>. USE DEF RxInv, TypeInv
  <2>1. CASE RxCompleteIrq
    BY <2>1, RxCompleteStep DEF Rx!Put, RxRing, RxQueue
  <2>2. CASE ReadTail
    BY <2>2, ReadTailStep DEF Rx!Get
  <2>3. CASE EndClear
    BY <2>3, EndClearStep DEF Rx!Clear
  <2>4. CASE UNCHANGED RxRing
    BY <2>4 DEF RxRing, RxQueue
  <2>. QED BY <2>1, <2>2, <2>3, <2>4, RxFrame
<1>. QED BY <1>1, <1>2, RxInvariant, PTL DEF Spec, RxFifo, Rx!Clearable

(* read() returns the oldest unread byte. *)
THEOREM ReadIsOldest == Spec => ReadReturnsOldest
<1>1. RxInv /\ [Next]_vars
        => [ (pc = "r_tail" /\ pc' = "idle")
               => c = Head(RxQueue) /\ RxQueue' = Tail(RxQueue) ]_vars
  <2>. SUFFICES ASSUME RxInv, [Next]_vars, pc = "r_tail", pc' = "idle"
                PROVE  c = Head(RxQueue) /\ RxQueue' = Tail(RxQueue)
    OBVIOUS
  <2>1. ReadTail
    <3>. USE DEF Main, Goto, vars
    <3>1. CASE Calls
      BY <3>1 DEF Calls, Begin, FlushCall, EndCall, ReadCall, AvailableCall,
           AvailableForWriteCall, SetInterrupts, WriteCall
    <3>2. CASE Proceed
      BY <3>2 DEF Proceed, WriteCheck, WriteUdre, WriteUdr, WriteTxc, WriteNext,
           WriteWait, WriteStore, WriteHead, WriteUdrie, FlushTest, FlushPoll,
           FlushDone, EndDisable, EndClear, ReadTest, ReadFetch, ResultReturn
    <3>3. CASE Handlers \/ Line
      BY <3>3 DEF Handlers, TxInterrupt, RxCompleteIrq, Line, FrameDone,
           ByteArrives
    <3>. QED BY <3>1, <3>2, <3>3 DEF Next
  <2>. QED BY <2>1, ReadTailStep DEF RxInv, TypeInv
<1>. QED BY <1>1, RxInvariant, PTL DEF Spec, ReadReturnsOldest

-----------------------------------------------------------------------------
(* The transmit path.  Between the store to the head and the setting of    *)
(* UDRIE the ring must not run empty under the handler: it would clear a   *)
(* UDRIE that write() then sets for an empty ring.  The two accesses are   *)
(* two instructions apart: a frame already on the line may end between     *)
(* them, but no whole one passes, unless other handlers take that time.    *)

ShortWindow == WholeFrames = 0

(* The ring and UDRIE: outside the window UDRIE says that bytes wait.      *)
RingInv ==
  /\ udrie => txHead # txTail
  /\ pc = "w_udrie" => txHead # txTail
  /\ (~udrie /\ pc # "w_udrie") => txHead = txTail
  /\ pc \in {"w_udre", "w_udr"} => txHead = txTail
  /\ pc \in {"w_wait", "w_store", "w_head"} => i = Advance(txHead, TxSize)
  /\ pc \in {"w_store", "w_head"} => i # txTail
  /\ pc = "w_head" => c \in Byte /\ txBuf[txHead] = c

(* Inside the window: if the handler can run at all, a byte was in UDR     *)
(* when the window opened, so the handler takes one byte of two at most.   *)
WindowInv ==
  (pc = "w_udrie" /\ udrie /\ sregI) =>
    /\ frames = 0 => udr # None
    /\ udr = None => shift # None
    /\ (frames = 0 \/ udr = None) => Advance(txTail, TxSize) # txHead

(* The registers of the line.  A stale TXC lasts only until write() clears *)
(* it.                                                                     *)
LineInv ==
  /\ udr # None => shift # None
  /\ pc = "w_udr" => udr = None
  /\ (txc /\ pc # "w_txc") => shift = None

(* A port nothing was written to, or that is closed, is at rest.           *)
RestInv ==
  /\ ~written => pc \notin { "w_check", "w_udre", "w_udr", "w_txc", "w_next",
                             "w_wait", "w_store", "w_head", "w_udrie", "f_poll" }
  /\ ~enabled => pc \in { "idle", "e_clear", "r_test", "r_fetch", "r_tail",
                          "av_ret", "aw_ret" }
  /\ (~written \/ ~enabled \/ pc \in {"f_done", "e_disable", "e_clear"})
       => shift = None /\ txHead = txTail

TxInv == RingInv /\ WindowInv /\ LineInv /\ RestInv

LEMMA AdvanceInjective ==
  ASSUME NEW N \in Nat \ {0, 1}, NEW x \in 0 .. N - 1, NEW y \in 0 .. N - 1
  PROVE  /\ Advance(x, N) = Advance(y, N) => x = y
         /\ Advance(x, N) # x
<1>1. /\ Advance(x, N) = IF x + 1 = N THEN 0 ELSE x + 1
      /\ Advance(y, N) = IF y + 1 = N THEN 0 ELSE y + 1
  BY AdvanceInRing
<1>. QED BY <1>1

(* One run of the handler's body, when a byte waits and UDR is free.       *)
LEMMA TxBodyStep ==
  ASSUME TypeOK, TxUdrEmptyIrq, Udre, txHead # txTail
  PROVE  /\ txTail' = Advance(txTail, TxSize)
         /\ UNCHANGED << txBuf, txHead >>
         /\ txc' = FALSE
         /\ udrie' = (udrie /\ txHead # txTail')
         /\ shift' # None
         /\ txBuf[txTail] \in Byte
         /\ \/ shift = None /\ shift' = txBuf[txTail] /\ udr' = None
            \/ shift # None /\ shift' = shift /\ udr' = txBuf[txTail]
<1>1. txBuf[txTail] \in Byte
  BY DEF TypeOK
<1>2. \/ shift = None /\ shift' = txBuf[txTail] /\ udr' = None
      \/ shift # None /\ shift' = shift /\ udr' = txBuf[txTail]
  BY DEF TxUdrEmptyIrq, LoadUdr
<1>3. shift' # None
  BY <1>1, <1>2, SerialAssumption
<1>. QED BY <1>1, <1>2, <1>3 DEF TxUdrEmptyIrq, KeepUdrie

LEMMA TxInit == Init => TxInv
  BY DEF Init, TxInv, RingInv, WindowInv, LineInv, RestInv

(* Steps that touch neither the transmit ring nor the line, and leave no   *)
(* method of it in the middle.                                             *)
LEMMA TxKept ==
  ASSUME TxInv, TypeInv, UNCHANGED << txVars, pc, enabled, written, sregI, c, i, frames >>
  PROVE  TxInv'
  BY DEF TxInv, RingInv, WindowInv, LineInv, RestInv, txVars, txRing, txLine, Udre

(* The last window opens with a byte in UDR, or with the handler shut out. *)
LEMMA WriteHeadKeeps ==
  ASSUME ShortWindow, TypeInv, TxInv, WriteHead
  PROVE  TxInv'
<1>. USE DEF TxInv, Main, Goto, txLine
<1>1. /\ txTail \in 0 .. TxSize - 1 /\ txHead \in 0 .. TxSize - 1
      /\ TxSize \in Nat \ {0, 1}
  BY SerialAssumption DEF TypeInv, TypeOK
<1>2. /\ pc = "w_head" /\ pc' = "w_udrie" /\ frames' = 0
      /\ txHead' = i /\ i = Advance(txHead, TxSize) /\ i # txTail
      /\ UNCHANGED << udrie, txBuf, txTail, udr, shift, txc, enabled, written, sregI, c >>
  BY DEF WriteHead, RingInv, ctlVars, locals
<1>3. (udrie /\ sregI) => udr # None /\ Advance(txTail, TxSize) # txHead'
  <2>1. (udrie /\ sregI) => udr # None
    BY DEF WriteHead, ShortWindow, PromptIsr, TxPending, Udre
  <2>2. udrie => txHead # txTail
    BY DEF RingInv
  <2>. QED BY <1>1, <1>2, <2>1, <2>2, AdvanceInjective
<1>4. RingInv'
  BY <1>2 DEF RingInv
<1>5. WindowInv'
  BY <1>2, <1>3 DEF WindowInv, LineInv
<1>6. LineInv' /\ RestInv'
  BY <1>2 DEF LineInv, RestInv
<1>. QED BY <1>4, <1>5, <1>6

(* The handler's body keeps the ring and UDRIE in step, whoever runs it.   *)
LEMMA TxBodyKeeps ==
  ASSUME TypeInv, TxInv, TxUdrEmptyIrq, Udre, udrie, txHead # txTail,
         UNCHANGED << pc, enabled, written, sregI, c, i >>,
         pc = "w_udrie" => Advance(txTail, TxSize) # txHead /\ sregI /\ frames' # 0
  PROVE  TxInv'
<1>. USE DEF TxInv
<1>1. /\ txTail \in 0 .. TxSize - 1 /\ txHead \in 0 .. TxSize - 1
      /\ TxSize \in Nat \ {0, 1}
  BY SerialAssumption DEF TypeInv, TypeOK
<1>2. /\ txTail' = Advance(txTail, TxSize)
      /\ UNCHANGED << txBuf, txHead >>
      /\ txc' = FALSE
      /\ udrie' = (udrie /\ txHead # txTail')
      /\ shift' # None
      /\ \/ shift = None /\ udr' = None
         \/ shift # None /\ udr' = txBuf[txTail]
      /\ txBuf[txTail] # None
  BY TxBodyStep, SerialAssumption DEF TypeInv
<1>3. RingInv'
  <2>1. pc \in {"w_store", "w_head"} => i # txTail'
    BY <1>1, <1>2, AdvanceInjective DEF RingInv
  <2>2. pc \notin {"w_udre", "w_udr"}
    BY DEF RingInv
  <2>. QED BY <1>2, <2>1, <2>2 DEF RingInv
<1>4. WindowInv'
  <2>1. pc = "w_udrie" /\ udrie /\ sregI => shift # None
    BY DEF WindowInv, Udre
  <2>. QED BY <1>2, <2>1 DEF WindowInv
<1>5. LineInv'
  BY <1>2 DEF LineInv, RingInv
<1>6. RestInv'
  BY <1>2 DEF RestInv
<1>. QED BY <1>3, <1>4, <1>5, <1>6

LEMMA TxInterruptKeeps ==
  ASSUME ShortWindow, TypeInv, TxInv, TxInterrupt
  PROVE  TxInv'
<1>1. /\ TxUdrEmptyIrq /\ Udre /\ udrie /\ sregI
      /\ UNCHANGED << pc, enabled, written, sregI, c, i, frames >>
  BY DEF TxInterrupt, TxPending, ctlVars, locals
<1>2. txHead # txTail
  BY <1>1 DEF TxInv, RingInv
<1>3. pc = "w_udrie" => Advance(txTail, TxSize) # txHead /\ frames # 0
  BY <1>1 DEF TxInv, WindowInv, Udre
<1>. QED BY <1>1, <1>2, <1>3, TxBodyKeeps

(* A frame that ends in the window takes the byte from UDR with it.        *)
LEMMA FrameDoneKeeps ==
  ASSUME ShortWindow, TypeInv, TxInv, FrameDone
  PROVE  TxInv'
<1>. USE DEF TxInv
<1>1. /\ UNCHANGED << txBuf, txHead, txTail, udrie, enabled, written, sregI, pc, c, i >>
      /\ shift # None /\ shift' = udr /\ udr' = None
      /\ txc' = (txc \/ udr = None)
      /\ pc = "w_udrie" => frames = 0 /\ frames' = 1
  <2>1. UNCHANGED << txBuf, txHead, txTail, udrie, enabled, written, sregI, pc, c, i >>
    BY DEF FrameDone, txRing, ctlVars, locals
  <2>2. pc = "w_udrie" => frames = 0 /\ frames' = 1
    BY SerialAssumption DEF FrameDone, BeganInside, ShortWindow, Window, TypeInv, TypeOK
  <2>. QED BY <2>1, <2>2 DEF FrameDone, Udre
<1>2. RingInv' /\ RestInv'
  BY <1>1 DEF RingInv, RestInv
<1>3. WindowInv'
  BY <1>1 DEF WindowInv
<1>4. LineInv'
  BY <1>1 DEF LineInv
<1>. QED BY <1>2, <1>3, <1>4

LEMMA TxStep == ShortWindow /\ TypeInv /\ TxInv /\ [Next]_vars => TxInv'
<1>. SUFFICES ASSUME ShortWindow, TypeInv, TxInv, [Next]_vars PROVE TxInv'
  OBVIOUS
<1>. USE DEF Main, Goto, vars, txVars, txRing, txLine, ctlVars, locals
<1>1. CASE Begin
  BY <1>1 DEF Begin, TxInv, RingInv, WindowInv, LineInv, RestInv
<1>2. CASE FlushCall \/ EndCall \/ ReadCall \/ AvailableCall \/ AvailableForWriteCall
  BY <1>2 DEF FlushCall, EndCall, ReadCall, AvailableCall, AvailableForWriteCall,
       TxInv, RingInv, WindowInv, LineInv, RestInv
<1>3. CASE \E on \in BOOLEAN : SetInterrupts(on)
  BY <1>3 DEF SetInterrupts, TxInv, RingInv, WindowInv, LineInv, RestInv
<1>4. CASE \E b \in Sent : WriteCall(b)
  BY <1>4 DEF WriteCall, TxInv, RingInv, WindowInv, LineInv, RestInv
<1>5. CASE WriteCheck \/ WriteUdre
  BY <1>5 DEF WriteCheck, WriteUdre, RingIsBypassed, Udre,
       TxInv, RingInv, WindowInv, LineInv, RestInv
<1>6. CASE WriteUdr
  <2>1. c # None
    BY <1>6, SerialAssumption DEF WriteUdr, TypeInv, HoldsByte
  <2>. QED BY <1>6, <2>1 DEF WriteUdr, LoadUdr,
       TxInv, RingInv, WindowInv, LineInv, RestInv
<1>7. CASE WriteTxc
  BY <1>7 DEF WriteTxc, TxInv, RingInv, WindowInv, LineInv, RestInv
<1>8. CASE WriteNext
  BY <1>8 DEF WriteNext, TxInv, RingInv, WindowInv, LineInv, RestInv
<1>9. CASE WriteWait
  <2>1. CASE i # txTail /\ Goto("w_store") /\ UNCHANGED txVars
    BY <1>9, <2>1 DEF WriteWait, TxInv, RingInv, WindowInv, LineInv, RestInv
  <2>2. CASE i = txTail /\ WriteMayPoll /\ TxUdrEmptyIrq /\ Goto("w_wait")
    <3>1. txHead # txTail
      BY <1>9, <2>2, SerialAssumption, AdvanceInjective
         DEF WriteWait, TxInv, RingInv, TypeInv, TypeOK
    <3>2. udrie
      BY <1>9, <3>1 DEF WriteWait, TxInv, RingInv
    <3>. QED BY <1>9, <2>2, <3>1, <3>2, TxBodyKeeps DEF WriteWait, WriteMayPoll
  <2>. QED BY <1>9, <2>1, <2>2 DEF WriteWait
<1>10. CASE WriteStore
  <2>1. c \in Byte /\ txBuf'[txHead] = c
    BY <1>10 DEF WriteStore, TypeInv, TypeOK, HoldsByte
  <2>. QED BY <1>10, <2>1 DEF WriteStore, TxInv, RingInv, WindowInv, LineInv, RestInv
<1>11. CASE WriteHead
  BY <1>11, WriteHeadKeeps
<1>12. CASE WriteUdrie
  BY <1>12 DEF WriteUdrie, TxInv, RingInv, WindowInv, LineInv, RestInv
<1>13. CASE FlushTest \/ FlushDone
  BY <1>13 DEF FlushTest, FlushDone, FlushReturn,
       TxInv, RingInv, WindowInv, LineInv, RestInv
<1>14. CASE FlushPoll
  <2>1. CASE FlushIdle /\ Goto("f_done") /\ UNCHANGED txVars
    BY <1>14, <2>1 DEF FlushPoll, FlushIdle,
         TxInv, RingInv, WindowInv, LineInv, RestInv
  <2>2. CASE FlushMayPoll /\ TxUdrEmptyIrq /\ Goto("f_poll")
    <3>1. udrie /\ Udre /\ txHead # txTail
      BY <2>2 DEF FlushMayPoll, TxPending, TxInv, RingInv
    <3>. QED BY <1>14, <2>2, <3>1, TxBodyKeeps DEF FlushPoll
  <2>. QED BY <1>14, <2>1, <2>2 DEF FlushPoll
<1>15. CASE EndDisable \/ EndClear
  BY <1>15 DEF EndDisable, EndClear, TxInv, RingInv, WindowInv, LineInv, RestInv
<1>16. CASE ReadTest \/ ReadFetch \/ ReadTail \/ ResultReturn
  BY <1>16 DEF ReadTest, ReadFetch, ReadTail, ResultReturn,
       TxInv, RingInv, WindowInv, LineInv, RestInv
<1>17. CASE RxCompleteIrq
  BY <1>17, TxKept DEF RxCompleteIrq
<1>18. CASE TxInterrupt
  BY <1>18, TxInterruptKeeps
<1>19. CASE FrameDone
  BY <1>19, FrameDoneKeeps
<1>20. CASE \E b \in Received, bad \in BOOLEAN : ByteArrives(b, bad)
  BY <1>20, TxKept DEF ByteArrives
<1>21. CASE UNCHANGED vars
  BY <1>21, TxKept
<1>. QED
  BY <1>1, <1>2, <1>3, <1>4, <1>5, <1>6, <1>7, <1>8, <1>9, <1>10, <1>11, <1>12,
     <1>13, <1>14, <1>15, <1>16, <1>17, <1>18, <1>19, <1>20, <1>21
     DEF Next, Calls, Proceed, Handlers, Line

LEMMA TxInvariant == ShortWindow /\ Spec => [](TypeInv /\ TxInv)
<1>1. TypeInv /\ TxInv /\ ShortWindow /\ [Next]_vars => TypeInv' /\ TxInv'
  BY TypeStep, TxStep
<1>2. ShortWindow /\ Spec => [](TypeInv /\ TxInv /\ ShortWindow)
  <2>1. ShortWindow => ShortWindow'
    BY DEF ShortWindow
  <2>. QED BY <1>1, <2>1, TypeInit, TxInit, PTL DEF Spec
<1>. QED BY <1>2, PTL

-----------------------------------------------------------------------------
(* What is in flight: at most one byte in each register, then the ring.    *)

LEMMA ConsTail ==
  ASSUME NEW B, NEW b \in B, NEW s \in Seq(B)
  PROVE  << b >> \o s # << >> /\ Tail(<< b >> \o s) = s
<1>. DEFINE t == << b >> \o s
<1>1. << b >> \in Seq(B) /\ Len(<< b >>) = 1
  OBVIOUS
<1>2. /\ t \in Seq(B) /\ Len(t) = Len(s) + 1
      /\ \A k \in 1 .. Len(t) : t[k] = IF k <= 1 THEN << b >>[k] ELSE s[k - 1]
  BY <1>1, ConcatProperties
<1>. HIDE DEF t
<1>3. Len(s) \in Nat /\ Len(s) = Len(t) - 1 /\ t # << >>
  BY <1>2
<1>4. \A k \in 1 .. Len(s) : s[k] = t[k + 1]
  BY <1>2, <1>3
<1>. QED BY <1>2, <1>3, <1>4, TailIs DEF t

LEMMA ConsOfTail ==
  ASSUME NEW B, NEW s \in Seq(B), s # << >>
  PROVE  << Head(s) >> \o Tail(s) = s
<1>. DEFINE t == << Head(s) >> \o Tail(s)
<1>1. /\ Head(s) \in B /\ Tail(s) \in Seq(B) /\ Len(Tail(s)) = Len(s) - 1
      /\ \A k \in 1 .. Len(Tail(s)) : Tail(s)[k] = s[k + 1]
      /\ Head(s) = s[1]
  BY HeadTailProperties
<1>2. << Head(s) >> \in Seq(B) /\ Len(<< Head(s) >>) = 1
  BY <1>1
<1>3. /\ t \in Seq(B) /\ Len(t) = Len(s)
      /\ \A k \in 1 .. Len(t) :
           t[k] = IF k <= 1 THEN << Head(s) >>[k] ELSE Tail(s)[k - 1]
  BY <1>1, <1>2, ConcatProperties
<1>. HIDE DEF t
<1>4. Len(s) \in Nat
  OBVIOUS
<1>5. \A k \in 1 .. Len(t) : t[k] = s[k]
  BY <1>1, <1>3, <1>4
<1>. QED BY <1>3, <1>5, SeqEqual DEF t

LEMMA ConcatAppend ==
  ASSUME NEW B, NEW r \in Seq(B), NEW s \in Seq(B), NEW b \in B
  PROVE  r \o Append(s, b) = Append(r \o s, b)
<1>1. << b >> \in Seq(B) /\ r \o s \in Seq(B)
  BY ConcatProperties
<1>2. (r \o s) \o << b >> = r \o (s \o << b >>)
  BY <1>1, ConcatAssociative
<1>. QED BY <1>1, <1>2, AppendIsConcat

LEMMA TxIsRing ==
  ASSUME TypeOK
  PROVE  /\ IsRing(Byte, txBuf, txTail, txHead, TxSize)
         /\ TxQueue \in Seq(Byte)
         /\ Len(TxQueue) <= TxSize - 1
<1>1. IsRing(Byte, txBuf, txTail, txHead, TxSize)
  BY SerialAssumption DEF TypeOK, IsRing
<1>2. Len(TxQueue) = Count(txTail, txHead, TxSize)
  BY <1>1, RingIsSeq DEF TxQueue
<1>3. Count(txTail, txHead, TxSize) \in 0 .. TxSize - 1
  BY <1>1, CountInRing DEF IsRing
<1>. QED BY <1>1, <1>2, <1>3, RingIsSeq DEF TxQueue

LEMMA RegIsSeq ==
  ASSUME NEW r \in Byte \cup {None}
  PROVE  /\ Reg(r) \in Seq(Byte)
         /\ r = None => Reg(r) = << >>
         /\ r # None => r \in Byte /\ Reg(r) = << r >>
         /\ Len(Reg(r)) <= 1
  BY DEF Reg

(* The registers in the two orders the steps need them. *)
LEMMA InFlightIs ==
  ASSUME TypeOK
  PROVE  /\ InFlight = Reg(shift) \o (Reg(udr) \o TxQueue)
         /\ InFlight \in Seq(Byte)
         /\ Reg(shift) \o Reg(udr) \in Seq(Byte)
         /\ Len(InFlight) <= 2 + Len(TxQueue)
<1>1. /\ Reg(shift) \in Seq(Byte) /\ Reg(udr) \in Seq(Byte)
      /\ Len(Reg(shift)) <= 1 /\ Len(Reg(udr)) <= 1
  BY RegIsSeq DEF TypeOK
<1>2. TxQueue \in Seq(Byte)
  BY TxIsRing
<1>3. /\ Reg(shift) \o Reg(udr) \in Seq(Byte)
      /\ Len(Reg(shift) \o Reg(udr)) = Len(Reg(shift)) + Len(Reg(udr))
  BY <1>1, ConcatProperties
<1>4. InFlight \in Seq(Byte) /\ Len(InFlight) = Len(Reg(shift) \o Reg(udr)) + Len(TxQueue)
  BY <1>2, <1>3, ConcatProperties DEF InFlight
<1>5. /\ Len(Reg(shift)) \in Nat /\ Len(Reg(udr)) \in Nat /\ Len(TxQueue) \in Nat
  BY <1>1, <1>2
<1>6. InFlight = Reg(shift) \o (Reg(udr) \o TxQueue)
  BY <1>1, <1>2, ConcatAssociative DEF InFlight
<1>. QED BY <1>1, <1>3, <1>4, <1>5, <1>6

LEMMA InFlightNext == (TypeOK => InFlight = Reg(shift) \o (Reg(udr) \o TxQueue))'
<1>1. TypeOK => InFlight = Reg(shift) \o (Reg(udr) \o TxQueue)
  BY InFlightIs
<1>. QED BY <1>1, PTL

(* The handler's body moves a byte from the ring to the registers. *)
LEMMA TxBodyMoves ==
  ASSUME TypeOK, TypeOK', TxUdrEmptyIrq, Udre, txHead # txTail
  PROVE  InFlight' = InFlight
<1>. DEFINE b == txBuf[txTail]
<1>1. /\ txTail' = Advance(txTail, TxSize)
      /\ UNCHANGED << txBuf, txHead >>
      /\ b \in Byte
      /\ \/ shift = None /\ shift' = b /\ udr' = None
         \/ shift # None /\ shift' = shift /\ udr' = b
  BY TxBodyStep
<1>2. /\ TxQueue # << >> /\ Head(TxQueue) = b /\ TxQueue' = Tail(TxQueue)
      /\ TxQueue \in Seq(Byte) /\ Tail(TxQueue) \in Seq(Byte)
  <2>1. /\ TxQueue # << >> /\ Head(TxQueue) = b /\ TxQueue' = Tail(TxQueue)
    BY <1>1, TxIsRing, RingTake DEF TxQueue
  <2>2. TxQueue \in Seq(Byte)
    BY TxIsRing
  <2>. QED BY <2>1, <2>2, HeadTailProperties
<1>3. << b >> \o Tail(TxQueue) = TxQueue
  BY <1>2, ConsOfTail
<1>4. /\ InFlight = Reg(shift) \o (Reg(udr) \o TxQueue)
      /\ InFlight' = Reg(shift') \o (Reg(udr') \o Tail(TxQueue))
  BY <1>2, InFlightIs, InFlightNext DEF Reg
<1>5. << >> \o TxQueue = TxQueue /\ << >> \o Tail(TxQueue) = Tail(TxQueue)
  BY <1>2, ConcatEmptySeq
<1>6. Reg(None) = << >> /\ Reg(b) = << b >>
  BY <1>1, SerialAssumption DEF Reg
<1>7. CASE shift = None
  BY <1>1, <1>3, <1>4, <1>5, <1>6, <1>7 DEF Udre
<1>8. CASE shift # None
  BY <1>1, <1>3, <1>4, <1>5, <1>6, <1>8 DEF Udre
<1>. QED BY <1>7, <1>8

(* The end of a frame takes the oldest byte. *)
LEMMA FrameDoneTakes ==
  ASSUME TypeOK, TypeOK', FrameDone
  PROVE  InFlight # << >> /\ InFlight' = Tail(InFlight)
<1>1. shift # None /\ shift' = udr /\ udr' = None /\ UNCHANGED << txBuf, txHead, txTail >>
  BY DEF FrameDone, txRing
<1>2. TxQueue' = TxQueue
  BY <1>1 DEF TxQueue
<1>. DEFINE rest == Reg(udr) \o TxQueue
<1>3. /\ Reg(udr) \in Seq(Byte) /\ TxQueue \in Seq(Byte) /\ rest \in Seq(Byte)
      /\ shift \in Byte /\ Reg(shift) = << shift >>
  <2>1. Reg(udr) \in Seq(Byte) /\ TxQueue \in Seq(Byte)
    BY TxIsRing, RegIsSeq DEF TypeOK
  <2>2. shift \in Byte /\ Reg(shift) = << shift >>
    BY <1>1 DEF TypeOK, Reg
  <2>. QED BY <2>1, <2>2, ConcatProperties
<1>4. InFlight = << shift >> \o rest
  BY <1>3, InFlightIs
<1>5. InFlight' = rest
  <2>1. InFlight' = Reg(udr) \o (<< >> \o TxQueue)
    BY <1>1, <1>2, InFlightNext DEF Reg
  <2>. QED BY <1>3, <2>1, ConcatEmptySeq
<1>. HIDE DEF rest
<1>. QED BY <1>3, <1>4, <1>5, ConsTail

(* The way past the ring: every byte before it is gone or in the shift     *)
(* register.                                                               *)
LEMMA WriteUdrPuts ==
  ASSUME TypeInv, TypeOK', TxInv, WriteUdr
  PROVE  c \in Byte /\ Tx!Put(c)
<1>1. /\ c \in Byte /\ udr = None /\ txHead = txTail
      /\ UNCHANGED << txBuf, txHead, txTail >>
      /\ \/ shift = None /\ shift' = c /\ udr' = None
         \/ shift # None /\ shift' = shift /\ udr' = c
  BY DEF WriteUdr, Main, LoadUdr, txRing, TypeInv, HoldsByte, TxInv, RingInv, LineInv
<1>2. TxQueue = << >> /\ TxQueue' = << >>
  BY <1>1, TxIsRing, RingEmpty DEF TxQueue, TypeInv
<1>3. /\ InFlight = Reg(shift) \o (Reg(None) \o << >>)
      /\ InFlight' = Reg(shift') \o (Reg(udr') \o << >>)
  BY <1>1, <1>2, InFlightIs, InFlightNext DEF TypeInv, Reg
<1>4. /\ Reg(None) = << >> /\ Reg(c) = << c >> /\ << >> \o << >> = << >>
      /\ << c >> \o << >> = << c >> /\ << >> \o << c >> = << c >>
  <2>1. << c >> \in Seq(Byte) /\ << >> \in Seq(Byte)
    BY <1>1
  <2>. QED BY <1>1, <2>1, ConcatEmptySeq, SerialAssumption DEF Reg
<1>5. InFlight = Reg(shift) /\ InFlight' = Append(InFlight, c)
  <2>1. CASE shift = None
    BY <1>1, <1>3, <1>4, <2>1
  <2>2. CASE shift # None
    <3>1. << shift >> \in Seq(Byte) /\ Reg(shift) = << shift >>
      BY <2>2 DEF Reg, TypeInv, TypeOK
    <3>2. << shift >> \o << >> = << shift >>
      BY <3>1, ConcatEmptySeq
    <3>3. << shift >> \o << c >> = Append(<< shift >>, c)
      BY <1>1, <3>1, AppendIsConcat
    <3>. QED BY <1>1, <1>3, <1>4, <2>2, <3>1, <3>2, <3>3
  <2>. QED BY <1>1, <2>1, <2>2
<1>6. Len(InFlight) < TxSize + 1
  <2>1. Len(Reg(shift)) <= 1 /\ Reg(shift) \in Seq(Byte)
    BY RegIsSeq DEF TypeInv, TypeOK
  <2>2. Len(InFlight) <= 1 /\ Len(InFlight) \in Nat
    BY <1>5, <2>1
  <2>. QED BY <2>2, SerialAssumption
<1>. QED BY <1>1, <1>5, <1>6 DEF Tx!Put

(* The way through the ring: the byte counts from the moment the head      *)
(* moves past it.                                                          *)
LEMMA WriteHeadPuts ==
  ASSUME TypeInv, TypeOK', TxInv, WriteHead
  PROVE  c \in Byte /\ Tx!Put(c)
<1>1. /\ c \in Byte /\ txBuf[txHead] = c
      /\ txHead' = Advance(txHead, TxSize) /\ Advance(txHead, TxSize) # txTail
      /\ UNCHANGED << txBuf, txTail, shift, udr >>
  BY DEF WriteHead, Main, txLine, TxInv, RingInv
<1>2. [txBuf EXCEPT ![txHead] = c] = txBuf
  BY <1>1 DEF TypeInv, TypeOK
<1>3. TxQueue' = Append(TxQueue, c) /\ Len(TxQueue) < TxSize - 1
  BY <1>1, <1>2, TxIsRing, RingStore DEF TxQueue, TypeInv
<1>. DEFINE regs == Reg(shift) \o Reg(udr)
<1>4. InFlight = regs \o TxQueue /\ InFlight' = regs \o Append(TxQueue, c)
  BY <1>1, <1>3 DEF InFlight, Reg
<1>5. /\ regs \in Seq(Byte) /\ TxQueue \in Seq(Byte)
      /\ Len(InFlight) <= 2 + Len(TxQueue) /\ InFlight \in Seq(Byte)
  BY InFlightIs, TxIsRing DEF TypeInv
<1>. HIDE DEF regs
<1>6. InFlight' = Append(InFlight, c)
  BY <1>1, <1>4, <1>5, ConcatAppend
<1>7. Len(InFlight) < TxSize + 1
  BY <1>3, <1>5, SerialAssumption
<1>. QED BY <1>1, <1>6, <1>7 DEF Tx!Put

(* Storing a byte at the head leaves the ring as it is. *)
LEMMA WriteStoreHides ==
  ASSUME TypeInv, TxInv, WriteStore
  PROVE  InFlight' = InFlight
<1>1. /\ txBuf' = [txBuf EXCEPT ![txHead] = c]
      /\ UNCHANGED << txHead, txTail, shift, udr >>
  BY DEF WriteStore, txLine
<1>. DEFINE new == [txBuf EXCEPT ![txHead] = c]
            m == Count(txTail, txHead, TxSize)
<1>2. /\ TxSize \in Nat \ {0} /\ txTail \in 0 .. TxSize - 1 /\ txHead \in 0 .. TxSize - 1
      /\ txBuf \in [0 .. TxSize - 1 -> Byte]
  BY SerialAssumption DEF TypeInv, TypeOK
<1>3. m \in 0 .. TxSize - 1 /\ m = IF txHead >= txTail THEN txHead - txTail
                                                       ELSE TxSize + txHead - txTail
  BY <1>2, CountInRing
<1>4. ASSUME NEW k \in 1 .. m
      PROVE  new[(txTail + k - 1) % TxSize] = txBuf[(txTail + k - 1) % TxSize]
  <2>1. /\ (txTail + k - 1) % TxSize \in 0 .. TxSize - 1
        /\ (txTail + k - 1) % TxSize = IF txTail + k - 1 < TxSize THEN txTail + k - 1
                                                  ELSE txTail + k - 1 - TxSize
    BY <1>2, <1>3, SlotInRing
  <2>2. (txTail + k - 1) % TxSize # txHead
    <3>. HIDE DEF m, new
    <3>. QED BY <1>2, <1>3, <2>1
  <2>. QED BY <1>2, <2>1, <2>2
<1>5. Ring(new, txTail, txHead, TxSize) = Ring(txBuf, txTail, txHead, TxSize)
  <2>1. /\ Ring(new, txTail, txHead, TxSize)
              = [k \in 1 .. m |-> new[(txTail + k - 1) % TxSize]]
        /\ Ring(txBuf, txTail, txHead, TxSize)
              = [k \in 1 .. m |-> txBuf[(txTail + k - 1) % TxSize]]
    BY DEF Ring, Count
  <2>. HIDE DEF m, new
  <2>. QED BY <1>4, <2>1
<1>. QED BY <1>1, <1>5 DEF InFlight, TxQueue, Reg

LEMMA TxFrame ==
  ASSUME [Next]_vars, TxInv, TypeInv
  PROVE  \/ FrameDone \/ WriteUdr \/ WriteHead \/ WriteStore
         \/ TxUdrEmptyIrq /\ Udre /\ txHead # txTail
         \/ UNCHANGED << txRing, udr, shift >>
<1>. USE DEF vars, txVars, txRing, txLine
<1>1. CASE Calls
  BY <1>1 DEF Calls, Begin, FlushCall, EndCall, ReadCall, AvailableCall,
       AvailableForWriteCall, SetInterrupts, WriteCall
<1>2. CASE WriteWait
  <2>1. TxUdrEmptyIrq => (WriteMayPoll /\ i = txTail) \/ UNCHANGED txVars
    BY <1>2 DEF WriteWait
  <2>2. i = txTail => txHead # txTail
    BY <1>2, SerialAssumption, AdvanceInjective
       DEF WriteWait, Main, TxInv, RingInv, TypeInv, TypeOK
  <2>. QED BY <1>2, <2>2 DEF WriteWait, WriteMayPoll
<1>3. CASE FlushPoll
  BY <1>3 DEF FlushPoll, FlushMayPoll, TxPending, TxInv, RingInv
<1>4. CASE TxInterrupt
  BY <1>4 DEF TxInterrupt, TxPending, TxInv, RingInv
<1>5. CASE WriteCheck \/ WriteUdre \/ WriteTxc \/ WriteNext \/ WriteUdrie
           \/ FlushTest \/ FlushDone \/ EndDisable \/ EndClear
           \/ ReadTest \/ ReadFetch \/ ReadTail \/ ResultReturn
  BY <1>5 DEF WriteCheck, WriteUdre, WriteTxc, WriteNext, WriteUdrie, FlushTest,
       FlushDone, EndDisable, EndClear, ReadTest, ReadFetch, ReadTail, ResultReturn
<1>6. CASE RxCompleteIrq \/ \E b \in Received, bad \in BOOLEAN : ByteArrives(b, bad)
  BY <1>6 DEF RxCompleteIrq, ByteArrives
<1>7. CASE UNCHANGED vars
  BY <1>7
<1>. QED BY <1>1, <1>2, <1>3, <1>4, <1>5, <1>6, <1>7
         DEF Next, Proceed, Handlers, Line

(* Ring, data register and shift register together implement a lossless    *)
(* first-in first-out queue: what write() accepts leaves on the line once, *)
(* in order, for rings of any size (HardwareSerial::write() against        *)
(* _tx_udr_empty_irq() and flush()).                                       *)
THEOREM TxImplementsFifo == ShortWindow /\ Spec => TxFifo
<1>1. Init => Tx!Init
  <2>. SUFFICES ASSUME Init PROVE InFlight = << >>
    BY DEF Tx!Init
  <2>1. TxQueue = << >> /\ shift = None /\ udr = None
    <3>1. IsRing(Byte, txBuf, txTail, txTail, TxSize) /\ txHead = txTail
      BY TypeInit, TxIsRing DEF Init, TypeInv
    <3>. QED BY <3>1, RingEmpty DEF TxQueue, Init
  <2>2. << >> \o << >> = << >>
    BY ConcatEmptySeq, << >> \in Seq(Byte)
  <2>. QED BY <2>1, <2>2 DEF InFlight, Reg
<1>2. TypeInv /\ TxInv /\ TypeInv' /\ [Next]_vars
        => [Tx!Get \/ \E b \in Byte : Tx!Put(b)]_InFlight
  <2>. SUFFICES ASSUME TypeInv, TxInv, TypeInv', [Next]_vars
                PROVE  \/ Tx!Get \/ \E b \in Byte : Tx!Put(b)
                       \/ InFlight' = InFlight
    OBVIOUS
  <2>0. TypeOK /\ TypeOK'
    BY DEF TypeInv
  <2>1. CASE FrameDone
    BY <2>0, <2>1, FrameDoneTakes DEF Tx!Get
  <2>2. CASE WriteUdr
    BY <2>0, <2>2, WriteUdrPuts
  <2>3. CASE WriteHead
    BY <2>0, <2>3, WriteHeadPuts
  <2>4. CASE WriteStore
    BY <2>4, WriteStoreHides
  <2>5. CASE TxUdrEmptyIrq /\ Udre /\ txHead # txTail
    BY <2>0, <2>5, TxBodyMoves
  <2>6. CASE UNCHANGED << txRing, udr, shift >>
    BY <2>6 DEF InFlight, TxQueue, Reg, txRing
  <2>. QED BY <2>1, <2>2, <2>3, <2>4, <2>5, <2>6, TxFrame
<1>. QED BY <1>1, <1>2, TxInvariant, PTL DEF Spec, TxFifo, Tx!Lossless

LEMMA AtRestIsEmpty ==
  ASSUME TypeOK, LineInv, shift = None, txHead = txTail
  PROVE  InFlight = << >>
<1>1. TxQueue = << >>
  BY TxIsRing, RingEmpty DEF TxQueue
<1>2. << >> \o << >> = << >>
  BY ConcatEmptySeq, << >> \in Seq(Byte)
<1>. QED BY <1>1, <1>2 DEF InFlight, Reg, LineInv

(* When flush() leaves its loop nothing is queued any more and the last    *)
(* frame has left the shift register.                                      *)
THEOREM FlushLeavesNothing == ShortWindow /\ Spec => []FlushDrains
<1>1. TypeInv /\ TxInv => FlushDrains
  BY AtRestIsEmpty DEF TypeInv, TxInv, RestInv, FlushDrains
<1>. QED BY <1>1, TxInvariant, PTL

(* The comment that opens _tx_udr_empty_irq: the handler is entered only   *)
(* with data in the ring.                                                  *)
THEOREM TxIrqAlwaysHasData == ShortWindow /\ Spec => []TxIrqHasData
<1>1. TxInv => TxIrqHasData
  BY DEF TxInv, RingInv, TxIrqHasData, TxPending
<1>. QED BY <1>1, TxInvariant, PTL

-----------------------------------------------------------------------------
(* The two counts.  While the sketch holds one, only a handler can change  *)
(* the ring it counts, and in the sketch's favour.                         *)

LEMMA FreeIs ==
  ASSUME TypeOK
  PROVE  Free(txHead, txTail) = TxSize - 1 - Len(TxQueue)
<1>1. Len(TxQueue) = Count(txTail, txHead, TxSize)
  BY TxIsRing, RingIsSeq DEF TxQueue
<1>2. Count(txTail, txHead, TxSize) = IF txHead >= txTail THEN txHead - txTail
                                                          ELSE TxSize + txHead - txTail
  BY TxIsRing, CountInRing DEF IsRing
<1>3. txHead \in Nat /\ txTail \in Nat /\ TxSize \in Nat
  BY SerialAssumption DEF TypeOK
<1>. QED BY <1>1, <1>2, <1>3 DEF Free

LEMMA UnreadIs ==
  ASSUME TypeOK
  PROVE  CountUnread(rxHead, rxTail) = Len(RxQueue) /\ RxQueue \in Seq(Byte)
  BY RxIsRing, RingIsSeq DEF RxQueue, CountUnread, Count

LEMMA QueuesNext == (TypeOK => RxQueue \in Seq(Byte) /\ TxQueue \in Seq(Byte))'
<1>1. TypeOK => RxQueue \in Seq(Byte) /\ TxQueue \in Seq(Byte)
  BY UnreadIs, TxIsRing
<1>. QED BY <1>1, PTL

(* A run of the handler's body frees a slot of the transmit ring. *)
LEMMA TxBodyFrees ==
  ASSUME TypeOK, TxUdrEmptyIrq, txHead # txTail
  PROVE  Len(TxQueue') <= Len(TxQueue)
<1>1. txTail' = Advance(txTail, TxSize) /\ UNCHANGED << txBuf, txHead >>
  BY DEF TxUdrEmptyIrq
<1>2. TxQueue # << >> /\ TxQueue' = Tail(TxQueue) /\ TxQueue \in Seq(Byte)
  BY <1>1, TxIsRing, RingTake DEF TxQueue
<1>3. Len(Tail(TxQueue)) = Len(TxQueue) - 1 /\ Len(TxQueue) \in Nat
  BY <1>2, HeadTailProperties
<1>. QED BY <1>2, <1>3

LEMMA RxAppendGrows ==
  ASSUME TypeOK, RxCompleteIrq
  PROVE  Len(RxQueue) <= Len(RxQueue')
<1>1. RxQueue \in Seq(Byte) /\ Len(RxQueue) \in Nat
  BY UnreadIs
<1>2. CASE UNCHANGED RxRing
  BY <1>1, <1>2 DEF RxRing, RxQueue
<1>3. CASE rxDr \in Byte /\ RxQueue' = Append(RxQueue, rxDr)
  BY <1>1, <1>3
<1>. QED BY <1>2, <1>3, RxCompleteStep

(* While the sketch holds a count, nobody but a handler touches the rings. *)
LEMMA CountFrame ==
  ASSUME [Next]_vars, pc' \in {"av_ret", "aw_ret"}
  PROVE  \/ AvailableCall \/ AvailableForWriteCall
         \/ /\ UNCHANGED << pc, n >>
            /\ \/ RxCompleteIrq \/ TxInterrupt
               \/ UNCHANGED << RxRing, txRing >>
<1>. USE DEF vars, locals, Goto, Main
<1>1. CASE Calls
  BY <1>1 DEF Calls, Begin, FlushCall, EndCall, ReadCall, SetInterrupts, WriteCall
<1>2. CASE Proceed
  BY <1>2 DEF Proceed, WriteCheck, WriteUdre, WriteUdr, WriteTxc, WriteNext,
       WriteWait, WriteStore, WriteHead, WriteUdrie, FlushTest, FlushPoll,
       FlushDone, FlushReturn, EndDisable, EndClear, ReadTest, ReadFetch,
       ReadTail, ResultReturn
<1>3. CASE Handlers
  BY <1>3 DEF Handlers, RxCompleteIrq, TxInterrupt
<1>4. CASE Line
  BY <1>4 DEF Line, FrameDone, ByteArrives, RxRing, txRing, rxVars, txVars
<1>5. CASE UNCHANGED vars
  BY <1>5 DEF RxRing, txRing, rxVars, txVars
<1>. QED BY <1>1, <1>2, <1>3, <1>4, <1>5 DEF Next

(* available() never promises a byte that cannot be read, nor              *)
(* availableForWrite() a slot that is taken, however the handlers run      *)
(* between the count and its use.                                          *)
THEOREM AvailableCallsAreHonest == ShortWindow /\ Spec => []AvailableIsHonest
<1>1. Init => AvailableIsHonest
  BY DEF Init, AvailableIsHonest
<1>2. TypeInv /\ TxInv /\ AvailableIsHonest /\ [Next]_vars => AvailableIsHonest'
  <2>. SUFFICES ASSUME TypeInv, TxInv, AvailableIsHonest, [Next]_vars,
                       pc' \in {"av_ret", "aw_ret"}
                PROVE  AvailableIsHonest'
    BY DEF AvailableIsHonest
  <2>0. /\ TypeOK
        /\ Len(RxQueue) \in Nat /\ Len(TxQueue) \in Nat /\ n \in Nat
        /\ TxSize \in Nat
    BY SMTT(30), UnreadIs, TxIsRing, SerialAssumption DEF TypeInv, TypeOK
  <2>1. CASE AvailableCall
    <3>1. pc' = "av_ret" /\ n' = Len(RxQueue) /\ RxQueue' = RxQueue
      BY <2>0, <2>1, UnreadIs DEF AvailableCall, Goto, rxVars, RxQueue
    <3>. QED BY <2>0, <3>1 DEF AvailableIsHonest
  <2>2. CASE AvailableForWriteCall
    <3>1. /\ pc' = "aw_ret" /\ n' = TxSize - 1 - Len(TxQueue)
          /\ TxQueue' = TxQueue
      BY <2>0, <2>2, FreeIs
         DEF AvailableForWriteCall, Goto, txVars, txRing, TxQueue
    <3>. QED BY <2>0, <3>1 DEF AvailableIsHonest
  <2>3. CASE UNCHANGED << pc, n >> /\ RxCompleteIrq
    <3>1. TxQueue' = TxQueue
      BY <2>3 DEF RxCompleteIrq, txVars, txRing, TxQueue
    <3>2. RxQueue' \in Seq(Byte)
      BY TypeStep, QueuesNext DEF TypeInv
    <3>3. Len(RxQueue) <= Len(RxQueue') /\ Len(RxQueue') \in Nat
      BY <2>0, <2>3, <3>2, RxAppendGrows
    <3>. QED BY <2>0, <2>3, <3>1, <3>3 DEF AvailableIsHonest
  <2>4. CASE UNCHANGED << pc, n >> /\ TxInterrupt
    <3>1. RxQueue' = RxQueue
      BY <2>4 DEF TxInterrupt, rxVars, RxQueue
    <3>2. Len(TxQueue') <= Len(TxQueue)
      BY <2>0, <2>4, TxBodyFrees DEF TxInterrupt, TxPending, TxInv, RingInv
    <3>3. Len(TxQueue') \in Nat
      BY TypeStep, QueuesNext DEF TypeInv
    <3>. QED BY <2>0, <2>4, <3>1, <3>2, <3>3 DEF AvailableIsHonest
  <2>5. CASE UNCHANGED << pc, n >> /\ UNCHANGED << RxRing, txRing >>
    BY <2>5 DEF AvailableIsHonest, RxRing, txRing, RxQueue, TxQueue
  <2>. QED BY <2>1, <2>2, <2>3, <2>4, <2>5, CountFrame
<1>. QED BY <1>1, <1>2, TxInvariant, PTL DEF Spec

-----------------------------------------------------------------------------
(* A closed port. *)

ClosedInv == (~enabled /\ pc # "e_clear") => rxHead = rxTail

LEMMA ClosedStep == RxInv /\ ClosedInv /\ [Next]_vars => ClosedInv'
<1>. SUFFICES ASSUME RxInv, ClosedInv, [Next]_vars, ~enabled', pc' # "e_clear"
              PROVE  rxHead' = rxTail'
  BY DEF ClosedInv
<1>. USE DEF vars, rxVars, ctlVars, Goto, Main
<1>1. CASE Calls
  BY <1>1 DEF ClosedInv, Calls, Begin, FlushCall, EndCall, ReadCall,
       AvailableCall, AvailableForWriteCall, SetInterrupts, WriteCall
<1>2. CASE ReadTail
  BY <1>2 DEF ReadTail, ClosedInv, RxInv, ReadInv
<1>3. CASE EndClear \/ EndDisable
  BY <1>3 DEF EndClear, EndDisable, HeadAfterEnd
<1>4. CASE Handlers
  BY <1>4 DEF Handlers, RxCompleteIrq, RxPending, TxInterrupt, ClosedInv
<1>5. CASE Line \/ UNCHANGED vars
  BY <1>5 DEF Line, FrameDone, ByteArrives, ClosedInv
<1>6. CASE \/ WriteCheck \/ WriteUdre \/ WriteUdr \/ WriteTxc
           \/ WriteNext \/ WriteWait \/ WriteStore \/ WriteHead \/ WriteUdrie
           \/ FlushTest \/ FlushPoll \/ FlushDone
           \/ ReadTest \/ ReadFetch \/ ResultReturn
  BY <1>6 DEF WriteCheck, WriteUdre, WriteUdr, WriteTxc, WriteNext, WriteWait,
       WriteStore, WriteHead, WriteUdrie, FlushTest, FlushPoll, FlushDone,
       ReadTest, ReadFetch, ResultReturn, ClosedInv
<1>. QED BY <1>1, <1>2, <1>3, <1>4, <1>5, <1>6 DEF Next, Proceed

(* end() leaves a port that holds nothing in either direction. *)
THEOREM EndLeavesNothing == ShortWindow /\ Spec => []ClosedIsEmpty
<1>1. Init => ClosedInv
  BY DEF Init, ClosedInv
<1>2. Spec => [](RxInv /\ ClosedInv)
  BY <1>1, ClosedStep, RxInvariant, PTL DEF Spec
<1>3. TypeInv /\ TxInv /\ RxInv /\ ClosedInv => ClosedIsEmpty
  <2>. SUFFICES ASSUME TypeInv, TxInv, RxInv, ClosedInv, ~enabled, pc = "idle"
                PROVE  RxQueue = << >> /\ InFlight = << >>
    BY DEF ClosedIsEmpty
  <2>1. RxQueue = << >>
    BY RxIsRing, RingEmpty DEF RxQueue, ClosedInv, TypeInv
  <2>2. InFlight = << >>
    BY AtRestIsEmpty DEF TypeInv, TxInv, RestInv
  <2>. QED BY <2>1, <2>2
<1>. QED BY <1>2, <1>3, TxInvariant, PTL

=============================================================================
